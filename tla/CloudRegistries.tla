-------------------------- MODULE CloudRegistries --------------------------
(***************************************************************************)
(* The registry adapters over a remote service: Vertex AI                  *)
(* (adapters/registry/vertex.py), SageMaker (sagemaker.py) and MLflow      *)
(* (mlflow/registry.py), whose calls are several requests each.  Two model *)
(* names share one identifier of the service: Vertex ids and SageMaker     *)
(* groups are shortened and folded, so names can collide.  One alias       *)
(* (LIVE); a tag is a key.  MLflow's writers are threads of one process,   *)
(* because its adapter switches URIs of the whole process.                 *)
(***************************************************************************)
EXTENDS Naturals, Sequences, FiniteSets

CONSTANTS CnWriters,      \* concurrent callers
          CnNames,        \* model names that map to the same identifier
          CnTags,         \* tag keys
          CnMaxVersions,  \* bound: versions of the model
          CnMaxCalls,     \* bound: calls that are started
          CnTagAttempts,  \* vertex_tag_update_attempts
          CnMaxProps      \* SageMaker: metadata properties per version

ASSUME CnAssumption ==
    /\ {CnMaxVersions, CnMaxCalls, CnTagAttempts, CnMaxProps} \subseteq Nat
    /\ "none" \notin CnNames

VARIABLES cnBackend,   \* the adapter in use
          cnOwner,     \* displayName, or the group's name tag ("none": no model)
          cnVers,      \* the versions of the identifier
          cnLive,      \* the version LIVE is on (0: none)
          cnUri,       \* MLflow's process-wide URIs: "unset" or "ours"
          cnCall,      \* what each writer is doing
          cnCalls,     \* calls started
          cnTagged,    \* the tags a writer was told are stored
          cnCut,       \* LIVE was not set yet, was deleted, or its move was cut off
          cnOverlap    \* two MLflow calls were inside _fluent_uris together

cnVars == <<cnBackend, cnOwner, cnVers, cnLive, cnUri, cnCall, cnCalls, cnTagged,
            cnCut, cnOverlap>>

CnIdle == [op |-> "none", at |-> "idle", name |-> "none", ver |-> 0, tag |-> "none",
           exists |-> FALSE, current |-> 0, seen |-> {}, gen |-> 0, tries |-> 0,
           saved |-> "unset"]

CnInit ==
    /\ cnBackend \in {"vertex", "sagemaker", "mlflow"}
    /\ cnOwner = "none" /\ cnVers = <<>> /\ cnLive = 0 /\ cnUri = "unset"
    /\ cnCall = [c \in CnWriters |-> CnIdle]
    /\ cnCalls = 0 /\ cnTagged = {} /\ cnCut = TRUE /\ cnOverlap = FALSE

CnService == <<cnOwner, cnVers, cnLive>>
CnHistory == <<cnTagged, cnCut, cnOverlap>>
CnTo(c, call) == cnCall' = [cnCall EXCEPT ![c] = call]

\* The model is this name's.  MLflow keeps every name apart: the names are one
\* name there.
CnVertexModel(name) == cnBackend = "vertex" /\ cnOwner = name
CnGroup(name) == cnBackend = "sagemaker" /\ cnOwner = name
CnMlflowModel(name) == cnBackend = "mlflow" /\ cnOwner # "none"
CnModel(name) == CnVertexModel(name) \/ CnGroup(name) \/ CnMlflowModel(name)

\* ... and it has this version.
CnVertexVersion(name, v) == CnVertexModel(name) /\ v \in DOMAIN cnVers
CnPackage(name, v) == CnGroup(name) /\ v \in DOMAIN cnVers
CnMlflowVersion(name, v) == CnMlflowModel(name) /\ v \in DOMAIN cnVers
CnRawVersion(name, v) ==
    CnVertexVersion(name, v) \/ CnPackage(name, v) \/ CnMlflowVersion(name, v)

CnStart(c, call) ==
    /\ cnCall[c].at = "idle" /\ cnCalls < CnMaxCalls
    /\ CnTo(c, call) /\ cnCalls' = cnCalls + 1
    /\ UNCHANGED <<cnBackend, CnService, cnUri, CnHistory>>

\* The service is down, the token has expired, a timeout, a killed process:
\* the call ends with what it has done so far.  MLflow's URIs are restored
\* on the way out, and a Vertex upload may still succeed later.
CnFails(c) ==
    /\ cnCall[c].at \notin {"idle", "fluent"}
    /\ CnTo(c, CnIdle)
    /\ cnCut' = (cnCut \/ (cnCall[c].at = "add" /\ cnCall[c].current # 0))
    /\ UNCHANGED <<cnBackend, CnService, cnUri, cnCalls, cnTagged, cnOverlap>>

-----------------------------------------------------------------------------
(* create_version                                                          *)

CnCreateVersion(c, name) ==
    CnStart(c, [CnIdle EXCEPT !.op = "create", !.name = name,
                   !.at = IF cnBackend = "mlflow" THEN "enter" ELSE "look"])

\* The identifier is unused, or holds this name's model.
CnNotAnothers(name) == cnOwner \in {"none", name}

\* Vertex: is there a model, and is it ours?  A model of another name is a
\* ConflictError.  The artifact and the sidecar files go to GCS after this.
CnVertexLook(c) ==
    /\ cnBackend = "vertex" /\ cnCall[c].at = "look"
    /\ CnTo(c, IF CnNotAnothers(cnCall[c].name)
               THEN [cnCall[c] EXCEPT !.at = "upload", !.exists = cnOwner # "none"]
               ELSE CnIdle)
    /\ UNCHANGED <<cnBackend, CnService, cnUri, cnCalls, CnHistory>>

CnNewVersion(name, raced) == [by |-> name, tags |-> {}, gen |-> 1, raced |-> raced]

CnAppend(c, raced) ==
    /\ Len(cnVers) < CnMaxVersions
    /\ cnVers' = Append(cnVers, CnNewVersion(cnCall[c].name, raced))

\* models:upload, with the id when there was no model and with the parent
\* when there was.  409: somebody created the model after the look, and this
\* upload becomes its next version.
CnVertexUpload(c) ==
    /\ cnBackend = "vertex" /\ cnCall[c].at = "upload"
    /\ LET conflict == ~cnCall[c].exists /\ cnOwner # "none"
       IN  /\ CnAppend(c, conflict)
           /\ cnOwner' = IF cnOwner = "none" THEN cnCall[c].name ELSE cnOwner
    /\ CnTo(c, CnIdle)
    /\ UNCHANGED <<cnBackend, cnLive, cnUri, cnCalls, CnHistory>>

\* SageMaker's _ensure_group, in two requests: the group is created when it
\* was missing, which fails if another writer has created it meanwhile.
CnGroupLook(c) ==
    /\ cnBackend = "sagemaker" /\ cnCall[c].at = "look"
    /\ CnTo(c, IF CnNotAnothers(cnCall[c].name)
               THEN [cnCall[c] EXCEPT !.at = IF cnOwner = "none" THEN "group" ELSE "upload"]
               ELSE CnIdle)
    /\ UNCHANGED <<cnBackend, CnService, cnUri, cnCalls, CnHistory>>

CnGroupCreate(c) ==
    /\ cnBackend = "sagemaker" /\ cnCall[c].at = "group"
    /\ IF cnOwner = "none"
       THEN cnOwner' = cnCall[c].name /\ CnTo(c, [cnCall[c] EXCEPT !.at = "upload"])
       ELSE cnOwner' = cnOwner /\ CnTo(c, CnIdle)
    /\ UNCHANGED <<cnBackend, cnVers, cnLive, cnUri, cnCalls, CnHistory>>

CnPackageCreate(c) ==
    /\ cnBackend = "sagemaker" /\ cnCall[c].at = "upload"
    /\ CnAppend(c, FALSE)
    /\ CnTo(c, CnIdle)
    /\ UNCHANGED <<cnBackend, cnOwner, cnLive, cnUri, cnCalls, CnHistory>>

\* MLflow's _fluent_uris: the URIs are saved and pointed at this registry
\* while the run is logged, and put back whether or not that succeeded.
CnFluentEnter(c) ==
    /\ cnCall[c].at = "enter"
    /\ CnTo(c, [cnCall[c] EXCEPT !.at = "fluent", !.saved = cnUri])
    /\ cnUri' = "ours"
    /\ cnOverlap' = (cnOverlap \/ \E d \in CnWriters : cnCall[d].at = "fluent")
    /\ UNCHANGED <<cnBackend, CnService, cnCalls, cnTagged, cnCut>>

CnRestored(c, logged) == cnCall[c].saved

CnFluentExit(c, logged) ==
    /\ cnCall[c].at = "fluent"
    /\ cnUri' = CnRestored(c, logged)
    /\ CnTo(c, IF logged /\ cnCall[c].op = "create" THEN [cnCall[c] EXCEPT !.at = "ensure"]
               ELSE CnIdle)
    /\ UNCHANGED <<cnBackend, CnService, cnCalls, CnHistory>>

\* _ensure_registered_model looks, and then creates what was missing.
CnEnsureModel(c) ==
    /\ cnCall[c].at = "ensure"
    /\ CnTo(c, [cnCall[c] EXCEPT !.at = "register", !.exists = cnOwner # "none"])
    /\ UNCHANGED <<cnBackend, CnService, cnUri, cnCalls, CnHistory>>

\* create_registered_model fails when another thread was first.
CnModelVersionCreate(c) ==
    /\ cnCall[c].at = "register"
    /\ \/ /\ ~cnCall[c].exists /\ cnOwner # "none"
          /\ UNCHANGED CnService
       \/ /\ cnCall[c].exists \/ cnOwner = "none"
          /\ CnAppend(c, FALSE)
          /\ cnOwner' = IF cnOwner = "none" THEN cnCall[c].name ELSE cnOwner
          /\ UNCHANGED cnLive
    /\ CnTo(c, CnIdle)
    /\ UNCHANGED <<cnBackend, cnUri, cnCalls, CnHistory>>

\* MLflow's download_artifacts runs inside _fluent_uris too.
CnDownload(c, name, v) ==
    /\ cnBackend = "mlflow" /\ CnRawVersion(name, v)
    /\ CnStart(c, [CnIdle EXCEPT !.op = "download", !.name = name, !.at = "enter"])

-----------------------------------------------------------------------------
(* The LIVE alias                                                          *)

CnAliasTarget(name, v) == CnRawVersion(name, v)

CnSetAlias(c, name, v) ==
    /\ CnAliasTarget(name, v)
    /\ CnStart(c, [CnIdle EXCEPT !.op = "alias", !.name = name, !.ver = v, !.at = "current"])

CnDeleteAlias(c, name) ==
    /\ CnModel(name) /\ cnLive # 0
    /\ CnStart(c, [CnIdle EXCEPT !.op = "unalias", !.name = name, !.at = "remove",
                      !.current = cnLive])

\* Vertex: which version has LIVE now?  Nothing to do when it is this one.
CnVertexCurrent(c) ==
    /\ cnBackend = "vertex" /\ cnCall[c].at = "current"
    /\ CnTo(c, IF cnLive = cnCall[c].ver THEN CnIdle
               ELSE [cnCall[c] EXCEPT !.current = cnLive,
                                      !.at = IF cnLive = 0 THEN "add" ELSE "remove"])
    /\ UNCHANGED <<cnBackend, CnService, cnUri, cnCalls, CnHistory>>

CnLiveIs(v) == cnLive' = v /\ UNCHANGED <<cnBackend, cnOwner, cnVers, cnUri, cnCalls, cnTagged,
                                        cnOverlap>>

\* Vertex: the alias is taken off that version, if it is still there.
CnVertexRemoveAlias(c) ==
    LET taken == cnLive # 0 /\ cnLive = cnCall[c].current IN
    /\ cnBackend = "vertex" /\ cnCall[c].at = "remove"
    /\ CnLiveIs(IF taken THEN 0 ELSE cnLive)
    /\ cnCut' = (cnCut \/ (taken /\ cnCall[c].op = "unalias"))
    /\ CnTo(c, IF cnCall[c].op = "alias" THEN [cnCall[c] EXCEPT !.at = "add"] ELSE CnIdle)

\* SageMaker and MLflow delete the alias whatever version it is on by now.
CnDeleteTag(c) ==
    /\ cnBackend = "sagemaker" /\ cnCall[c].at = "remove"
    /\ CnLiveIs(0) /\ cnCut' = (cnCut \/ cnLive # 0) /\ CnTo(c, CnIdle)

CnMlflowDeleteAlias(c) ==
    /\ cnBackend = "mlflow" /\ cnCall[c].at = "remove"
    /\ CnLiveIs(0) /\ cnCut' = (cnCut \/ cnLive # 0) /\ CnTo(c, CnIdle)

\* An alias that another version has is refused, and a version that is not there.
CnVertexAddAlias(c) ==
    LET refused == cnLive \notin {0, cnCall[c].ver} \/ cnCall[c].ver \notin DOMAIN cnVers IN
    /\ cnBackend = "vertex" /\ cnCall[c].at = "add"
    /\ CnLiveIs(IF refused THEN cnLive ELSE cnCall[c].ver)
    /\ cnCut' = (cnCut /\ refused) /\ CnTo(c, CnIdle)

\* The alias is a tag of the group, and overwritten in one request.
CnAddTag(c) ==
    /\ cnBackend = "sagemaker" /\ cnCall[c].at = "current"
    /\ CnLiveIs(cnCall[c].ver) /\ cnCut' = FALSE /\ CnTo(c, CnIdle)

CnMlflowSetAlias(c) ==
    /\ cnBackend = "mlflow" /\ cnCall[c].at = "current"
    /\ CnLiveIs(cnCall[c].ver) /\ cnCut' = FALSE /\ CnTo(c, CnIdle)

-----------------------------------------------------------------------------
(* set_version_tags                                                        *)

\* SageMaker keeps so many properties of a version.
CnPropertiesFit(v, t) ==
    cnBackend = "sagemaker" => Cardinality(cnVers[v].tags \cup {t}) <= CnMaxProps

CnSetVersionTags(c, name, v, t) ==
    /\ CnRawVersion(name, v) /\ CnPropertiesFit(v, t)
    /\ CnStart(c, [CnIdle EXCEPT !.op = "tags", !.name = name, !.ver = v, !.tag = t,
                      !.at = IF cnBackend = "vertex" THEN "read" ELSE "merge"])

CnMerge(c) ==
    /\ cnVers' = [cnVers EXCEPT ![cnCall[c].ver].tags = @ \cup {cnCall[c].tag}]
    /\ cnTagged' = cnTagged \cup {<<cnCall[c].ver, cnCall[c].tag>>}
    /\ CnTo(c, CnIdle)
    /\ UNCHANGED <<cnBackend, cnOwner, cnLive, cnUri, cnCalls, cnCut, cnOverlap>>

\* SageMaker and MLflow merge on the server: the request holds the new keys only.
CnUpdatePackage(c) == cnBackend = "sagemaker" /\ cnCall[c].at = "merge" /\ CnMerge(c)
CnMlflowSetTag(c) == cnBackend = "mlflow" /\ cnCall[c].at = "merge" /\ CnMerge(c)

\* Vertex: the tags file and its generation, the merged file written back
\* under that generation, and a new round when it has moved on.
CnReadTags(c) ==
    /\ cnCall[c].at = "read"
    /\ CnTo(c, IF cnCall[c].tries = CnTagAttempts THEN CnIdle
               ELSE [cnCall[c] EXCEPT !.at = "write", !.tries = @ + 1,
                        !.seen = cnVers[cnCall[c].ver].tags,
                        !.gen = cnVers[cnCall[c].ver].gen])
    /\ UNCHANGED <<cnBackend, CnService, cnUri, cnCalls, CnHistory>>

\* Mutant: the file is written whatever its generation.
CnAnyGeneration(c) == TRUE

\* The write is accepted: ifGenerationMatch names the file's generation.
CnGenerationMatches(c) == cnCall[c].gen = cnVers[cnCall[c].ver].gen

CnWriteTags(c) ==
    /\ cnCall[c].at = "write"
    /\ IF CnGenerationMatches(c)
       THEN /\ LET old == cnVers[cnCall[c].ver]
                   new == [old EXCEPT !.tags = cnCall[c].seen \cup {cnCall[c].tag},
                                      !.gen = old.gen + 1]
               IN  cnVers' = [cnVers EXCEPT ![cnCall[c].ver] = new]
            /\ cnTagged' = cnTagged \cup {<<cnCall[c].ver, cnCall[c].tag>>}
            /\ CnTo(c, CnIdle)
       ELSE /\ CnTo(c, [cnCall[c] EXCEPT !.at = "read"])
            /\ UNCHANGED <<cnVers, cnTagged>>
    /\ UNCHANGED <<cnBackend, cnOwner, cnLive, cnUri, cnCalls, cnCut, cnOverlap>>

CnStep(c) ==
    \/ CnFails(c)
    \/ \E n \in CnNames :
          \/ CnCreateVersion(c, n) \/ CnDeleteAlias(c, n)
          \/ \E v \in 1 .. CnMaxVersions :
                \/ CnSetAlias(c, n, v) \/ CnDownload(c, n, v)
                \/ \E t \in CnTags : CnSetVersionTags(c, n, v, t)
    \/ CnVertexLook(c) \/ CnVertexUpload(c)
    \/ CnGroupLook(c) \/ CnGroupCreate(c) \/ CnPackageCreate(c)
    \/ CnFluentEnter(c) \/ (\E logged \in BOOLEAN : CnFluentExit(c, logged))
    \/ CnEnsureModel(c) \/ CnModelVersionCreate(c)
    \/ CnVertexCurrent(c) \/ CnVertexRemoveAlias(c) \/ CnVertexAddAlias(c)
    \/ CnDeleteTag(c) \/ CnAddTag(c) \/ CnMlflowDeleteAlias(c) \/ CnMlflowSetAlias(c)
    \/ CnUpdatePackage(c) \/ CnMlflowSetTag(c) \/ CnReadTags(c) \/ CnWriteTags(c)

CnNext == \E c \in CnWriters : CnStep(c)

CnSpec == CnInit /\ [][CnNext]_cnVars

-----------------------------------------------------------------------------
(* Properties                                                              *)

\* A tag a writer was told is stored stays, whatever writers did in between
\* (vertex.py: "concurrent writers never lose each other's tags").
CnTagsKept == \A p \in cnTagged : p[2] \in cnVers[p[1]].tags

\* LIVE, once set, is on no version only while a writer is half-way through
\* moving it, or after a move was cut off there or LIVE was deleted: a
\* refused or overtaken set_alias never leaves the model without LIVE
\* (vertex.py set_alias: remove, then add).
CnLiveGoneOnlyByCut ==
    cnLive = 0 => \/ cnCut
                  \/ \E c \in CnWriters : cnCall[c].op = "alias" /\ cnCall[c].at = "add"

\* A version stands under an identifier another name owns only when the
\* owner's model was created between this writer's look and its upload
\* (vertex.py create_version, sagemaker.py _ensure_group).
CnOwnNames == \A v \in DOMAIN cnVers :
    cnBackend # "mlflow" /\ cnVers[v].by # cnOwner => cnVers[v].raced

\* With no MLflow call inside, the process-wide URIs are as they were,
\* unless two calls overlapped (mlflow/registry.py _fluent_uris).
CnUrisRestored ==
    cnUri # "unset" => cnOverlap \/ \E c \in CnWriters : cnCall[c].at = "fluent"

\* Overlapping and interrupted writers of one registry undo nothing of each other's
\* (vertex.py, sagemaker.py, mlflow/registry.py).
CnNothingUndone == CnTagsKept /\ CnLiveGoneOnlyByCut /\ CnOwnNames /\ CnUrisRestored
=============================================================================
