----------------------------- MODULE Onboarding -----------------------------
(***************************************************************************)
(* Model onboarding (registry/onboarding.py, registry/publishing.py): each *)
(* request is one database transaction with registry calls in the middle,  *)
(* and the registry does not roll back.  All requests name the same        *)
(* registered model; a model id is the row's unique key.                   *)
(***************************************************************************)
EXTENDS Naturals, Sequences, FiniteSets

CONSTANTS ObRequests,  \* onboard and attach requests, from the API and the CLI
          ObModels,    \* model ids
          ObNone       \* no request, no version

ASSUME ObAssumption == ObNone \notin ObRequests

VARIABLES obReq,      \* each request: what it asks for and how far it is
          obRows,     \* the model rows: who inserted them, and whether they are committed
          obLinks,    \* committed training links: <<model, version>>
          obVersions, \* the registry's versions: the request that published each
          obTagged,   \* the registry versions tagged with a model's data
          obLive,     \* the version LIVE is on
          obMovedBy   \* the requests that have moved LIVE

obVars == <<obReq, obRows, obLinks, obVersions, obTagged, obLive, obMovedBy>>

\* target: the training data has the target column.  drifted: drifted data
\* is given too.  named: attach names a version instead of taking LIVE's.
\* data: the training data is given, or an attach names an ingested version.
ObAsks == [kind : {"onboard"}, model : ObModels, target : BOOLEAN, drifted : BOOLEAN,
           named : {FALSE}, data : {TRUE}]
          \cup [kind : {"attach"}, model : ObModels, target : {TRUE}, drifted : {FALSE},
                named : BOOLEAN, data : BOOLEAN]

ObInit ==
    /\ \E asks \in [ObRequests -> ObAsks] :
          obReq = [r \in ObRequests |-> [asks |-> asks[r], at |-> "new", ver |-> 0, why |-> "none"]]
    /\ obRows = [m \in ObModels |-> [by |-> ObNone, committed |-> FALSE]]
    /\ obLinks = {} /\ obVersions = <<ObNone>> /\ obTagged = {} /\ obLive = 1 /\ obMovedBy = {}

ObKind(r) == obReq[r].asks.kind
ObModel(r) == obReq[r].asks.model
ObAt(r, place) == obReq' = [obReq EXCEPT ![r].at = place]

\* The request raises: its transaction's rows go, the registry keeps what
\* it has been told.
ObEnd(r, why) ==
    /\ obReq' = [obReq EXCEPT ![r].at = "rejected", ![r].why = why]
    /\ obRows' = [m \in ObModels |-> IF obRows[m].by = r THEN [by |-> ObNone, committed |-> FALSE]
                                     ELSE obRows[m]]

ObRegistry == <<obVersions, obTagged, obLive, obMovedBy>>

\* _ensure_new_model and _check_target: a committed row of the same id, or
\* no target column.
ObStart(r) ==
    /\ obReq[r].at = "new"
    /\ \/ obRows[ObModel(r)].committed /\ ObEnd(r, "conflict")
       \/ ~obRows[ObModel(r)].committed /\ ~obReq[r].asks.target /\ ObEnd(r, "invalid")
       \/ /\ ~obRows[ObModel(r)].committed /\ obReq[r].asks.target
          /\ ObAt(r, IF ObKind(r) = "onboard" THEN "insert" ELSE "adopt")
          /\ UNCHANGED obRows
    /\ UNCHANGED <<obLinks, ObRegistry>>

\* attach: the version LIVE is on, or the version it was given, with LIVE
\* pointed at it; the row is inserted after that.
ObAdopt(r) ==
    /\ obReq[r].at = "adopt"
    /\ \E v \in DOMAIN obVersions :
          /\ ~obReq[r].asks.named => v = obLive
          /\ obReq' = [obReq EXCEPT ![r].at = "insert", ![r].ver = v]
          /\ obLive' = v
          /\ obMovedBy' = IF obReq[r].asks.named THEN obMovedBy \cup {r} ELSE obMovedBy
    /\ UNCHANGED <<obRows, obLinks, obVersions, obTagged>>

\* Mutant: the row reaches the database with the commit only.
ObInsertDeferred(m) == "free"

\* What the flush of a row finds: the unique key is free, waits for another
\* transaction to end, or is taken.
ObInsertFinds(m) ==
    IF obRows[m].by = ObNone THEN "free" ELSE IF obRows[m].committed THEN "taken" ELSE "wait"

ObInsert(r) ==
    /\ obReq[r].at = "insert"
    /\ \/ /\ ObInsertFinds(ObModel(r)) = "free"
          /\ obRows' = [obRows EXCEPT ![ObModel(r)] = [by |-> r, committed |-> FALSE]]
          /\ ObAt(r, IF ObKind(r) = "onboard" THEN "publish" ELSE "link")
       \/ ObInsertFinds(ObModel(r)) = "taken" /\ ObEnd(r, "conflict")
    /\ UNCHANGED <<obLinks, ObRegistry>>

\* publish_model: the version is created with its tags.
ObPublish(r) ==
    /\ obReq[r].at = "publish"
    /\ obVersions' = Append(obVersions, r)
    /\ obTagged' = obTagged \cup {<<ObModel(r), Len(obVersions) + 1>>}
    /\ obReq' = [obReq EXCEPT ![r].at = "alias", ![r].ver = Len(obVersions) + 1]
    /\ UNCHANGED <<obRows, obLinks, obLive, obMovedBy>>

ObSetAlias(r) ==
    /\ obReq[r].at = "alias"
    /\ obLive' = obReq[r].ver /\ obMovedBy' = obMovedBy \cup {r}
    /\ ObAt(r, "link")
    /\ UNCHANGED <<obRows, obLinks, obVersions, obTagged>>

\* What the request links: the training data of its version, if it has any.
ObLinked(r) == IF obReq[r].asks.data THEN {<<ObModel(r), obReq[r].ver>>} ELSE {}

\* link_model_data in the transaction; attach tags the version after it.
\* The drifted data, if any, is ingested after this.
ObLink(r) ==
    /\ obReq[r].at = "link"
    /\ obTagged' = obTagged \cup ObLinked(r)
    /\ ObAt(r, IF obReq[r].asks.drifted THEN "drifted" ELSE "commit")
    /\ UNCHANGED <<obRows, obLinks, obVersions, obLive, obMovedBy>>

ObDrifted(r) ==
    /\ obReq[r].at = "drifted"
    /\ ObAt(r, "commit")
    /\ UNCHANGED <<obRows, obLinks, ObRegistry>>

ObCommit(r) ==
    /\ obReq[r].at = "commit"
    /\ \/ /\ obRows[ObModel(r)].by = r
          /\ obRows' = [obRows EXCEPT ![ObModel(r)].committed = TRUE]
          /\ obLinks' = obLinks \cup ObLinked(r)
          /\ ObAt(r, "done")
       \/ obRows[ObModel(r)].by # r /\ ObEnd(r, "conflict") /\ UNCHANGED obLinks
    /\ UNCHANGED ObRegistry

\* The database, the registry or the model's serialisation fails, or the
\* drifted data is refused: the transaction is rolled back.
ObFails(r) ==
    /\ obReq[r].at \notin {"new", "done", "rejected"}
    /\ ObEnd(r, "failure")
    /\ UNCHANGED <<obLinks, ObRegistry>>

ObStep(r) ==
    \/ ObStart(r) \/ ObAdopt(r) \/ ObInsert(r) \/ ObPublish(r) \/ ObSetAlias(r)
    \/ ObLink(r) \/ ObDrifted(r) \/ ObCommit(r) \/ ObFails(r)

ObNext == \E r \in ObRequests : ObStep(r)

ObSpec == ObInit /\ [][ObNext]_obVars

\* An onboarding that is rejected because the model exists or the data is
\* wrong has published nothing and moved nothing, although another request
\* for the same id may run between its check and its insert (onboard_model:
\* "a rejected onboarding leaves no orphan registry version behind").  A
\* failure after the registry was touched, and an attach, can leave both.
ObRejectedLeavesNothing ==
    \A r \in ObRequests :
        obReq[r].why \in {"conflict", "invalid"} /\ ObKind(r) = "onboard" =>
            /\ \A v \in DOMAIN obVersions : obVersions[v] # r
            /\ r \notin obMovedBy
=============================================================================
