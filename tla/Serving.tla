------------------------------- MODULE Serving -------------------------------
(***************************************************************************)
(* The deployer (registry/deployment.py) over the deployment adapters      *)
(* (adapters/deployment): a version is requested from a serving system     *)
(* that moves by itself, the result is read back, and on a failure the     *)
(* previous version is requested and read back.  One model.  The serving   *)
(* systems are modelled from what the adapters' status calls read.         *)
(*   kube       kserve and seldon: an object a controller follows          *)
(*   k8s        an existing Deployment                                     *)
(*   vertex     an endpoint, changed by long operations                    *)
(*   sagemaker  an endpoint, changed by updates that undo themselves       *)
(*   gitops     a manifest in git, applied by a controller                 *)
(*   webhook    webhook and bentoml: a service that reports its state      *)
(*   triton     a model repository and a load request                      *)
(*   alias      serving follows a registry alias                           *)
(***************************************************************************)
EXTENDS Naturals, FiniteSets

CONSTANTS SvVersions,     \* model versions
          SvShares,       \* percentages of traffic a candidate can be given
          SvMaxRequests,  \* bound: rollouts and splits
          SvMaxForeign,   \* bound: changes of the object by others
          SvMaxFaults,    \* bound: refused or unanswered requests
          SvNone          \* nothing deployed

ASSUME SvAssumption ==
    /\ SvNone \notin SvVersions /\ SvShares \subseteq Nat \ {0}
    /\ {SvMaxRequests, SvMaxForeign, SvMaxFaults} \subseteq Nat

VARIABLES svBackend,
          svObj,      \* the state the adapter has asked for
          svSeen,     \* the controller's status: the generation it is about
          svRun,      \* what the traffic really gets
          svOps,      \* operations the service is working on
          svFailed,   \* Vertex operations that have failed
          svPending,  \* Vertex: the operation this process waits for
          svHead,     \* GitOps: the manifest at the checkout's HEAD
          svTag,      \* alias: the traffic tag of each version
          svJob,      \* what the deployer is doing
          svFresh,    \* nobody has written the object since the deployer read it
          svForeign,  \* changes others made to the object
          svLive,     \* the version the last good rollout serves: what is put back
          svOut,      \* how the last rollout or split ended
          svLoose,    \* a change was started that nobody waits for
          svCount     \* requests, others' changes and faults so far

svVars == <<svBackend, svObj, svSeen, svRun, svOps, svFailed, svPending, svHead, svTag,
            svJob, svFresh, svForeign, svLive, svOut, svLoose, svCount>>

SvKube == svBackend \in {"kube", "k8s"}
SvReporting == svBackend \in {"gitops", "webhook"}
SvSplitting == svBackend \in {"kube", "webhook", "alias"}

SvIdle == [at |-> "idle", target |-> SvNone, prev |-> SvNone, share |-> 0, extra |-> 0]
SvWhole(v) == [main |-> v, cand |-> SvNone, share |-> 0]

SvInit ==
    /\ svBackend \in {"kube", "k8s", "vertex", "sagemaker", "gitops", "webhook", "triton", "alias"}
    /\ svLive \in SvVersions \cup {SvNone}
    /\ svObj = [ver |-> svLive, cand |-> SvNone, share |-> 0, gen |-> 1, extra |-> 0,
                live |-> svLive # SvNone \/ svBackend = "k8s", deleting |-> FALSE]
    /\ svSeen = [gen |-> 1, ready |-> TRUE, failed |-> FALSE]
    /\ svRun = SvWhole(svLive)
    /\ svOps = {} /\ svFailed = {} /\ svPending = SvNone /\ svHead = svLive
    /\ svTag = [v \in SvVersions |-> 0]
    /\ svJob = SvIdle /\ svFresh = FALSE /\ svForeign = 0
    /\ svOut = [kind |-> "none", run |-> SvWhole(svLive)]
    /\ svLoose = FALSE
    /\ svCount = [requests |-> 0, foreign |-> 0, faults |-> 0]

SvSystem == <<svObj, svSeen, svRun, svOps, svFailed, svHead, svTag>>

-----------------------------------------------------------------------------
(* status, adapter by adapter                                              *)

SvState(v, ready, failed) == [ver |-> v, ready |-> ready, failed |-> failed]

\* Mutant: a status left over from the version before counts.
SvObservedAnyway == TRUE

\* status.observedGeneration >= metadata.generation
SvObserved == svSeen.gen >= svObj.gen

SvResourceStatus ==
    IF ~svObj.live THEN SvState(SvNone, TRUE, FALSE)
    ELSE IF svObj.deleting THEN SvState(SvNone, FALSE, FALSE)
    ELSE SvState(IF svObj.share > 0 THEN svObj.cand ELSE svObj.ver,
                 SvObserved /\ svSeen.ready, SvObserved /\ svSeen.failed)

\* All replicas updated and ready, the old pods gone; or the progress
\* deadline exceeded.
SvK8sStatus == SvState(svObj.ver, SvObserved /\ svSeen.ready, SvObserved /\ svSeen.failed)

\* The operation this process started comes first; the endpoint's traffic
\* split counts when there is none, or it has ended.
SvVertexStatus ==
    IF svPending \in svOps THEN SvState(svPending, FALSE, FALSE)
    ELSE IF svPending \in svFailed THEN SvState(svPending, FALSE, TRUE)
    ELSE SvState(svRun.main, TRUE, FALSE)

SvSagemakerStatus == SvState(svRun.main, svSeen.ready, svSeen.failed)

\* parse_status: what the serving system says of itself.
SvReportedStatus == SvState(svRun.main, svSeen.ready, svSeen.failed)

SvTritonStatus == SvState(svRun.main, TRUE, FALSE)
SvAliasStatus == SvState(svObj.ver, TRUE, FALSE)

SvStatus == CASE svBackend = "kube" -> SvResourceStatus
              [] svBackend = "k8s" -> SvK8sStatus
              [] svBackend = "vertex" -> SvVertexStatus
              [] svBackend = "sagemaker" -> SvSagemakerStatus
              [] SvReporting -> SvReportedStatus
              [] svBackend = "triton" -> SvTritonStatus
              [] svBackend = "alias" -> SvAliasStatus

\* traffic(): KServe's is in the spec, the others report what they do.
SvTraffic == IF svBackend = "kube" THEN [main |-> svObj.ver, cand |-> svObj.cand, share |-> svObj.share]
             ELSE svRun

-----------------------------------------------------------------------------
(* What one request of the adapter changes: deploy(v), or restore with     *)
(* v = SvNone for nothing deployed                                         *)

\* No 409: the object is as it was read.
SvWriteMatches == svFresh

\* PUT or POST of the object as it was read, with the new version in it.
SvWriteObject(v, cand, share) ==
    /\ SvWriteMatches
    /\ svObj' = [svObj EXCEPT !.ver = v, !.cand = cand, !.share = share, !.live = TRUE,
                              !.gen = @ + 1, !.extra = svJob.extra]
    /\ UNCHANGED <<svSeen, svRun, svOps, svFailed, svHead, svTag>>

SvDeleteObject ==
    /\ svObj' = [svObj EXCEPT !.deleting = svObj.live]
    /\ UNCHANGED <<svSeen, svRun, svOps, svFailed, svHead, svTag>>

SvResourceRequest(v) == IF v = SvNone THEN SvDeleteObject ELSE SvWriteObject(v, SvNone, 0)
SvK8sRequest(v) == SvWriteObject(v, SvNone, 0)

\* :deployModel starts an operation.  Deployed models without traffic are
\* undeployed first, so a version is at hand only while it has the traffic.
SvVertexDeploy(v) ==
    /\ svOps' = svOps \cup {v} /\ svFailed' = svFailed \ {v}
    /\ UNCHANGED <<svObj, svSeen, svRun, svHead, svTag>>

\* restore: a traffic switch when the version is still deployed, a new
\* deployment when it is not, and nothing left deployed for SvNone.
SvVertexRestore(v) ==
    IF v # SvNone /\ svObj.ver # v THEN SvVertexDeploy(v)
    ELSE svRun' = SvWhole(v) /\ UNCHANGED <<svObj, svSeen, svOps, svFailed, svHead, svTag>>

\* An endpoint that is being changed, or has failed, refuses an update; it
\* can be deleted.
SvSagemakerRequest(v) ==
    /\ v # SvNone => svOps = {} /\ ~svSeen.failed
    /\ IF v = SvNone
       THEN svOps' = {} /\ svRun' = SvWhole(SvNone)
            /\ svSeen' = [svSeen EXCEPT !.ready = TRUE, !.failed = FALSE]
       ELSE svOps' = {v} /\ svSeen' = [svSeen EXCEPT !.ready = FALSE] /\ svRun' = svRun
    /\ UNCHANGED <<svObj, svFailed, svHead, svTag>>

\* The manifest is committed and pushed; a manifest HEAD already holds is
\* neither.
SvGitRequest(v) ==
    /\ svHead' = v
    /\ svObj' = IF svHead = v THEN svObj ELSE [svObj EXCEPT !.ver = v]
    /\ UNCHANGED <<svSeen, svRun, svOps, svFailed, svTag>>

SvWebhookRequest(v) ==
    /\ svObj' = [svObj EXCEPT !.ver = v]
    /\ svSeen' = [svSeen EXCEPT !.ready = FALSE, !.failed = FALSE]
    /\ UNCHANGED <<svRun, svOps, svFailed, svHead, svTag>>

\* Stage, write the version policy, load; or unload.
SvTritonRequest(v) ==
    /\ svObj' = [svObj EXCEPT !.ver = v] /\ svRun' = SvWhole(v)
    /\ UNCHANGED <<svSeen, svOps, svFailed, svHead, svTag>>

SvAliasRequest(v) ==
    /\ svObj' = [svObj EXCEPT !.ver = v] /\ svRun' = [svRun EXCEPT !.main = v]
    /\ UNCHANGED <<svSeen, svOps, svFailed, svHead, svTag>>

SvRequest(v, back) ==
    \/ svBackend = "kube" /\ SvResourceRequest(v)
    \/ svBackend = "k8s" /\ SvK8sRequest(v)
    \/ svBackend = "vertex" /\ (IF back THEN SvVertexRestore(v) ELSE SvVertexDeploy(v))
    \/ svBackend = "sagemaker" /\ SvSagemakerRequest(v)
    \/ svBackend = "gitops" /\ SvGitRequest(v)
    \/ svBackend = "webhook" /\ SvWebhookRequest(v)
    \/ svBackend = "triton" /\ SvTritonRequest(v)
    \/ svBackend = "alias" /\ SvAliasRequest(v)

\* A request that fails with part of it done: the commit is made and the
\* push refused; the policy is written and the load refused.
SvHalfRequest(v) ==
    \/ svBackend = "gitops" /\ svHead' = v /\ UNCHANGED <<svObj, svSeen, svRun, svOps, svFailed, svTag>>
    \/ svBackend = "triton" /\ svObj' = [svObj EXCEPT !.ver = v]
       /\ UNCHANGED <<svSeen, svRun, svOps, svFailed, svHead, svTag>>

-----------------------------------------------------------------------------
(* The deployer                                                            *)

SvTo(place) == svJob' = [svJob EXCEPT !.at = place]
SvFault == svCount.faults < SvMaxFaults /\ svCount' = [svCount EXCEPT !.faults = @ + 1]
SvEnd(kind, run) == svJob' = SvIdle /\ svOut' = [kind |-> kind, run |-> run]

\* A change is left to itself: a Vertex operation nobody waits for, or a
\* manifest that was committed and never pushed.
SvUnwatched == \/ svBackend = "vertex" /\ svOps \ {svPending} # {}
               \/ svBackend = "gitops" /\ svHead # svObj.ver

SvRollout(v) ==
    /\ svJob.at = "idle" /\ svCount.requests < SvMaxRequests
    /\ svJob' = [SvIdle EXCEPT !.at = "deploy", !.target = v, !.prev = svLive]
    /\ svCount' = [svCount EXCEPT !.requests = @ + 1]
    /\ svOut' = [svOut EXCEPT !.kind = "none"]
    /\ svLoose' = SvUnwatched
    /\ UNCHANGED <<svBackend, SvSystem, svPending, svFresh, svForeign, svLive>>

\* The adapter reads the object (or the endpoint) it is about to change.
SvRead ==
    /\ svJob.at \in {"deploy", "restore", "split"}
    /\ svJob' = [svJob EXCEPT !.extra = svObj.extra,
                    !.at = CASE svJob.at = "deploy" -> "put" [] svJob.at = "restore" -> "back"
                             [] svJob.at = "split" -> "share"]
    /\ svFresh' = TRUE
    /\ UNCHANGED <<svBackend, SvSystem, svPending, svForeign, svLive, svOut, svLoose, svCount>>

SvDeploy ==
    /\ svJob.at = "put" /\ SvRequest(svJob.target, FALSE)
    /\ svPending' = IF svBackend = "vertex" THEN svJob.target ELSE svPending
    /\ svFresh' = FALSE
    /\ SvTo("wait")
    /\ UNCHANGED <<svBackend, svForeign, svLive, svOut, svLoose, svCount>>

\* deploy raises: refused, half done, or done with its answer lost.
SvDeployFails ==
    /\ svJob.at = "put"
    /\ \/ SvRequest(svJob.target, FALSE) \/ SvHalfRequest(svJob.target) \/ UNCHANGED SvSystem
    /\ SvFault /\ svFresh' = FALSE
    /\ SvTo("restore")
    /\ UNCHANGED <<svBackend, svPending, svForeign, svLive, svOut, svLoose>>

\* A 409 or a refused update raises whatever the fault budget says.
SvDeployRefused ==
    /\ svJob.at = "put"
    /\ \/ SvKube /\ ~SvWriteMatches
       \/ svBackend = "sagemaker" /\ (svOps # {} \/ svSeen.failed)
    /\ SvTo("restore")
    /\ UNCHANGED <<svBackend, SvSystem, svPending, svFresh, svForeign, svLive, svOut, svLoose, svCount>>

\* Vertex forgets its operation once it has read that it ended.
SvPendingRead == svPending' = IF svPending \in svOps THEN svPending ELSE SvNone

\* _poll with fail_on_other: settled at the target, or failed, or settled
\* elsewhere.
SvPoll ==
    /\ svJob.at = "wait"
    /\ LET state == SvStatus
       IN  \/ /\ state.ready /\ state.ver = svJob.target
              /\ SvEnd("ok", SvWhole(svJob.target)) /\ svLive' = svJob.target
           \/ /\ state.failed \/ (state.ready /\ state.ver # svJob.target)
              /\ SvTo("restore") /\ UNCHANGED <<svOut, svLive>>
    /\ SvPendingRead
    /\ UNCHANGED <<svBackend, SvSystem, svFresh, svForeign, svLoose, svCount>>

SvTimeout ==
    /\ svJob.at = "wait" /\ ~SvStatus.ready
    /\ SvTo("restore") /\ SvPendingRead
    /\ UNCHANGED <<svBackend, SvSystem, svFresh, svForeign, svLive, svOut, svLoose, svCount>>

\* revert: the adapter's restore, then the read-back of the previous version.
SvRestore ==
    /\ svJob.at = "back" /\ SvRequest(svJob.prev, TRUE)
    /\ svPending' = IF svBackend = "vertex" /\ svOps' # svOps THEN svJob.prev ELSE SvNone
    /\ svFresh' = FALSE
    /\ SvTo("waitback")
    /\ UNCHANGED <<svBackend, svForeign, svLive, svOut, svCount>>
    /\ svLoose' = (svLoose \/ SvUnwatched')

\* restore raises, or its read-back fails or times out: restored is False.
SvRestoreFails ==
    /\ svJob.at \in {"back", "waitback"}
    /\ svJob.at = "waitback" => ~(SvStatus.ready /\ SvStatus.ver = svJob.prev)
    /\ SvEnd("lost", svRun) /\ svPending' = SvNone /\ svFresh' = FALSE
    /\ svLoose' = (svLoose \/ SvUnwatched)
    /\ UNCHANGED <<svBackend, SvSystem, svForeign, svLive, svCount>>

SvPollBack ==
    /\ svJob.at = "waitback" /\ SvStatus.ready /\ SvStatus.ver = svJob.prev
    /\ SvEnd("restored", SvWhole(svJob.prev)) /\ SvPendingRead
    /\ UNCHANGED <<svBackend, SvSystem, svFresh, svForeign, svLive, svLoose, svCount>>

-----------------------------------------------------------------------------
(* Traffic splits                                                          *)

SvSplit(v, share) ==
    /\ SvSplitting /\ svJob.at = "idle" /\ svLive # SvNone /\ v # svLive
    /\ svCount.requests < SvMaxRequests
    /\ svJob' = [SvIdle EXCEPT !.at = "split", !.target = v, !.prev = svLive, !.share = share]
    /\ svCount' = [svCount EXCEPT !.requests = @ + 1]
    /\ svOut' = [svOut EXCEPT !.kind = "none"]
    /\ UNCHANGED <<svBackend, SvSystem, svPending, svFresh, svForeign, svLive, svLoose>>

SvAsked == [main |-> svJob.prev, cand |-> svJob.target, share |-> svJob.share]

\* set_traffic of each adapter that has it; SvNone and 0 remove the split.
SvAliasShare ==
    /\ svTag' = IF svJob.target = SvNone THEN svTag
                ELSE [svTag EXCEPT ![svJob.target] = svJob.share]
    /\ svObj' = [svObj EXCEPT !.ver = svJob.prev]
    /\ svRun' = SvAsked
    /\ UNCHANGED <<svSeen, svOps, svFailed, svHead>>

SvWebhookShare ==
    /\ svObj' = [svObj EXCEPT !.ver = svJob.prev, !.cand = svJob.target, !.share = svJob.share]
    /\ svSeen' = [svSeen EXCEPT !.ready = FALSE, !.failed = FALSE]
    /\ UNCHANGED <<svRun, svOps, svFailed, svHead, svTag>>

SvSetTraffic ==
    /\ svJob.at = "share"
    /\ \/ svBackend = "kube" /\ SvWriteObject(svJob.prev, svJob.target, svJob.share)
       \/ svBackend = "webhook" /\ SvWebhookShare
       \/ svBackend = "alias" /\ SvAliasShare
    /\ svFresh' = FALSE
    /\ SvTo("split_read")
    /\ UNCHANGED <<svBackend, svPending, svForeign, svLive, svOut, svLoose, svCount>>

\* The tag is written and the canary alias is not: a version that already
\* has the alias gets its new share.
SvAliasHalf ==
    /\ svBackend = "alias" /\ svJob.target # SvNone
    /\ svTag' = [svTag EXCEPT ![svJob.target] = svJob.share]
    /\ svRun' = [svRun EXCEPT !.share = IF svRun.cand = svJob.target THEN svJob.share ELSE @]
    /\ UNCHANGED <<svObj, svSeen, svOps, svFailed, svHead>>

\* Refused, half done, or not read back in time: DeploymentError.
SvSplitFails ==
    /\ \/ svJob.at = "share" /\ (SvAliasHalf \/ UNCHANGED SvSystem)
       \/ svJob.at = "split_read" /\ UNCHANGED SvSystem
    /\ SvEnd("failed", svRun) /\ svFresh' = FALSE
    /\ UNCHANGED <<svBackend, svPending, svForeign, svLive, svLoose, svCount>>

\* _read_back_split
SvSplitRead ==
    /\ svJob.at = "split_read"
    /\ SvStatus.ready /\ SvTraffic = SvAsked
    /\ svJob.target = SvNone => SvStatus.ver = svJob.prev
    /\ SvEnd("split", SvAsked)
    /\ UNCHANGED <<svBackend, SvSystem, svPending, svFresh, svForeign, svLive, svLoose, svCount>>

SvDeployerNext ==
    \/ \E v \in SvVersions : SvRollout(v) \/ \E p \in SvShares : SvSplit(v, p)
    \/ SvSplit(SvNone, 0)
    \/ SvRead \/ SvDeploy \/ SvDeployFails \/ SvDeployRefused \/ SvPoll \/ SvTimeout
    \/ SvRestore \/ SvRestoreFails \/ SvPollBack
    \/ SvSetTraffic \/ SvSplitFails \/ SvSplitRead

-----------------------------------------------------------------------------
(* The serving systems, as far as their status can be told apart           *)

SvDeployer == <<svBackend, svPending, svHead, svTag, svJob, svLive, svOut, svLoose>>

\* A controller takes up the latest generation.
SvObserve ==
    /\ SvKube /\ svObj.live /\ svSeen.gen < svObj.gen
    /\ svSeen' = [gen |-> svObj.gen, ready |-> FALSE, failed |-> FALSE]
    /\ svFresh' = FALSE
    /\ UNCHANGED <<SvDeployer, svObj, svRun, svOps, svFailed, svForeign, svCount>>

\* It rolls the version out, or gives it up and keeps what runs.
SvSettle(ok) ==
    /\ SvKube /\ svObj.live /\ svSeen.gen = svObj.gen /\ ~svSeen.ready /\ ~svSeen.failed
    /\ svSeen' = [svSeen EXCEPT !.ready = ok, !.failed = ~ok]
    /\ svRun' = IF ok THEN [main |-> svObj.ver, cand |-> svObj.cand, share |-> svObj.share] ELSE svRun
    /\ svFresh' = FALSE
    /\ UNCHANGED <<SvDeployer, svObj, svOps, svFailed, svForeign, svCount>>

\* The deletion of an object ends.
SvGone ==
    /\ svObj.deleting
    /\ svObj' = [svObj EXCEPT !.live = FALSE, !.deleting = FALSE, !.extra = 0]
    /\ svForeign' = 0 /\ svRun' = SvWhole(SvNone) /\ svFresh' = FALSE
    /\ UNCHANGED <<SvDeployer, svSeen, svOps, svFailed, svCount>>

\* Somebody else changes a field of the object that is not the adapter's.
SvForeignWrite ==
    /\ SvKube /\ svObj.live /\ svCount.foreign < SvMaxForeign
    /\ svObj' = [svObj EXCEPT !.extra = @ + 1, !.gen = @ + 1]
    /\ svForeign' = svForeign + 1 /\ svFresh' = FALSE
    /\ svCount' = [svCount EXCEPT !.foreign = @ + 1]
    /\ UNCHANGED <<SvDeployer, svSeen, svRun, svOps, svFailed>>

\* A Vertex operation ends: all traffic to its version, or an error.
SvOperationEnds(v, ok) ==
    /\ svBackend = "vertex" /\ v \in svOps
    /\ svOps' = svOps \ {v}
    /\ svFailed' = IF ok THEN svFailed ELSE svFailed \cup {v}
    /\ svRun' = IF ok THEN SvWhole(v) ELSE svRun
    /\ svObj' = IF ok THEN [svObj EXCEPT !.ver = svRun.main] ELSE svObj
    /\ UNCHANGED <<SvDeployer, svSeen, svFresh, svForeign, svCount>>

\* A SageMaker update ends: in service with the new configuration; back at
\* the old one; or failed when there was none.
SvUpdateEnds(v, ok) ==
    /\ svBackend = "sagemaker" /\ v \in svOps
    /\ svOps' = {}
    /\ svRun' = IF ok THEN SvWhole(v) ELSE svRun
    /\ svSeen' = [svSeen EXCEPT !.ready = ok \/ svRun.main # SvNone,
                                !.failed = ~ok /\ svRun.main = SvNone]
    /\ UNCHANGED <<SvDeployer, svObj, svFailed, svFresh, svForeign, svCount>>

SvWanted == [main |-> svObj.ver, cand |-> svObj.cand, share |-> svObj.share]

\* The GitOps controller notices the manifest some time after the push.
SvNotice ==
    /\ svBackend = "gitops" /\ svRun # SvWanted /\ svSeen.ready
    /\ svSeen' = [svSeen EXCEPT !.ready = FALSE]
    /\ UNCHANGED <<SvDeployer, svObj, svRun, svOps, svFailed, svFresh, svForeign, svCount>>

\* The service reaches what it was asked for, or reports a failure.
SvReach(ok) ==
    /\ SvReporting /\ ~svSeen.ready /\ ~svSeen.failed
    /\ svSeen' = [svSeen EXCEPT !.ready = ok, !.failed = ~ok]
    /\ svRun' = IF ok THEN SvWanted ELSE svRun
    /\ UNCHANGED <<SvDeployer, svObj, svOps, svFailed, svFresh, svForeign, svCount>>

\* A new manifest clears the failure of the one before.
SvRetry ==
    /\ svBackend = "gitops" /\ svSeen.failed
    /\ svSeen' = [svSeen EXCEPT !.failed = FALSE]
    /\ UNCHANGED <<SvDeployer, svObj, svRun, svOps, svFailed, svFresh, svForeign, svCount>>

SvSystemNext ==
    \/ SvObserve \/ SvGone \/ SvForeignWrite \/ SvNotice \/ SvRetry
    \/ \E ok \in BOOLEAN : SvSettle(ok) \/ SvReach(ok)
    \/ \E v \in SvVersions, ok \in BOOLEAN : SvOperationEnds(v, ok) \/ SvUpdateEnds(v, ok)

SvNext == SvDeployerNext \/ SvSystemNext

SvSpec == SvInit /\ [][SvNext]_svVars

-----------------------------------------------------------------------------
(* Properties                                                              *)

\* What the deployer has read back holds, then and afterwards: after a
\* rollout that returned the traffic gets its version, after one that failed
\* with restored = True the version before it, and after a split exactly
\* that split, through stale statuses, failures, timeouts and lost answers;
\* except while a change runs that nobody waits for (_poll, revert,
\* _read_back_split and every adapter's status).
SvSettledIsServed ==
    svJob.at = "idle" /\ ~svLoose =>
        /\ svOut.kind \in {"ok", "restored"} => svRun.main = svOut.run.main
        /\ svOut.kind = "split" => svRun = svOut.run

\* A change somebody else makes to the Kubernetes object survives every
\* deploy, restore and split of the adapter (kubernetes.py: "rather than
\* overwriting someone else's change").
SvOthersKept == svObj.live => svObj.extra = svForeign

\* A deployment that was reported done is what serves, and undoes nothing else
\* (registry/deployment.py and the deployment adapters).
SvDeploysHold == SvSettledIsServed /\ SvOthersKept
=============================================================================
