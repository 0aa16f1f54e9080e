------------------------------- MODULE WakeUps -------------------------------
(***************************************************************************)
(* How a queued job reaches a worker when workers do not poll: the          *)
(* job-queue adapters (job_queues.py), publish (jobs.py), the reaper's      *)
(* republishing and run_job (worker.py).  The queue is the job table; a     *)
(* broker only carries the job's id.  One job.                             *)
(***************************************************************************)
EXTENDS Naturals, FiniteSets

CONSTANTS WkMaxAttempts,  \* bound: attempts of the job
          WkMaxMessages,  \* bound: messages in the broker
          WkMaxFaults     \* bound: messages lost or doubled, brokers that
                          \* refuse, pods that die before they claim,
                      \* claims a tenant's limit turns away

ASSUME WkAssumption == {WkMaxAttempts, WkMaxMessages, WkMaxFaults} \subseteq Nat

VARIABLES wkBackend,    \* database, inline, broker (celery, rq), kubernetes
          wkCut,        \* the Job's name is cut before its attempt number
          wkJob,        \* queued or running or ended, and the attempt
          wkReady,      \* available_at has passed
          wkPublished,  \* published_at: never, recently, or long ago
          wkPublisher,  \* what the submitting call and the reaper are doing
          wkMessages,   \* messages the broker holds
          wkObjects,    \* Kubernetes Jobs: name and whether the pod has ended
          wkRan,        \* attempts a worker has run
          wkFaults

wkVars == <<wkBackend, wkCut, wkJob, wkReady, wkPublished, wkPublisher, wkMessages, wkObjects,
            wkRan, wkFaults>>

WkPublishers == {"submit", "reaper"}

WkInit ==
    /\ wkBackend \in {"database", "inline", "broker", "kubernetes"} /\ wkCut \in BOOLEAN
    /\ wkJob = [status |-> "queued", attempt |-> 0] /\ wkReady = TRUE
    /\ wkPublished = "never"
    /\ wkPublisher = [p \in WkPublishers |-> IF p = "submit" THEN [at |-> "read", attempt |-> 0]
                                             ELSE [at |-> "idle", attempt |-> 0]]
    /\ wkMessages = 0 /\ wkObjects = {} /\ wkRan = 0 /\ wkFaults = 0

WkQueued == wkJob.status = "queued"
WkFault == wkFaults < WkMaxFaults /\ wkFaults' = wkFaults + 1

-----------------------------------------------------------------------------
(* publish                                                                 *)

WkAt(p, place) == wkPublisher' = [wkPublisher EXCEPT ![p].at = place]

\* Mutant: a job that was published once is not published again.
WkNeverPublished == wkPublished = "never"

\* published_at is NULL or before republish_before.
WkUnpublished == wkPublished \in {"never", "long_ago"}

\* reap: queued jobs that are available and that no message has reached.
WkReap ==
    /\ wkBackend # "inline" /\ wkPublisher["reaper"].at = "idle"
    /\ WkQueued /\ wkReady /\ WkUnpublished
    /\ WkAt("reaper", "read")
    /\ UNCHANGED <<wkBackend, wkCut, wkJob, wkReady, wkPublished, wkMessages, wkObjects, wkRan,
                   wkFaults>>

\* The job is read in a session of its own; nothing is sent unless it is queued.
WkRead(p) ==
    /\ wkBackend # "inline" /\ wkPublisher[p].at = "read"
    /\ wkPublisher' = [wkPublisher EXCEPT ![p] = [at |-> IF WkQueued THEN "send" ELSE "idle",
                                                  attempt |-> wkJob.attempt]]
    /\ UNCHANGED <<wkBackend, wkCut, wkJob, wkReady, wkPublished, wkMessages, wkObjects, wkRan,
                   wkFaults>>

\* manifest: the name of the attempt's Job, cut at 63 characters.
WkName(attempt) == IF wkCut THEN 0 ELSE attempt + 1

\* KubernetesJobQueue.publish: a Job that exists is left as it is.
WkCreateJob(attempt) ==
    wkObjects' = IF \E o \in wkObjects : o.name = WkName(attempt) THEN wkObjects
                 ELSE wkObjects \cup {[name |-> WkName(attempt), ended |-> FALSE]}

WkSend(p) ==
    /\ wkPublisher[p].at = "send"
    /\ \/ wkBackend = "database" /\ UNCHANGED <<wkMessages, wkObjects>>
       \/ /\ wkBackend = "broker" /\ wkMessages < WkMaxMessages
          /\ wkMessages' = wkMessages + 1 /\ wkObjects' = wkObjects
       \/ wkBackend = "kubernetes" /\ WkCreateJob(wkPublisher[p].attempt) /\ wkMessages' = wkMessages
    /\ WkAt(p, "mark")
    /\ UNCHANGED <<wkBackend, wkCut, wkJob, wkReady, wkPublished, wkRan, wkFaults>>

\* JobQueueUnavailableError: the job stays queued.
WkSendFails(p) ==
    /\ wkPublisher[p].at = "send" /\ wkBackend \in {"broker", "kubernetes"} /\ WkFault
    /\ WkAt(p, "idle")
    /\ UNCHANGED <<wkBackend, wkCut, wkJob, wkReady, wkPublished, wkMessages, wkObjects, wkRan>>

\* published_at is written afterwards, whatever the job has become.
WkMark(p) ==
    /\ wkPublisher[p].at = "mark" /\ wkPublished' = "recently"
    /\ WkAt(p, "idle")
    /\ UNCHANGED <<wkBackend, wkCut, wkJob, wkReady, wkMessages, wkObjects, wkRan, wkFaults>>

\* JOB_REPUBLISH_AFTER_S passes.
WkAge ==
    /\ wkPublished = "recently" /\ wkPublished' = "long_ago"
    /\ UNCHANGED <<wkBackend, wkCut, wkJob, wkReady, wkPublisher, wkMessages, wkObjects, wkRan,
                   wkFaults>>

-----------------------------------------------------------------------------
(* The worker a message reaches                                            *)

\* A claim by id asks for a queued job only: available_at is not looked at.
WkClaims ==
    /\ WkQueued
    /\ wkJob' = [status |-> "running", attempt |-> wkJob.attempt + 1]
    /\ wkRan' = wkRan + 1 /\ wkPublished' = wkPublished /\ wkFaults' = wkFaults

\* The job is not queued, or its tenant is at its limit.  _unpublish: a job
\* that is still queued is published again.
WkCannotClaim ==
    /\ \/ ~WkQueued /\ UNCHANGED <<wkPublished, wkFaults>>
       \/ WkQueued /\ WkFault /\ wkPublished' = "never"
    /\ UNCHANGED <<wkJob, wkRan>>

\* A Celery or RQ worker runs run_job_by_id.
WkDeliver ==
    /\ wkMessages > 0 /\ wkMessages' = wkMessages - 1
    /\ WkClaims \/ WkCannotClaim
    /\ UNCHANGED <<wkBackend, wkCut, wkReady, wkPublisher, wkObjects>>

WkLose ==
    /\ wkMessages > 0 /\ WkFault /\ wkMessages' = wkMessages - 1
    /\ UNCHANGED <<wkBackend, wkCut, wkJob, wkReady, wkPublished, wkPublisher, wkObjects, wkRan>>

WkDouble ==
    /\ wkMessages \in 1..(WkMaxMessages - 1) /\ WkFault /\ wkMessages' = wkMessages + 1
    /\ UNCHANGED <<wkBackend, wkCut, wkJob, wkReady, wkPublished, wkPublisher, wkObjects, wkRan>>

WkPodEnds(o) == wkObjects' = (wkObjects \ {o}) \cup {[o EXCEPT !.ended = TRUE]}

\* The pod runs "oran-adapt worker run-job" once (backoffLimit 0).
WkPod(o) ==
    /\ o \in wkObjects /\ ~o.ended /\ WkPodEnds(o)
    /\ WkClaims \/ WkCannotClaim
    /\ UNCHANGED <<wkBackend, wkCut, wkReady, wkPublisher, wkMessages>>

WkPodDies(o) ==
    /\ o \in wkObjects /\ ~o.ended /\ WkFault /\ WkPodEnds(o)
    /\ UNCHANGED <<wkBackend, wkCut, wkJob, wkReady, wkPublished, wkPublisher, wkMessages, wkRan>>

\* ttlSecondsAfterFinished passes: Kubernetes removes the Job.
WkPodRemoved(o) ==
    /\ o \in wkObjects /\ o.ended /\ wkObjects' = wkObjects \ {o}
    /\ UNCHANGED <<wkBackend, wkCut, wkJob, wkReady, wkPublished, wkPublisher, wkMessages, wkRan,
                   wkFaults>>

\* A polling worker, or the submitting call itself in run_to_settled: both
\* wait for available_at.
WkPoll ==
    /\ wkBackend \in {"database", "inline"} /\ wkReady /\ WkClaims
    /\ UNCHANGED <<wkBackend, wkCut, wkReady, wkPublisher, wkMessages, wkObjects>>

-----------------------------------------------------------------------------
(* The attempt ends                                                        *)

WkEnds ==
    /\ wkJob.status = "running" /\ wkJob' = [wkJob EXCEPT !.status = "ended"]
    /\ UNCHANGED <<wkBackend, wkCut, wkReady, wkPublished, wkPublisher, wkMessages, wkObjects,
                   wkRan, wkFaults>>

\* requeue: available after the backoff; a drained attempt is not charged.
WkRequeue(charge) ==
    /\ wkJob.status = "running" /\ wkRan < WkMaxAttempts
    /\ wkJob' = [status |-> "queued",
                 attempt |-> IF charge THEN wkJob.attempt ELSE wkJob.attempt - 1]
    /\ wkReady' = ~charge /\ wkPublished' = "never"
    /\ UNCHANGED <<wkBackend, wkCut, wkPublisher, wkMessages, wkObjects, wkRan, wkFaults>>

WkBackoffOver ==
    /\ ~wkReady /\ wkReady' = TRUE
    /\ UNCHANGED <<wkBackend, wkCut, wkJob, wkPublished, wkPublisher, wkMessages, wkObjects, wkRan,
                   wkFaults>>

WkNext ==
    \/ WkReap \/ WkAge \/ WkDeliver \/ WkLose \/ WkDouble \/ WkPoll \/ WkEnds \/ WkBackoffOver
    \/ \E p \in WkPublishers : WkRead(p) \/ WkSend(p) \/ WkSendFails(p) \/ WkMark(p)
    \/ \E o \in wkObjects : WkPod(o) \/ WkPodDies(o) \/ WkPodRemoved(o)
    \/ \E charge \in BOOLEAN : WkRequeue(charge)

\* What goes on by itself: the reaper's passes, a publish that has begun, the
\* clocks, the broker's deliveries, the workers' polls, pods and their removal.
WkFairness ==
    /\ WF_wkVars(WkReap) /\ WF_wkVars(WkAge) /\ WF_wkVars(WkDeliver) /\ WF_wkVars(WkPoll)
    /\ WF_wkVars(WkBackoffOver)
    /\ \A p \in WkPublishers : WF_wkVars(WkRead(p)) /\ WF_wkVars(WkSend(p)) /\ WF_wkVars(WkMark(p))
    /\ WF_wkVars(\E o \in wkObjects : WkPod(o)) /\ WF_wkVars(\E o \in wkObjects : WkPodRemoved(o))

WkSpec == WkInit /\ [][WkNext]_wkVars /\ WkFairness

-----------------------------------------------------------------------------
(* Properties                                                              *)

\* A queued job is claimed in the end although messages are lost, doubled
\* or refused, pods die before they claim, a publish marks the job after it
\* was requeued, and a Kubernetes Job of the same name is still there
\* (job_queues.py: "a lost, late or duplicated message cannot lose or double
\* a job").
WkEveryJobRuns == [](WkQueued => <>~WkQueued)

\* The docstring of run_job: it claims nothing that is "not yet available",
\* so that a retry waits out its backoff.  A message that is sent twice, or
\* delivered after the job was requeued, claims it at once.
WkWaitsForBackoff == [][WkQueued /\ ~WkQueued' => wkReady]_wkVars
=============================================================================
