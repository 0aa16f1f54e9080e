------------------------------ MODULE JobQueue ------------------------------
(***************************************************************************)
(* The durable job queue: jobs, leases, model locks and tenant slots in    *)
(* the database, the API that submits and cancels jobs                     *)
(* (orchestrator/jobs.py), the workers that claim and run them under a     *)
(* lease and the reaper that takes expired leases away                     *)
(* (orchestrator/worker.py), and the per-model lock                        *)
(* (orchestrator/locks.py).  Attempts run in their own process             *)
(* (JOB_EXECUTION_MODE=process, the default): stopping one kills it.       *)
(*                                                                         *)
(* One action is one database transaction, or one step of a process that   *)
(* no transaction covers.  Clocks are abstracted: a lease or a lock that   *)
(* is not renewed may lapse at any moment (LeaseLapses, LockLapses), which *)
(* is how a stalled process, a slow tick or a crash is seen by the others. *)
(*                                                                         *)
(* A job is identified with its idempotency key, which the database keeps  *)
(* unique.  Lease tokens are fresh: the n-th claim of a job writes n.      *)
(***************************************************************************)
EXTENDS JobStates, Integers, FiniteSets

CONSTANTS
  Jobs,             \* drift events, by idempotency key
  Models, Workers, Tenants,
  External,         \* rollbacks and rollout ticks: they lock a model, and are no job
  ModelOf,          \* Jobs -> Models
  TenantOf,         \* Jobs -> Tenants
  TenantLimit,      \* JOB_TENANT_LIMITS / JOB_TENANT_CONCURRENCY; 0 = unlimited
  MaxRetries,       \* JOB_MAX_RETRIES
  PoisonThreshold,  \* JOB_POISON_THRESHOLD
  MaxDrains,        \* bound: how often a worker is told to drain
  Reports,          \* the stage reports the pipeline can make for these events
  NoOne             \* no lock holder, no running job

ASSUME ConstantTypes ==
  /\ ModelOf \in [Jobs -> Models]
  /\ TenantOf \in [Jobs -> Tenants]
  /\ TenantLimit \in [Tenants -> Nat]
  /\ MaxRetries \in Nat
  /\ PoisonThreshold \in Nat \ {0}
  /\ MaxDrains \in Nat
  /\ Reports \subseteq StageReports

ASSUME DistinctHolders ==
  /\ NoOne \notin Jobs \union External \union Models
  /\ Jobs \intersect External = {}

VARIABLES
  \* the adaptation_job row
  status, lease, lapsed, attempt, lost, quarantined, cancel,
  claims,       \* how many claims the job has had: the source of fresh tokens
  \* the model_lock and job_slot rows
  lock, lockLapsed, slot,
  \* each worker process: its claim, the stage its attempt is in, how it ends
  running, token, stage, ending, draining,
  drains,       \* drain signals so far
  \* reads that a later transaction acts on
  checked,      \* submissions past _holder_is_active: <<job, lock holder seen>>
  seen,         \* the lease token with which a reaper pass last found the job expired
  acting        \* the model each external lock user works on

jobVars    == <<status, lease, lapsed, attempt, lost, quarantined, cancel, claims>>
lockVars   == <<lock, lockLapsed>>
workerVars == <<running, token, stage, ending>>
drainVars  == <<draining, drains>>
vars == <<jobVars, lockVars, slot, workerVars, drainVars, checked, seen, acting>>

-----------------------------------------------------------------------------
(* How an attempt ended: a status to record, or what decides it.           *)

\* What the supervisor stops an attempt with; until it is killed the
\* attempt's process may still report a stage.
StopKinds == {"TIMED_OUT", "CANCELLED", "DRAINED", "LEASE_LOST"}

EndKinds == Terminal \union {"DRAINED", "LEASE_LOST", "WORKER_LOST", "RETRYABLE"}

Holders == Jobs \union External \union {NoOne}

TypeOK ==
  /\ status \in [Jobs -> {"NEW", "QUEUED"} \union Stages \union Terminal]
  /\ lease \in [Jobs -> Nat]
  /\ lapsed \in [Jobs -> BOOLEAN]
  /\ attempt \in [Jobs -> Nat]
  /\ lost \in [Jobs -> Nat]
  /\ quarantined \in [Jobs -> BOOLEAN]
  /\ cancel \in [Jobs -> BOOLEAN]
  /\ claims \in [Jobs -> Nat]
  /\ lock \in [Models -> Holders]
  /\ lockLapsed \in [Models -> BOOLEAN]
  /\ slot \in [Jobs -> Nat]
  /\ running \in [Workers -> Jobs \union {NoOne}]
  /\ token \in [Workers -> Nat]
  /\ stage \in [Workers -> Stages \union {"none"}]
  /\ ending \in [Workers -> EndKinds \union {"none"}]
  /\ draining \in [Workers -> BOOLEAN]
  /\ drains \in 0 .. MaxDrains
  /\ checked \subseteq Jobs \X Holders
  /\ seen \in [Jobs -> Nat]
  /\ acting \in [External -> Models \union {NoOne}]

Init ==
  /\ status = [j \in Jobs |-> "NEW"]
  /\ lease = [j \in Jobs |-> 0]
  /\ lapsed = [j \in Jobs |-> FALSE]
  /\ attempt = [j \in Jobs |-> 0]
  /\ lost = [j \in Jobs |-> 0]
  /\ quarantined = [j \in Jobs |-> FALSE]
  /\ cancel = [j \in Jobs |-> FALSE]
  /\ claims = [j \in Jobs |-> 0]
  /\ lock = [m \in Models |-> NoOne]
  /\ lockLapsed = [m \in Models |-> FALSE]
  /\ slot = [j \in Jobs |-> 0]
  /\ running = [w \in Workers |-> NoOne]
  /\ token = [w \in Workers |-> 0]
  /\ stage = [w \in Workers |-> "none"]
  /\ ending = [w \in Workers |-> "none"]
  /\ draining = [w \in Workers |-> FALSE]
  /\ drains = 0
  /\ checked = {}
  /\ seen = [j \in Jobs |-> 0]
  /\ acting = [x \in External |-> NoOne]

-----------------------------------------------------------------------------
(* The model lock (locks.py).  An expired row stays until it is taken over *)
(* or released.                                                            *)

\* take_over_expired_lock when the row is expired, add_lock when there is none.
SetLock(m, h) ==
  /\ lock' = [lock EXCEPT ![m] = h]
  /\ lockLapsed' = [lockLapsed EXCEPT ![m] = FALSE]

\* release_lock: only while h still holds it.
ReleaseLock(m, h) ==
  IF lock[m] = h THEN SetLock(m, NoOne) ELSE UNCHANGED lockVars

\* The worker renews the expiry of a lock its job still holds.
RenewLock(m, h) ==
  /\ lockLapsed' = IF lock[m] = h THEN [lockLapsed EXCEPT ![m] = FALSE] ELSE lockLapsed
  /\ UNCHANGED lock

\* The expiry passes.  A lock's TTL is not used up while a submission on the
\* model is between its check and its commit: MODEL_LOCK_TTL_S (an hour) is
\* longer than a database transaction.
LockLapses(m) ==
  /\ lock[m] # NoOne /\ ~lockLapsed[m]
  /\ \A p \in checked : ModelOf[p[1]] # m
  /\ lockLapsed' = [lockLapsed EXCEPT ![m] = TRUE]
  /\ UNCHANGED <<jobVars, lock, slot, workerVars, drainVars, checked, seen, acting>>

\* A lease is not renewed in time; the slot's expiry is written with the
\* lease's, so it passes at the same moment.
LeaseLapses(j) ==
  /\ lease[j] # 0 /\ ~lapsed[j]
  /\ lapsed' = [lapsed EXCEPT ![j] = TRUE]
  /\ UNCHANGED <<status, lease, attempt, lost, quarantined, cancel, claims,
                 lockVars, slot, workerVars, drainVars, checked, seen, acting>>

-----------------------------------------------------------------------------
(* Submission (_submit) and cancellation (request_cancel).                 *)

\* _holder_is_active.
HolderActive(h) ==
  /\ h \in Jobs
  /\ status[h] \notin Terminal
  /\ status[h] = "QUEUED" \/ (lease[h] # 0 /\ ~lapsed[h])

\* _submit up to the check that the lock's holder is not active; otherwise the
\* caller gets ModelBusyError, and a key already stored returns its job.
SubmitChecks(j) ==
  LET h == lock[ModelOf[j]] IN
  /\ status[j] = "NEW"
  /\ ~HolderActive(h)
  /\ checked' = checked \union {<<j, h>>}
  /\ UNCHANGED <<jobVars, lockVars, slot, workerVars, drainVars, seen, acting>>

\* The unique idempotency key is not stored yet.
KeyFree(j) == status[j] = "NEW"

TakeOverDue(m) == lock[m] # NoOne /\ lockLapsed[m]

\* Mutant: a job that went back to the queue since the check is left alone.
AbandonsRunning(j, h) ==
  TakeOverDue(ModelOf[j]) /\ h \in Jobs /\ h # j /\ status[h] \in Stages

\* _fail_abandoned_job has a job to fail: the one whose lock is taken over.
Abandons(j, h) ==
  TakeOverDue(ModelOf[j]) /\ h \in Jobs /\ h # j /\ status[h] \notin Terminal

\* The rest of _submit: the job is stored QUEUED together with its lock, or
\* nothing is (the key or the lock was taken first: duplicate or busy).  An
\* expired lock is taken over and its holder failed.  Other requests for the
\* same key may be as far as this one, so the pair may stay.
SubmitCommits(j, h) ==
  LET m == ModelOf[j]
      Ended(f, v) == IF Abandons(j, h) THEN [f EXCEPT ![h] = v] ELSE f
  IN
  /\ <<j, h>> \in checked
  /\ checked' \in {checked, checked \ {<<j, h>>}}
  /\ IF KeyFree(j) /\ (TakeOverDue(m) \/ lock[m] = NoOne)
     THEN /\ SetLock(m, j)
          /\ status' = [Ended(status, "FAILED") EXCEPT ![j] = "QUEUED"]
          /\ lease' = Ended(lease, 0)
          /\ lapsed' = Ended(lapsed, FALSE)
          /\ slot' = Ended(slot, 0)
     ELSE UNCHANGED <<lockVars, status, lease, lapsed, slot>>
  /\ UNCHANGED <<attempt, lost, quarantined, cancel, claims, workerVars, drainVars,
                 seen, acting>>

\* request_cancel: refused once the job ended or is in a registry stage.
RequestCancel(j) ==
  LET immediate == status[j] = "QUEUED" /\ lease[j] = 0 IN
  /\ status[j] \notin {"NEW"} \union Terminal \union RegistryStages
  /\ cancel' = [cancel EXCEPT ![j] = TRUE]
  /\ IF immediate
     THEN /\ status' = [status EXCEPT ![j] = "CANCELLED"]
          /\ slot' = [slot EXCEPT ![j] = 0]
          /\ ReleaseLock(ModelOf[j], j)
     ELSE UNCHANGED <<status, slot, lockVars>>
  /\ UNCHANGED <<lease, lapsed, attempt, lost, quarantined, claims, workerVars,
                 drainVars, checked, seen, acting>>

\* A rollback (routes_models.rollback) or a rollout tick (controller._lock)
\* takes the model's lock; it does not ask whether an expired lock's holder
\* is still active.
ExternalLocks(x, m) ==
  /\ acting[x] = NoOne
  /\ lock[m] = NoOne \/ lockLapsed[m]
  /\ SetLock(m, x)
  /\ acting' = [acting EXCEPT ![x] = m]
  /\ UNCHANGED <<jobVars, slot, workerVars, drainVars, checked, seen>>

ExternalUnlocks(x) ==
  /\ acting[x] # NoOne
  /\ ReleaseLock(acting[x], x)
  /\ acting' = [acting EXCEPT ![x] = NoOne]
  /\ UNCHANGED <<jobVars, slot, workerVars, drainVars, checked, seen>>

-----------------------------------------------------------------------------
(* Claiming (worker.claim, _try_claim, _take_slot).                        *)

\* The tenant's slots once its expired ones are deleted.
LiveSlots(j) == [k \in Jobs |->
                   IF TenantOf[k] = TenantOf[j] /\ lapsed[k] THEN 0 ELSE slot[k]]

FreeSlots(j) == {n \in 1 .. TenantLimit[TenantOf[j]] :
                   \A k \in Jobs : TenantOf[k] = TenantOf[j] => LiveSlots(j)[k] # n}

\* _take_slot: no slot when the tenant is unlimited, else the lowest free one.
TakeSlot(j) ==
  IF TenantLimit[TenantOf[j]] = 0
  THEN UNCHANGED slot
  ELSE \E n \in FreeSlots(j) :
         /\ \A k \in FreeSlots(j) : n <= k
         /\ slot' = [LiveSlots(j) EXCEPT ![j] = n]

\* One conditional UPDATE and everything that commits with it.  Which of
\* several claimable jobs goes first (priority, age) is left open.
Claim(w, j) ==
  /\ running[w] = NoOne /\ ~draining[w]
  /\ status[j] = "QUEUED" /\ lease[j] = 0 /\ ~quarantined[j]
  /\ TakeSlot(j)
  /\ claims' = [claims EXCEPT ![j] = @ + 1]
  /\ lease' = [lease EXCEPT ![j] = claims[j] + 1]
  /\ lapsed' = [lapsed EXCEPT ![j] = FALSE]
  /\ attempt' = [attempt EXCEPT ![j] = @ + 1]
  /\ "VALIDATING" \in AllowedNext(status[j])
  /\ status' = [status EXCEPT ![j] = "DATA_PREPARING"]
  /\ RenewLock(ModelOf[j], j)
  /\ running' = [running EXCEPT ![w] = j]
  /\ token' = [token EXCEPT ![w] = claims[j] + 1]
  /\ stage' = [stage EXCEPT ![w] = "DATA_PREPARING"]
  /\ ending' = [ending EXCEPT ![w] = "none"]
  /\ UNCHANGED <<lost, quarantined, cancel, drainVars, checked, seen, acting>>

-----------------------------------------------------------------------------
(* A running attempt: the pipeline's own process.                          *)

Holds(w) == running[w] # NoOne /\ lease[running[w]] = token[w]

\* Mutant: the fence compares no token.
FenceByCancel(j, t, s) ==
  IF cancel[j] /\ s \notin Terminal \union {"QUEUED"} /\ status[j] \notin RegistryStages
  THEN "CANCELLED" ELSE "ok"

\* Mutant: the fence does not look for a cancel request.
FenceByToken(j, t, s) == IF lease[j] # t THEN "LEASE_LOST" ELSE "ok"

\* check_fence for a write that moves job j to status s under token t.
Fence(j, t, s) ==
  IF lease[j] # t THEN "LEASE_LOST"
  ELSE IF /\ cancel[j]
          /\ s \notin Terminal \union {"QUEUED"}
          /\ status[j] \notin RegistryStages
  THEN "CANCELLED"
  ELSE "ok"

EndsWith(w, k) ==
  /\ ending' = [ending EXCEPT ![w] = k]
  /\ UNCHANGED <<jobVars, lockVars, slot, running, token, stage, drainVars,
                 checked, seen, acting>>

\* _attempt._on_stage: a fenced transition to the next stage.  A stopped
\* attempt can still do this before its process is gone.
ReportStage(w, s) ==
  LET j == running[w] IN
  /\ j # NoOne /\ ending[w] \in StopKinds \union {"none"}
  /\ <<stage[w], s>> \in Reports
  /\ Fence(j, token[w], s) = "ok"
  /\ s \in AllowedNext(status[j])
  /\ status' = [status EXCEPT ![j] = s]
  /\ stage' = [stage EXCEPT ![w] = s]
  /\ UNCHANGED <<lease, lapsed, attempt, lost, quarantined, cancel, claims, lockVars,
                 slot, running, token, ending, drainVars, checked, seen, acting>>

\* A stage report that is refused raises in the pipeline and ends the attempt.
ReportRefused(w, s) ==
  LET j == running[w] IN
  /\ j # NoOne /\ ending[w] = "none"
  /\ <<stage[w], s>> \in Reports
  /\ \/ Fence(j, token[w], s) # "ok" /\ EndsWith(w, Fence(j, token[w], s))
     \/ /\ Fence(j, token[w], s) = "ok"
        /\ s \notin AllowedNext(status[j])
        /\ EndsWith(w, "FAILED")

\* The pipeline returned a result, or raised: a retryable error (registry or
\* database unreachable) or any other.
AttemptReturns(w, r) ==
  /\ running[w] # NoOne /\ ending[w] = "none"
  /\ \/ <<stage[w], r>> \in Results
     \/ r \in {"RETRYABLE", "FAILED"}
  /\ EndsWith(w, r)

\* The attempt's process died (JobWorkerLostError).
ProcessDies(w) ==
  running[w] # NoOne /\ ending[w] = "none" /\ EndsWith(w, "WORKER_LOST")

\* _supervise: JOB_TIMEOUT_S or the job's deadline passed.
TimesOut(w) ==
  running[w] # NoOne /\ ending[w] = "none" /\ EndsWith(w, "TIMED_OUT")

-----------------------------------------------------------------------------
(* The supervisor's tick (_Supervisor.__call__).                           *)

\* Renew lease, lock and slot by token, then see whether to stop.  The drain
\* timeout may or may not have passed once the worker drains.
TickRenews(w) ==
  LET j == running[w] IN
  /\ Holds(w) /\ ending[w] = "none"
  /\ lapsed' = [lapsed EXCEPT ![j] = FALSE]
  /\ RenewLock(ModelOf[j], j)
  /\ ending' = [ending EXCEPT ![w] =
       IF cancel[j] /\ status[j] \notin RegistryStages THEN "CANCELLED" ELSE "none"]
  /\ UNCHANGED <<status, lease, attempt, lost, quarantined, cancel, claims, slot,
                 running, token, stage, drainVars, checked, seen, acting>>

TickDrains(w) ==
  LET j == running[w] IN
  /\ Holds(w) /\ ending[w] = "none" /\ draining[w]
  /\ ~(cancel[j] /\ status[j] \notin RegistryStages)
  /\ lapsed' = [lapsed EXCEPT ![j] = FALSE]
  /\ RenewLock(ModelOf[j], j)
  /\ ending' = [ending EXCEPT ![w] = "DRAINED"]
  /\ UNCHANGED <<status, lease, attempt, lost, quarantined, cancel, claims, slot,
                 running, token, stage, drainVars, checked, seen, acting>>

\* The lease passed to someone else, or the database could not be reached
\* until the lease ran out.
TickLoses(w) ==
  /\ running[w] # NoOne /\ ending[w] = "none"
  /\ ~Holds(w) \/ lapsed[running[w]]
  /\ EndsWith(w, "LEASE_LOST")

-----------------------------------------------------------------------------
(* Recording the end of an attempt (_record, _requeue_or_end, lose).       *)

\* The worker process is free for another claim.
Freed(w) ==
  /\ running' = [running EXCEPT ![w] = NoOne]
  /\ token' = [token EXCEPT ![w] = 0]
  /\ stage' = [stage EXCEPT ![w] = "none"]
  /\ ending' = [ending EXCEPT ![w] = "none"]

\* Mutant: the slot and the lock are forgotten.
EndAttemptLeaks(j, s) ==
  /\ status' = [status EXCEPT ![j] = s]
  /\ lease' = [lease EXCEPT ![j] = 0]
  /\ lapsed' = [lapsed EXCEPT ![j] = FALSE]
  /\ UNCHANGED <<slot, lockVars>>

\* _end_attempt: the lease and the slot go, the lock when the job ended.
EndAttempt(j, s) ==
  /\ status' = [status EXCEPT ![j] = s]
  /\ lease' = [lease EXCEPT ![j] = 0]
  /\ lapsed' = [lapsed EXCEPT ![j] = FALSE]
  /\ slot' = [slot EXCEPT ![j] = 0]
  /\ IF s \in Terminal THEN ReleaseLock(ModelOf[j], j) ELSE UNCHANGED lockVars

\* lose: in a registry stage the job fails for reconciliation; at the poison
\* threshold it is quarantined; else it is queued again.
Lose(j) ==
  LET inRegistry == status[j] \in RegistryStages
      poisoned   == ~inRegistry /\ lost[j] + 1 >= PoisonThreshold
  IN
  /\ EndAttempt(j, IF inRegistry \/ poisoned THEN "FAILED" ELSE "QUEUED")
  /\ lost' = [lost EXCEPT ![j] = IF inRegistry THEN @ ELSE @ + 1]
  /\ quarantined' = [quarantined EXCEPT ![j] = @ \/ poisoned]
  /\ UNCHANGED <<attempt, cancel, claims>>

\* _record: a terminal status, fenced.
RecordOutcome(w) ==
  LET j == running[w] IN
  /\ Holds(w) /\ ending[w] \in Terminal
  /\ ending[w] \in AllowedNext(status[j])
  /\ EndAttempt(j, ending[w])
  /\ Freed(w)
  /\ UNCHANGED <<attempt, lost, quarantined, cancel, claims, drainVars, checked, seen,
                 acting>>

\* _requeue_or_end for a drained attempt: it is not counted.
RequeueDrained(w) ==
  LET j == running[w] IN
  /\ Holds(w) /\ ending[w] = "DRAINED"
  /\ EndAttempt(j, "QUEUED")
  /\ attempt' = [attempt EXCEPT ![j] = IF @ > 0 THEN @ - 1 ELSE 0]
  /\ Freed(w)
  /\ UNCHANGED <<lost, quarantined, cancel, claims, drainVars, checked, seen, acting>>

\* Mutant: one retry too many.
TriesLeftOff(j) == attempt[j] - lost[j] <= MaxRetries + 1

\* "tries <= job_max_retries": lost attempts are not charged here.
TriesLeft(j) == attempt[j] - lost[j] <= MaxRetries

\* ... for a transient error: again while retries remain.
RetryOrFail(w) ==
  LET j == running[w] IN
  /\ Holds(w) /\ ending[w] = "RETRYABLE"
  /\ EndAttempt(j, IF TriesLeft(j) THEN "QUEUED" ELSE "FAILED")
  /\ Freed(w)
  /\ UNCHANGED <<attempt, lost, quarantined, cancel, claims, drainVars, checked, seen,
                 acting>>

\* ... for an attempt whose process died.
RecordLost(w) ==
  /\ Holds(w) /\ ending[w] = "WORKER_LOST"
  /\ Lose(running[w])
  /\ Freed(w)
  /\ UNCHANGED <<drainVars, checked, seen, acting>>

\* The fence refuses whatever the attempt would record; nothing is written
\* for a lost lease.
DropAttempt(w) ==
  /\ running[w] # NoOne /\ ending[w] # "none"
  /\ \/ ~Holds(w)
     \/ ending[w] = "LEASE_LOST"
     \/ ending[w] \in Terminal \ AllowedNext(status[running[w]])
  /\ Freed(w)
  /\ UNCHANGED <<jobVars, lockVars, slot, drainVars, checked, seen, acting>>

\* The worker process dies with its attempt; a new one takes its place.
Crash(w) ==
  /\ running[w] # NoOne
  /\ Freed(w)
  /\ draining' = [draining EXCEPT ![w] = FALSE]
  /\ UNCHANGED <<jobVars, lockVars, slot, drains, checked, seen, acting>>

\* Worker.drain: no more claims.  Once idle the worker exits and is replaced.
Drain(w) ==
  /\ ~draining[w] /\ drains < MaxDrains
  /\ draining' = [draining EXCEPT ![w] = TRUE]
  /\ drains' = drains + 1
  /\ UNCHANGED <<jobVars, lockVars, slot, workerVars, checked, seen, acting>>

Replace(w) ==
  /\ draining[w] /\ running[w] = NoOne
  /\ draining' = [draining EXCEPT ![w] = FALSE]
  /\ UNCHANGED <<jobVars, lockVars, slot, workerVars, drains, checked, seen, acting>>

-----------------------------------------------------------------------------
(* The reaper (worker.reap), run by every worker and by hand.              *)

\* Mutant: only jobs in the stage a claim puts them in are looked at.
ReapScansEarly(j) ==
  /\ lease[j] # 0 /\ lapsed[j] /\ status[j] = "DATA_PREPARING"
  /\ seen' = [seen EXCEPT ![j] = lease[j]]
  /\ UNCHANGED <<jobVars, lockVars, slot, workerVars, drainVars, checked, acting>>

\* The pass reads the expired leases first ...
ReapScans(j) ==
  /\ lease[j] # 0 /\ lapsed[j] /\ status[j] \in Stages
  /\ seen' = [seen EXCEPT ![j] = lease[j]]
  /\ UNCHANGED <<jobVars, lockVars, slot, workerVars, drainVars, checked, acting>>

\* ... and then takes each one whose token is still the one it read (a token
\* that changed in between makes the conditional update a no-op).
ReapTakes(j) ==
  /\ lease[j] # 0 /\ lease[j] = seen[j]
  /\ Lose(j)
  /\ seen' = [seen EXCEPT ![j] = 0]
  /\ UNCHANGED <<workerVars, drainVars, checked, acting>>

\* A queued job past its deadline.
ReapOverdue(j) ==
  /\ status[j] = "QUEUED" /\ lease[j] = 0
  /\ status' = [status EXCEPT ![j] = "TIMED_OUT"]
  /\ ReleaseLock(ModelOf[j], j)
  /\ UNCHANGED <<lease, lapsed, attempt, lost, quarantined, cancel, claims, slot,
                 workerVars, drainVars, checked, seen, acting>>

\* The pass ends by deleting every expired slot.
ReapSlots ==
  /\ \E j \in Jobs : slot[j] # 0 /\ lapsed[j]
  /\ slot' = [j \in Jobs |-> IF lapsed[j] THEN 0 ELSE slot[j]]
  /\ UNCHANGED <<jobVars, lockVars, workerVars, drainVars, checked, seen, acting>>

-----------------------------------------------------------------------------
Submission(j) == SubmitChecks(j) \/ \E h \in Holders : SubmitCommits(j, h)

Reaper(j) == ReapScans(j) \/ ReapOverdue(j) \/ ReapTakes(j)

Attempt(w) ==
  \/ \E s \in Stages : ReportStage(w, s) \/ ReportRefused(w, s)
  \/ \E r \in EndKinds : AttemptReturns(w, r)
  \/ ProcessDies(w) \/ TimesOut(w)

Tick(w) == TickRenews(w) \/ TickDrains(w) \/ TickLoses(w)

Record(w) ==
  RecordOutcome(w) \/ RequeueDrained(w) \/ RetryOrFail(w) \/ RecordLost(w) \/ DropAttempt(w)

Next ==
  \/ \E j \in Jobs : Submission(j) \/ RequestCancel(j) \/ Reaper(j) \/ LeaseLapses(j)
  \/ \E m \in Models : LockLapses(m)
  \/ \E x \in External : ExternalUnlocks(x) \/ \E m \in Models : ExternalLocks(x, m)
  \/ \E w \in Workers :
       \/ \E j \in Jobs : Claim(w, j)
       \/ Attempt(w) \/ Tick(w) \/ Record(w)
       \/ Crash(w) \/ Drain(w) \/ Replace(w)
  \/ ReapSlots

Spec == Init /\ [][Next]_vars

-----------------------------------------------------------------------------
(* What the queue promises.                                                *)

\* Jobs accepted and not ended.
Live(j) == status[j] # "NEW" /\ status[j] \notin Terminal

\* A job holds its model's lock exactly from submission to its end, so one job
\* per model is queued or running (jobs.py, "Locking"): every path that ends a
\* job releases the lock, every path that requeues it keeps the lock, and a
\* lock taken over takes its holder's job down with it.  Rollbacks and rollout
\* ticks break this (External # {}); without them it holds.
LockMatchesJobs ==
  External = {} => \A j \in Jobs : lock[ModelOf[j]] = j <=> Live(j)

\* Exactly the jobs in a stage have a lease: a queued or ended job has none a
\* worker could still write under, and a running one always has a lease the
\* reaper can find, so none is stuck (worker.py, "the job is never stuck").
LeaseMatchesStage ==
  \A j \in Jobs : lease[j] # 0 <=> status[j] \in Stages

\* At most one worker process holds a job's lease token, and while it does the
\* stage its attempt is in is the job's recorded status: what is left of
\* earlier attempts of the job wrote nothing since.
OneFencedWriter ==
  /\ \A v, w \in Workers : Holds(v) /\ Holds(w) /\ running[v] = running[w] => v = w
  /\ \A w \in Workers : Holds(w) => stage[w] = status[running[w]]

\* The retry budget: lost attempts stay below the poison threshold unless the
\* job is quarantined and failed, the attempts that count against
\* JOB_MAX_RETRIES never exceed it by more than the first one, and none is
\* counted twice (attempt - lost_count is what _requeue_or_end calls tries).
RetryBudget ==
  \A j \in Jobs :
    /\ attempt[j] - lost[j] \in 0 .. MaxRetries + 1
    /\ lost[j] < PoisonThreshold \/ (quarantined[j] /\ status[j] = "FAILED")
    /\ status[j] = "QUEUED" => attempt[j] - lost[j] <= MaxRetries
    /\ status[j] \in Stages => attempt[j] - lost[j] >= 1

\* No concurrency slot leaks: whatever ends an attempt frees the slot too, and
\* two jobs of a tenant never share one.
SlotsAccounted ==
  /\ \A j \in Jobs : slot[j] # 0 => lease[j] # 0
  /\ \A j, k \in Jobs :
       j # k /\ TenantOf[j] = TenantOf[k] /\ slot[j] # 0 => slot[j] # slot[k]

\* Whatever ends an attempt (a result, an error, a drain, a loss, the reaper)
\* settles its lease, its slot and its charge against the budgets together:
\* a path that forgets one blocks the job or the tenant, or gives the job a
\* try too many (worker.py: _end_attempt, lose, requeue, _requeue_or_end).
AttemptsAccounted == LeaseMatchesStage /\ RetryBudget /\ SlotsAccounted

\* The result of an attempt that still holds its lease is one the state
\* machine lets the job move to, so it is never dropped as an invalid
\* transition (which would leave the finished job to the reaper).
ResultsRecordable ==
  \A w \in Workers :
    Holds(w) /\ ending[w] \in Terminal => ending[w] \in AllowedNext(status[running[w]])

\* A job has exactly one outcome (job_queue.md, "Fence").
OneOutcome ==
  [][\A j \in Jobs : status[j] \in Terminal => status'[j] = status[j]]_vars

\* After a cancel request a job outside the registry stages never enters them,
\* whatever was in flight when the request came, and a job in one is never
\* recorded CANCELLED.
CancelKeepsOutOfRegistry ==
  [][\A j \in Jobs :
       /\ cancel[j] /\ status[j] \notin RegistryStages => status'[j] \notin RegistryStages
       /\ status[j] \in RegistryStages => status'[j] # "CANCELLED"]_vars

-----------------------------------------------------------------------------
(* The inductive invariant behind the safety properties.                   *)

\* Tokens are never reused, so at most one attempt can hold the lease.
TokensFresh ==
  /\ \A j \in Jobs : lease[j] <= claims[j] /\ (lapsed[j] => lease[j] # 0)
  /\ \A w \in Workers : running[w] # NoOne =>
       /\ token[w] \in 1 .. claims[running[w]]
       /\ stage[w] \in Stages
       /\ \A v \in Workers : v # w /\ running[v] = running[w] => token[v] # token[w]

\* The attempt that holds the lease is where the job's status says, and what
\* it returned or was stopped for fits that status.
AttemptInStep ==
  \A w \in Workers :
    /\ Holds(w) => stage[w] = status[running[w]]
    /\ running[w] # NoOne /\ ending[w] \in {"COMPLETED", "ROLLED_BACK"}
         => <<stage[w], ending[w]>> \in Results
    /\ Holds(w) /\ ending[w] = "CANCELLED"
         => cancel[running[w]] /\ status[running[w]] \notin RegistryStages

\* Attempts and losses of a job that was never submitted are zero, and only a
\* failed job is quarantined.
CountersGrounded ==
  \A j \in Jobs :
    /\ status[j] = "NEW" => attempt[j] = 0 /\ lost[j] = 0
    /\ quarantined[j] => status[j] = "FAILED"

\* A lock belongs to a job of its model; while a submission is in flight an
\* expired lock is still the one the submission saw.
LocksPlaced ==
  /\ \A m \in Models :
       /\ lock[m] \in Jobs => ModelOf[lock[m]] = m
       /\ lockLapsed[m] => lock[m] # NoOne
  /\ \A p \in checked : lockLapsed[ModelOf[p[1]]] => lock[ModelOf[p[1]]] = p[2]

\* All of it is preserved by every step; the safety properties follow.
IInv ==
  /\ TypeOK
  /\ LeaseMatchesStage
  /\ TokensFresh
  /\ AttemptInStep
  /\ RetryBudget
  /\ CountersGrounded
  /\ SlotsAccounted
  /\ LocksPlaced
  /\ LockMatchesJobs

-----------------------------------------------------------------------------
(* Liveness.                                                               *)

\* A worker polls (JOB_POLL_INTERVAL_S) and every worker reaps
\* (JOB_REAP_INTERVAL_S); an attempt that does not end is stopped by its
\* timeout (JOB_TIMEOUT_S); an ended attempt is recorded; a lease nobody
\* renews expires; a drained worker is replaced.
Fairness ==
  /\ \A j \in Jobs :
       /\ WF_vars(\E w \in Workers : Claim(w, j))
       /\ WF_vars(LeaseLapses(j))
       /\ WF_vars(ReapScans(j)) /\ WF_vars(ReapTakes(j))
  /\ \A w \in Workers :
       WF_vars(TimesOut(w)) /\ WF_vars(Record(w)) /\ WF_vars(Replace(w))

FairSpec == Spec /\ Fairness

\* Every accepted job reaches an outcome, however its attempts crash, stall,
\* lose their lease or are retried: no combination of a requeue, an expired
\* lease and a pending cancel leaves it waiting for nobody.
EveryJobEnds == \A j \in Jobs : status[j] = "QUEUED" ~> status[j] \in Terminal

-----------------------------------------------------------------------------
(* The queue implements the service its callers see.                       *)

PhaseOf(s) == CASE s = "NEW"         -> "none"
                [] s = "QUEUED"      -> "waiting"
                [] s \in Stages      -> "running"
                [] OTHER             -> s

Service == INSTANCE JobService WITH phase <- [j \in Jobs |-> PhaseOf(status[j])]

\* Every step of the queue is a step of JobService or none of its concern.
ImplementsService == Service!Spec

-----------------------------------------------------------------------------
(* Statements the repository's documentation makes that the code does not  *)
(* keep in every interleaving (see the violation runs).                    *)

\* jobs.py: "An expired lock is taken over only when its holder is neither
\* queued nor running under a live lease".
LockTakenOnlyFromInactive ==
  [][\A m \in Models :
       lock'[m] \notin {lock[m], NoOne} => ~HolderActive(lock[m])]_vars

\* locks.py: "at most one adaptation job runs for a model at a time, so two
\* drift events can never both move its LIVE alias": no two attempts for one
\* model are in a registry stage.
OneRegistryWriter ==
  \A v, w \in Workers :
    /\ v # w
    /\ {stage[v], stage[w]} \subseteq RegistryStages
    => ModelOf[running[v]] # ModelOf[running[w]]

\* routes_models.rollback: "it cannot interleave with a running adaptation job":
\* while a rollback works on a model no worker holds a live lease of its jobs.
RollbackExcludesJobs ==
  \A x \in External, w \in Workers :
    Holds(w) /\ ~lapsed[running[w]] => acting[x] # ModelOf[running[w]]
=============================================================================
