# A TLA+ verification of the O-RAN model adaptation framework

The framework (`src/oran_adapt`, a Python service) receives drift events for
machine-learning models, decides whether to reuse, fine-tune or retrain a model, validates the
candidate, registers it and moves the model's LIVE alias to it, at once or by a progressive
rollout.  Everything that happens is driven by a durable job queue in a SQL database, worked on
by any number of processes.

This directory holds TLA+ models of the parts whose correctness depends on interleavings,
failures and ordering, the TLC runs that check them on small instances, and TLAPS proofs for
arbitrary instances.  `PROJECT.json` maps every definition to the lines it models, and lists
components, runs, mutants, hazards, findings and theorems.

## 1. Inventory

| Part | Source (under `src/oran_adapt/`) | State | Operations | What is hard |
|---|---|---|---|---|
| Job queue | `orchestrator/jobs.py`, `worker.py`, `locks.py`, `core/state_machine.py` | rows `adaptation_job`, `model_lock`, `job_slot`; each worker's claim | submit, cancel, claim, stage report, tick, record, retry, drain, reap | two API replicas, many workers and reapers act on one row; workers crash or stall at any point; locks, leases and slots expire |
| Worker timing | `orchestrator/worker.py`, `core/liveness.py`, `core/config.py` | lease expiry, liveness file | poll, renew, probe | settings that are each legal and together lose a healthy worker |
| Job executors, sandbox | `adapters/job_executors.py`, `adaptation/llm_adapter.py`, `sandbox/` | processes, containers, work directory | run, poll, time out, kill, read output | a stopped attempt is still there for a moment (process) or for good (thread); code that outlives its attempt |
| Broker wake-ups | `adapters/job_queues.py`, `publish`/`republish` in `jobs.py`, `worker.py` | `published_at`, messages, Kubernetes Jobs | publish, receive, republish | lost and duplicated messages, a publish racing its job, names that collide |
| Pipeline, decision, analysis | `orchestrator/pipeline.py`, `decision/`, `analysis/` | none of its own between stages | one attempt | an attempt that died half-way, LIVE moved by somebody else, LLM output against hard constraints |
| Training data, leakage | `datastore/current_data.py`, `adaptation/leakage.py` | cleaned, held-out and frozen rows | clean, hold out, check, freeze | held-out rows that reach training by a duplicate or through a key |
| Scoring and gate | `validation/` | none | score, compare | ties, bootstraps, two models scored by different measures |
| LLM guard | `llm/` | ledger, circuit | guarded call | budget at its limit, trial calls |
| Promotion | `registry/promotion.py`, `registry/deployment.py` | LIVE alias, served version, `model_promotion` rows | promote, roll back | three systems changed one after the other with no common transaction |
| Deployment adapters | `adapters/deployment/` | objects, operations, manifests, aliases | deploy, status, restore, split | systems that work asynchronously, lost answers, other writers |
| Delivery controller | `delivery/controller.py`, `delivery/health.py` | `rollout` rows, traffic split | start, tick, approve, reject, judge | ticks, operators, rollbacks and crashes between an external change and its record |
| Registry adapters | `adapters/registry/` | versions, tags, aliases, lock files | create, tag, alias, sync | multi-request writes, lost updates, partial failure |
| Onboarding | `registry/onboarding.py`, `registry/publishing.py` | `model` rows, registry versions | onboard, attach | one transaction with registry calls in the middle |
| Notifications | `notifications/`, `adapters/notify*.py`, `core/outbound.py` | `notification_event`, `notification_delivery`, circuit breakers | record, claim, send, finish, redrive | several dispatchers, expired leases, a sink that accepts and times out |
| Change data capture | `cdc/`, `adapters/kafka_cdc.py` | changelog, offsets, `cdc_event` | consume, acknowledge, materialise | redelivery, order, overlapping consumers |
| Data versions | `datastore/`, `adapters/datasets*.py` | `data_version` rows, links, objects others own | register, read, sample, snapshot, verify | an object overwritten between two calls, concurrent inserts of one key |
| API | `api/`, `core/event_mapping.py`, `adapters/access.py`, `auth.py`, `jwt.py`, `opa.py` | token buckets, key cache | middleware, authentication, limits, intake of events | concurrent requests, repeated posts, rotated keys, bodies without a length |
| Start-up | `core/config*.py`, `plugins.py`, `bootstrap.py`, `adapters/secrets*.py` | settings layers | lint, load, build | settings valid alone and not together |
| Metrics | `core/metrics.py`, `core/observed.py` | registries of each process | observe, send, apply | an attempt's numbers counted twice or never |
| Command line, tracing, logging, model types and handlers, migrations, conformance suites | `cli.py`, `core/`, `adapters/`, `db/`, `conformance/` | - | - | not modelled, see section 5 |

How the parts meet: a monitoring system posts events, which the API's checks and the intake turn
into jobs, each stored together with its model's lock; a broker may wake a worker, or workers poll; a
worker claims a job under a lease (a token and an expiry) and a tenant slot; the attempt runs the
pipeline in a process of its own and reports each stage with a write that is fenced by the token; a
supervisor tick renews lease, lock and slot and looks for cancel requests and drains; the
result is recorded under the same fence.  Reapers, run by every worker, take expired leases
away.  The pipeline loads data versions that CDC, uploads and snapshots have made, its last
stages register a version and move LIVE, or start a rollout that the
controller's ticks move on.  Rollbacks and rollout ticks use the same per-model lock, outside the
queue.  Each transition writes an outbox row, which the dispatcher delivers through a sink.

What makes each part correct:

* Job queue: one outcome per job; one writer per job; one live job per model; lease, slot and
  lock come and go together; retries and losses stay in their budgets; a cancelled job never
  reaches the registry; every job is woken and every job ends; a healthy worker is not taken for dead.
* Adaptation: LIVE is replaced only by what beat it, drift is measured against LIVE's own
  data, held-out rows stay held out, the report is what happened, the LLM never makes it worse.
* Promotion and delivery: LIVE, the served version and the history agree after every move,
  failed or not; no candidate traffic outlives its rollout; a rollout reported done is served.
* Registries: an answered write is not lost; READY means a whole artifact; a sync levels the replica.
* Notifications: an event is delivered at least once or dead-lettered with its budget spent;
  a circuit breaker never stays half-open; a sink tells the truth about what was accepted.
* Data: every change is stored once and in order before it is acknowledged; a read returns the
  registered rows or an error; an answer about a version stays true.
* API: a request gets one true answer; a 2xx accounts for the whole batch; withdrawn keys and
  guesses are bounded.

## 2. Modules

| Module | Models |
|---|---|
| `JobStates`, `JobQueue` | statuses, state machine and stage reports; the queue's rows, API requests, workers, attempts, reapers, external lock users |
| `JobService` | abstract: what a caller of the API sees of a job (waits, runs, ends once; one active job per model) |
| `WakeUps`, `Heartbeats`, `Execution`, `Measurements` | how a job reaches a worker; the worker's timing; the attempt and its sandbox; its metrics |
| `Adaptation`, `TrainingData`, `Evaluation`, `LlmGuard` | the pipeline of a model's jobs; the rows of one job; scoring and gate; guarded LLM calls |
| `RolloutService` | abstract: what a reader of the rows sees of rollouts and moves of LIVE, without the serving system, locks and compensation |
| `Delivery`, `Serving`, `Health` | promotion, rollback, deployer and rollouts of a model; the deployment adapters; a rollout's online verdict |
| `FileRegistry`, `MirrorRegistry`, `CloudRegistries`, `Onboarding` | the registry adapters; model onboarding |
| `ChangeCapture`, `DataVersions`, `DataLineage` | change data capture; versions and the objects behind them; the transactions that create and link versions |
| `Outbox` | abstract: what a reader of the notification rows sees, without dispatchers, leases and budgets |
| `Dispatcher`, `Sinks` | outbox rows, dispatchers, breakers, redrive; one message in a sink |
| `Intake`, `Requests`, `Access`, `Startup` | mapped drift events; the middleware; authentication and limits; settings |
| `JobQueueProofs`, `DispatcherProofs`, `DeliveryProofs` | theorems about the module of that name, among them the three refinements |
| `AdaptationProofs` | about `Adaptation`, `TrainingData`, `LlmGuard`, `Evaluation` |
| `RegistryProofs` | about `FileRegistry`, `MirrorRegistry`, `CloudRegistries`, `Onboarding` |
| `DataProofs` | about `DataVersions`, `DataLineage`, `ChangeCapture` |
| `PlatformProofs` | about `Execution`, `Serving`, `Access` |
| `EdgesProofs` | about `Heartbeats`, `Requests`, `Intake`, `Sinks`, `Health`, `Measurements`, `Startup` |
| `MCJobQueue`, `MCDelivery`, `MCDispatcher`, `MCData`, `MCAdaptation`, `MCRegistry`, `MCPlatform`, `MCEdges` | instances for TLC |

Variables and actions of a module that shares a run with others carry its prefix (`Fs`, `Mr`, `Cn`,
`Ob`, `Sv`, `Ex`, `Ac`, `Ms`, `Wk`, `Sk`, `He`, `Cf`, `Hb`, `Rq`, `In`, `Ev`, `Dl`).

### `JobQueue` and the code

One action is one database transaction, or one step of a process that no transaction covers.

* Rows: `status`, `lease` (`lease_token`; the n-th claim writes n, as tokens are random and
  never reused), `lapsed` (the lease's expiry has passed), `attempt`, `lost` (`lost_count`),
  `quarantined`, `cancel` (`cancel_requested_at`), `lock`/`lockLapsed` (`model_lock`), `slot`
  (`job_slot`; it expires with the lease, because both expiries are written together).
* Processes: `running`, `token`, `stage`, `ending`, `draining`: a worker's claim, where its
  attempt is, and how the attempt ended before that is recorded.
* Reads a later transaction acts on are state too: `checked` (a submission that found the
  lock's holder inactive), `seen` (a lease the reaper's scan found expired).
* `acting`: a rollback or rollout tick working under the lock.

Submission is two actions because `_submit` reads the holder's row and takes the lock in
separate statements of a READ COMMITTED transaction (PostgreSQL; SQLite serialises writers, and
there the two never interleave).  The reaper is two because it scans and takes in separate
transactions.  An attempt ends in two steps (`ending` set, then recorded) because the executor
returns before `_record` opens its transaction.  A worker crash can come anywhere.

Time is abstracted: a lease or lock that is not renewed may lapse at any moment, which covers
every stall, slow tick and clock rate.  One timing assumption is built in (`LockLapses`): a
lock's one-hour TTL does not run out between the check and the commit of one submission.

Left out: backoff (`available_at`) and priorities (any claimable job may be claimed next), the
three legacy statuses no code enters, messages, audit and metrics.  Broker wake-ups are in
`WakeUps`, the executors in `Execution`, the timing of heartbeats in `Heartbeats`.

`JobService` is the abstract specification; `ImplementsService` maps a job's status to a phase.

### `WakeUps`, `Heartbeats`, `Execution`, `Measurements` and the code

* `WakeUps`: one job, its `published_at` (`never`, `recent`, `old`), the submitting call and the
  reaper, each of which reads, sends and marks in three separate steps, the broker's messages and
  the Kubernetes Jobs by name.  Celery and RQ differ for this code only in their clients and are one
  backend.  `wkCut` says that the Job's name lost its attempt number when it was cut at 63 characters.
* `Heartbeats`: time is counted relative to now.  A turn of the loop may come late by its own
  interval or fail to renew, but not twice in a row; the settings are all those the validator
  `_job_timings_consistent` accepts up to `HbMaxUnits`.
* `Execution`: `execute` and its stop (kill the listed descendants, then the group), the attempt's
  `adapt_via_llm` loop, and the generated code in a subprocess or a container.  Listing descendants and
  killing them are separate steps.  Directories hold who wrote the artifact and the manifest.
  The code may also end with status 0 and no output (`SystemExit` is not refused); then what an earlier
  attempt left is found.  Resource limits are outcomes of the run.
* `Measurements`: adapter calls nest; a duration is a bucket.  An attempt sends the
  difference to what it started with, and the worker applies it once.

### `Adaptation`, `TrainingData`, `Evaluation`, `LlmGuard` and the code

* `Adaptation`: `run` is the attempt under way with everything it has read so far (the LIVE it
  saw, the baseline it measured against, scores, strategy, candidate), so each step can act on a stale
  read.  One job of a model runs at a time (the lock); `Die` ends an attempt anywhere and
  the job starts again with what it left behind; `MoveLive` is an operator, `RolloutEnds` the
  controller.  A version's `value` is its primary metric on the current data.  `world` holds the
  settings and which engines, model types and LLM answers there are.  Drift statistics are part of it.
* `TrainingData`: rows `[ver, at, key, val]` through `clean_records`, the hold-out, the leakage checks
  and `snapshot_training_data`.  The share held out (`VALIDATION_HOLDOUT_FRACTION`) is any, and the
  leakage checks may be switched off.
* `Evaluation`: scores are fractions, an RMSE its square; every truth and prediction over three rows.
  Margins and allowed drops are 0; the bootstrap's quantile is any of the resampled differences.
  Calibration, latency and size guards are switched off here and are verdicts in `Adaptation`.
* `LlmGuard`: the ledger of all processes, one process's breaker and its threads.  A request
  costs tokens when it is sent and more when it is answered; a ledger row may fail to be
  written (`lost`).  The budget's window does not roll over.

### `Delivery` and the code

`op` is the operation that holds the model's lock and the call it makes next; one action is one
call to the registry, the serving system or the database.  `live` is the LIVE alias,
`served`/`split` what the serving system does with traffic, `last` the latest APPLIED
`model_promotion` row, `keys` the stored idempotency keys, and `state`, `stable`, `step`,
`percent`, `policy` the rollout rows.

* `Move` is `promote_version`: `PromoteChecks`/`PromoteRefused` up to the first change,
  `MoveAlias`, `Deploy` (with `RevertDeploy`, the deployer's own restore), `CommitMove`, and
  `UndoMove`, the except clause.
* `Control` is what the controller does around it: `Split`/`RecordSplit` for a canary step or a
  first split, `UndoTraffic`/`RecordEnd` for an end without promotion,
  `ClearSplit`/`RecordPromoted` after a promotion.
* The other actions begin an operation: `StartRollout` (by the job), the ticks `EndRollout`,
  `PromoteRollout`, `AdvanceCanary`, `AskApproval`, the operators' `Approve` and `Reject`, and
  `Rollback`.

Each call can be refused ("refused": no effect, "halfway": effect, but the read-back failed),
fail to reach the other side ("down": no effect, "lost": effect, answer lost), and the process
can die before it ("crash").  `faults` remembers which of these happened, because the promises
of the code depend on it.  `VOID` is a rollout whose row was rolled back while it was being
started; `overtaken` is history used in properties only.

Assumed: the lock excludes (section 3 shows where it does not), so the version a job read as
LIVE is still LIVE when it starts the rollout; the serving system splits traffic.  Left out:
health and A/B verdicts (any outcome at any time, which covers every policy; `Health` computes them), waiting ticks,
tags, audit, notifications.

### `Serving`, `Health` and the code

* `Serving`: `svObj` is what the adapter asked for, `svRun` what the traffic really gets,
  `svSeen`/`svOps` what the system is still working on.  The deployer's steps are the adapter's
  calls (`SvDeploy`, `SvPoll`, `SvRestore`, `SvSetTraffic`...), each of which can be refused or fail after
  it took effect; the system's (`SvObserve`, `SvSettle`, `SvOperationEnds`...) come when they like; others
  write the object (`SvForeignWrite`).  The systems themselves are external and modelled from what the
  status calls read.
* `Health`: one metric, one rule; an arm is its count and sum.  The threshold rules and the A/B test are
  computed exactly; whether Welch's test finds the means to differ is any answer, the sign of the
  difference is computed.

### The registry modules and the code

* `FileRegistry`: one write is lock file, read, rewrite by rename, unlock, each a step; the upload of
  the artifact runs outside the lock.  A process may die anywhere and leaves its lock file, which only an
  operator removes (`FsRemoveLock`).
* `MirrorRegistry`: two registries used through their port, with `create_version` in the two steps of
  `filesystem.py`: the version with its tags is reserved, then its artifact is uploaded, and a failure in
  between leaves the version.  Replicas are found by `SOURCE_TAG` whatever their status; `sync` is a sequence
  of calls that writers interleave with.  MLflow, SageMaker and Vertex create the version last, which is
  the same steps without a failure between them.
* `CloudRegistries`: Vertex, SageMaker and MLflow calls as their sequences of requests.  Two names share
  one identifier, because ids are shortened and folded.
* `Onboarding`: checks, insert, publish, tag, alias, links and commit of three requests for one
  registered model; the registry does not roll back.

### The data modules and the code

* `ChangeCapture`: `log` is the changelog or the topic, whose entries commit in any order;
  `fetched`/`acking` what a consumer has read and has stored but not acknowledged; versions are folded from
  pending events.  A row image is a number.
* `DataVersions`: `object` is the history of contents behind a URI, which others extend at any
  time; an operation is `Stat`/`Check` and a later read.  Adapters differ in whether they pin what
  they opened and in what their fingerprint sees.
* `DataLineage`: READ COMMITTED transactions; an insert waits for another of the same key and
  raises `IntegrityError` when that one commits.

### `Dispatcher` and the code

`status`, `attempts`, `due` (`next_attempt_at` has passed), `leasedBy` are the rows; `batch`,
`cur`, `try`, `answer` a dispatcher's claimed rows, the message it is sending and the answer;
`circuit` its breakers (`opened_at` becomes `open` and `ripe`: the reset period has passed).  A
lease is `next_attempt_at` pushed forward, so a row claimed and not finished is `~due` until
`LeaseRunsOut` (its dispatcher still has it) or `BecomesDue` (nobody has).  `Crash` gives the
dispatcher a new id: its rows stay leased by `Gone`.  Left out: the order of a batch, backoff
lengths, signing, starting and stopping the thread.

### `Sinks`, `Intake`, `Requests`, `Access`, `Startup` and the code

* `Sinks`: one send per sink kind (log; HTTP: webhook, Slack, PagerDuty, Pub/Sub; SQS and SNS; sessions:
  NATS and e-mail; Kafka with a buffer and late acknowledgements); receivers are modelled from the answers the sinks tell apart.
* `Intake`: one payload posted again and again, two API threads, the submissions of a batch one after the
  other, models that become free in between.
* `Requests`: the middleware order; the application inside is external and may answer before it has read the
  body, raise, or return nothing after a disconnect.
* `Access`: two threads through failure limit, authentication, rate limit and policy; the key cache is
  locked, the issuer rotates keys at any time.  A token carries its key only.  The cache's age counts from the
  issuer's answer: the code writes it down a moment later, so that a withdrawn key lives for the cache's
  lifetime and the latency of one request.
* `Startup`: a settings layer is a function from the keys it sets; the keys are those a validator reads
  together with another one, or that an adapter requires.  Every cross-field validator is one operator
  of `Valid`, and the choice of an LLM provider by the key that is there fills in what the code fills in.  An
  operator edits, lints, sets environment and secrets, and starts; an adapter's factory may still fail.
* `WakeUps`: a claim by message looks at the job's status only; a polling worker also waits for `available_at`.

## 3. Runs

Deadlock is not checked: a system whose jobs, rollouts, requests and deliveries have all ended may
stop.  A run over several modules asks one question of parts that share no state: its initial states pick
one part, and the others stay where they start, so the state count is the sum and not the product.

| Run | Instance | Checks |
|---|---|---|
| `queue_locks` | 2 events, 1 model, 2 workers, 1 retry, first loss is poison | `LockMatchesJobs`, refinement of `JobService` |
| `queue_rollback` | 1 job, 2 workers, every pipeline path, 1 retry, 1 tolerated loss, 1 rollback or tick taking the lock at will | `OneFencedWriter`, `ResultsRecordable`, `CancelKeepsOutOfRegistry` |
| `queue_live` | 1 job, 2 workers, 1 tolerated loss, 1 drain, slot limit 1, fairness | `AttemptsAccounted`, `EveryJobEnds` |
| `doc_one_writer` | 2 events, 1 model | violated: `OneRegistryWriter` |
| `delivery` | 1 rollout, 3 versions, steps 5/50/100, 2 faults | `LiveExplained`, `ServingIsLive`, `NoStrayTraffic`, refinement of `RolloutService` |
| `doc_serving` | 1 rollout, 3 versions, no fault | violated: `NothingElseToUndo` |
| `dispatch` | 2 deliveries, 1 sink, 2 dispatchers, limit 2, threshold 1, 1 fault, 1 redrive, fairness | `SendsAccounted`, refinement of `Outbox`, `EveryDeliverySettles` |
| `data` | 3 changes of 2 rows, 2 consumers, 1 materialiser, 1 fault; 2 version names, 3 contents, 7 adapters, 3 verification modes, 2 overwrites; 2 transactions side by side, 3 in all | `EveryChangeOnce`, `CleaningIsReplay`; `ReadsAreRight`; `DlAnswersHold` |
| `adaptation` | 2 jobs, 3 versions, 1 death or failed promotion, 1 operator's move, every combination of engines and LLM; 3 rows; 2 threads with 2 calls each | `ReplacesWhatItBeat`, `BaselineIsLives`, `ReportsAreRight`, `LiveNeverWorse`; `HoldOutIsKept`; `GuardHolds` |
| `registry` | 2 writers, 2 versions, 4 calls; 2 callers, 3 writes and a sync; 2 names with one id, 2 tag attempts; 3 requests for 2 model ids | `FsNothingLost`; `MrMirrors`; `CnNothingUndone`; `ObRejectedLeavesNothing` |
| `platform` | 8 backends, 2 versions, 3 requests, 2 faults, 1 foreign change; 2 attempts with 2 tries; 2 threads, 2 addresses, 1 key change; 2 attempts, 3 calls | `SvDeploysHold`; `ExAttemptsApart`; `AcBounded`; `MsNothingEstimated` |
| `edges` | 2 attempts, 2 messages, 2 faults, fairness; 3 tries of each sink; 3 samples; 4 first files, 2 more keys, 1 variable, 5 stores; intervals to 3 units; 3 chunks around a limit of 2 bytes; 3 records, 3 posts, 2 threads; 3 held-out rows | `WkEveryJobRuns`; `SkOutcomeIsTrue`; `HeWorseKeepsBreach`; `CfLintHolds`; `HbStaysAlive`; `RqOneTrueAnswer`; `InBatchAccounted`; `EvMeasures` |

What the properties of the newer runs say:

* `ImplementsService`: a rollout opens when no other is open and ends once; it moves LIVE at most once, while it is
  open, from the version it was measured against to its candidate.  As long as every failed call was a refusal
  or said how far it came, the moves are a chain, a rollout that moved LIVE ends PROMOTED and no row is lost.
* `SendsAccounted`: a dispatcher within its lease has its row for itself, and a row's attempts are its sends, give or
  take one for each fault.  `ImplementsOutbox`: a row is DELIVERED only if its sink accepted the message, and DEAD only if the sink failed or
  refused it, since the row was recorded or last redriven; a settled row changes by a redrive only.  Answers of
  dispatchers that are late, or were late before a redrive, do not count.
* `EveryChangeOnce`: every change is stored, once and in order, before the offset passes it.
  `CleaningIsReplay`: cleaning any set of versions leaves what replaying the events behind them leaves.
* `ReadsAreRight`: a reader gets the registered rows or an error, and an error only for a cause.
  `DlAnswersHold`: what a caller was told of a version or a link stays true, a failed request
  leaves no version, and every lineage ends, each ancestor audited before its descendant.
* `ReplacesWhatItBeat`, `LiveNeverWorse`: a promotion row names the version the new one was judged
  against, and jobs never make LIVE worse on the current data.  `BaselineIsLives`: drift is measured against
  LIVE's own training data.  `ReportsAreRight`: the outcome a job reports is what happened, and an LLM costs no
  outcome that is produced without one.  `HoldOutIsKept`: held-out rows are neither trained on nor part
  of the frozen baseline and, with the leakage checks on, neither are copies of them or later rows.  `GuardHolds`: the circuit's trial is under way while it is half-open, and
  the overshoot of the budget is at most one call with its retries per caller plus the lost ledger rows.
* `FsNothingLost`: READY means a whole artifact and no answered write is lost.  `MrMirrors`: after a sync
  during which nothing moved, the replica names what the primary names (versions, tags, LIVE); its copies are of
  versions the primary has whole, and one without an artifact was cut short or is still being uploaded.  `CnNothingUndone`: no writer undoes another's
  tags, alias, names or URIs; `ObRejectedLeavesNothing`: a rejected onboarding has published nothing.
* `SvDeploysHold`: a rollout reported done is what is served once the system is at rest, and others' changes
  to the object survive.  `ExAttemptsApart`: nothing of a stopped attempt runs on, and an attempt reads only its
  own output unless it was started beside a stray one or its code wrote none and still exited with 0.  `AcBounded`: a withdrawn key is accepted no
  longer than the cache's lifetime, failed guesses are bounded by the bucket times the requests in flight.
  `MsNothingEstimated`: the served numbers are the calls that were made.
* `WkEveryJobRuns`: every queued job is claimed.  `SkOutcomeIsTrue`: a send that returned has reached the
  receiver, one that is not worth retrying has not.  `HeWorseKeepsBreach`: worse samples never clear
  a breach of a limit or a degradation.  `CfLintHolds`: a file that lints clean starts when only secrets are
  added, if the store answers and holds what the adapters need (a missing LLM key is no error).  One secret is
  compared with a plain key: signing keys shorter than `NOTIFICATION_SIGNING_MIN_KEY_BYTES` refuse the
  start, which the lint of a file cannot know, so the property asks that they are long enough.
  `HbStaysAlive`: a worker one of whose turns is late is not taken for dead.  `RqOneTrueAnswer`: one response
  start, never more than the limit handed in, no answer computed from a cut body.  `InBatchAccounted`: a 2xx
  means every firing record has a job.  `EvMeasures`: two models are scored by the same measure, and the gate
  rejects nothing that is as good on every row and accepts as better nothing that is not.

### Bounds

Two workers give every race between an attempt and what is left of
an earlier one; two events give every race for one lock; one retry, one tolerated
loss and one drain reach both sides of each budget's boundary.  `queue_locks` and `queue_live` stop attempts
after the first stage report, because which later stage an attempt is in changes nothing for
locks, slots and progress except in `lose`, which ends a job in a registry stage at once;
`queue_rollback` goes through the registry stages.  The theorems below remove the bounds.

In `delivery` one rollout and an older version give every interleaving of a rollout with
rollbacks to its stable version, to its candidate and to a third one; two faults let a restore
fail after the call it follows.  `LiveExplained` and `ServingIsLive` hold for one fault of the
kinds they name; `NoStrayTraffic` and the refinement for any two, crashes included.  In
`dispatch` two rows in a batch let a circuit open, or a lease run out, between a claim and the
send, and the limit of two attempts has a retry below it.

In `data` two consumers overlap on a batch of two with a third change after it; a third content lets
an object be overwritten and overwritten back in shape.  In `adaptation` two jobs give a first job's leftovers
and a second that meets them; three versions leave room for an orphan of a dead attempt beside a
candidate.  Failures and moves are combined with the plain worlds only: the others differ in which engine
adapts, which no failure looks at.  In `registry` every property is about two overlapping writers.  In
`platform` a rollout, its restore and one more request fit in three, and two faults let the restore fail
too.  In `edges` three samples cross every minimum and both sides of every threshold, and three
rows give ties, both one-sided orders and a slice of its own; rows 1 and 2 are in one slice, so only
their sorted order is taken.  A start is tried after a clean lint only, with one variable that is a secret or
`ENVIRONMENT` (`CleanStart` of `MCEdges`); the first files are the empty one, the smallest that production
accepts, one with a Vault and one with a cluster, and two keys on top of one reach every validator from both sides.

### Fairness

`FairSpec` of `JobQueue`: weak fairness of polling for jobs (`JOB_POLL_INTERVAL_S`), of scanning
and taking expired leases (every worker reaps each `JOB_REAP_INTERVAL_S`), of the attempt's
timeout (`JOB_TIMEOUT_S`, enforced by the supervisor), of recording an ended attempt, of a
lease nobody renews running out, and of replacing a drained worker.  Nothing is assumed of
ticks, of the pipeline or of submissions.  That an attempt's tick may renew its lease for ever
does not matter: the timeout ends the attempt.  In `Dispatcher`: polls go on (`run_forever`
survives every exception), sink calls end (each adapter has a timeout), backoffs, leases and
reset periods pass; nothing is assumed of the sink's answers, events or redrives.  `WkFairness`: the
reaper's passes, the steps of a publish that has begun, the clocks behind `available_at` and
`published_at`, deliveries of messages the broker still has, polls, the start of pods and the removal of
ended ones (`ttlSecondsAfterFinished`).  Losses, refusals and pod deaths are bounded in number.

### Where documentation and code differ

* `doc_one_writer`: `locks.py` says two drift events can never both move LIVE.  When a lease
  expires in a registry stage the reaper fails the job and releases the lock while the attempt's
  process is still there; the next job of the model can reach its registry stages meanwhile.
* `doc_serving`: `rollout_metrics.md` says of a rollout that is rolled back that LIVE never
  moved, so nothing else needs undoing.  A rollback does not look for an active rollout; the
  rollout's end then sets traffic to the stable version it stored, which is not LIVE any more.

Seven more statements of the documentation are definitions of the modules which TLC refutes when a
configuration names them:

* `LockTakenOnlyFromInactive` (`JobQueue`): an expired lock is taken over only from a holder that is
  neither queued nor running under a live lease.  The holder is looked at before the lock is
  taken; a holder the reaper requeues in between is failed although it is queued.
* `RollbackExcludesJobs` (`JobQueue`): a rollback cannot interleave with a running job.  It
  takes an expired lock without asking about its holder; a job that waited in the queue longer
  than the lock's TTL is then claimed and runs beside the rollback.
* `RunsOutOfAttempts` (`Dispatcher`): a message that crashes its dispatcher still runs out of
  attempts.  Only the code after the sink's answer looks at the limit; the claim does not.
* `HeRatioIsThreshold` (`Health`): a ratio rule (`policies.py`, `rollout_metrics.md`) behaves as a
  threshold.  With a stable mean that is zero or negative it does not.
* `MrSyncRepairs` (`MirrorRegistry`): after a failed replica write "sync repairs the replica"
  (`mirror.py:9`).  A replica `create_version` that fails once its version is reserved leaves it with the
  source tag; `replica_version` looks at the tag only (`mirror.py:98`, 200), so every later sync levels its
  tags, may set LIVE on it and reports success, and the artifact never comes.
  (`MCRegistry`, one mirror client, one write.)
* `ExFreshOutput` (`Execution`): "each retry gets a fresh sandbox directory, so no output of a failed attempt
  is read" (`llm_adapter.py:130`).  That holds for the tries of one attempt; a requeued job's next attempt
  starts in the directory of the attempt before it, and an exit with status 0 is believed without a look
  at who wrote the output (`runner.py:196`).  (`MCPlatform`, two attempts with one try.)
* `WkWaitsForBackoff` (`WakeUps`): a job that is "not yet available" cannot be claimed (`worker.py:473`, on
  `run_job`).  A claim by job id never looks at `available_at` (only the polling query does), so a
  message left over from before a requeue starts the next attempt inside its backoff.  (`WkSpec`, two attempts, two messages, two faults.)

### Seen while modelling, not in a run

Job queue and delivery.  The reaper's conditional update names the token and not the
expiry, so it takes a lease that was renewed after the scan; a slot whose expiry passed is given
away although its worker may renew its lease and go on, so the tenant limit is not exact; a
rollback that takes a queued job's expired lock leaves the job live without a lock, and a second
job of the model is accepted afterwards; a job whose attempt reached the registry and was
retried can be cancelled in the queue, although `enums.py` calls CANCELLED "before it reached
the registry".  When `set_alias` takes effect and its answer is lost, or the process dies after
it, LIVE stays at a version the history does not explain.  When the serving system cannot be
reached while a promotion's split is removed, the rollout stays active with LIVE at its
candidate, and a rejection then moves the traffic back.  A split made just before the process
that starts a rollout dies is known to no row.  A `stop()` of the dispatcher thread that times
out, followed by `start()`, leaves no thread polling.  A rollout whose policy
has one canary step, at 100, and whose promotion fails stays in CANARY; each healthy tick then indexes past the end of
`canary_steps` (`controller.py:534`) and changes nothing.

Data.  With PostgreSQL polling, a change whose lower `seq` commits after a higher one was fetched is
skipped, as `CDC.md` warns.  Two materialisers at once fold the same events twice; `CleaningIsReplay` is true for one only.  `sample` and `page`
stop before the hash is compared, and an object may change between a check and the open.
`persist_current_data` names a version by the hash without keys while the digest has them, so a
second event with equal rows and other keys is a conflict.  `clean_records` looks only at
versions that have a row left.  `snapshot_training_data` freezes rows that cleaning had dropped as well.
Two uploads of one new name, dataset or link: the loser gets an uncaught `IntegrityError`, not the
idempotent answer.

Adaptation.  An attempt that dies between `register` and its commit leaves a version without a TRAINING
link, which a later job may reuse and make LIVE.  A retried job returns its earlier promotion row and
reports the newer version as `live_version`.  With a LIVE of RMSE 0 the required gain is 0, so two equal
versions may replace each other for ever.  An LLM that is configured and down, with no native engine, gives
UNSUPPORTED where no LLM gives NO_ACTION.  The budget check reserves nothing.  A late failure
in the half-open state admits a second trial; a late success closes the circuit.  `anomaly_flags` reads 0/1
labels that are all 1 as "no anomaly".  Precision, recall and F1 may be binary for one model and weighted
for the other, and the positive class depends on the predictions: metric guards on them can reject
a candidate that is as good on every row.

Registries.  The filesystem lock of a dead writer blocks all writes until it is removed by hand; a version
stays PENDING if `_finish` cannot lock.  One FAILED primary version makes every mirror sync raise; a copy
that was cut short is never repaired (`MrSyncRepairs`); a racing create and sync duplicate a replica version; two `set_alias` calls can leave the replica diverged
until a sync.  Vertex removes the alias before it adds it, so a cut leaves no LIVE; its 409 path
appends to a model of another display name without looking.  A `_wait` that times out leaves a version that may
appear later.  The second of two writers that create a SageMaker group fails.  Overlapping MLflow calls
restore the wrong URIs.  Failures of onboarding after the publish leave a version and a moved LIVE, although
a comment says all database writes come first; `attach` moves LIVE before its row is inserted.

Serving and execution.  A Vertex operation that was given up may end after the restore and take all
traffic.  A GitOps `HEAD` that already holds the manifest is not pushed, and the first poll of a commit not
yet applied reads the old version as ready, which fails the rollout.  An alias deployment leaves the
canary alias.  A sandbox container outlives a killed attempt and shares its work directory with the next;
`docker rm -f` that times out raises a raw `TimeoutExpired`; a sandbox started between the listing of
descendants and the exit survives, as does that of an attempt that dies by itself.  A Kubernetes
Job's name cut at 63 characters loses its attempt number, a drained attempt reuses its name: the 409 "is fine"
and the job waits for the TTL.  A late `published_at` delays a requeued job by `JOB_REPUBLISH_AFTER_S`.
`reap` and `tick_rollouts` are not beaten through in `Worker.run`.

Notifications and API.  Partial refusal of recipients by SMTP is silent, a failing `quit()` after acceptance
sends again; a NATS `PONG` that fails raises an unwrapped `OSError`; "a job's events stay in order" does
not hold for Kafka when the dispatcher retries.  A failed JWKS fetch leaves `fetched_at`, so every unknown key id
fetches again; the failure limit is checked first and taken later.  A cut request body whose prefix is
valid JSON is processed while the client gets 413; an oversized request whose handler raises is answered 500.  A
mapped batch with two events of one model queues the first and answers 409.  The idempotency key joins its parts with a
colon (`core/schemas.py:86`): ids that contain one can collide, so `Intake` takes ids without.  `effective_config` names the
wrong source for an override that is also in the environment.

## 4. Proofs

Every safety invariant of a passing run is a theorem, proved by TLAPS for every value of the
constants that its module's ASSUME admits.  Those assumptions are what the code guarantees of its configuration
(counts are natural numbers, a batch or a thread pool is not empty, canary steps end at 100), that "nobody", "none" and
"idle" are not the name of something (`NoOne`, `NoVersion`, `None`, `InMissing`, `"none"`, `DlNone`, `EvNone`), and
that the sets a proof counts over are finite (`Workers` of `Dispatcher`, `Callers` of `LlmGuard`).
`PROJECT.json` lists the theorems with the property each one states.

Each proof has the same shape.  The property is seldom inductive, so an invariant with a name
(`IInv`, `DInv`, `DeliveryInv`, `AdaptationInv`, `RowsInv`, `GuardInv`, or the module's prefix with `Inv`) adds what
the actions rely on; one lemma per action, or per group of actions that leave the same things alone, shows
that it is kept; the theorem joins the initial states, the step and the consequence.  The
paragraphs below say what each invariant adds and why.

### The job queue

`JobQueueProofs` proves, for all sets of jobs, models, workers and tenants, all limits and any
subset of stage reports (assumptions `ConstantTypes`, `DistinctHolders`):

* `Inductive`: `IInv` is an invariant;
* `TypeCorrect`: the type invariant;
* `LeasesCorrect`, `BudgetCorrect`, `SlotsCorrect` and their conjunction `AccountsCorrect`: lease,
  slot, attempt and loss counters are settled together (`AttemptsAccounted`);
* `FencingCorrect`, `ResultsCorrect`, `LocksCorrect`: the other safety invariants of the runs;
* `OutcomeCorrect`, `CancelCorrect`: the action properties;
* `Refinement`: with no external lock users, `Spec` implements `JobService`.

No safety property is inductive alone.  `IInv` adds: tokens are fresh, so two attempts of a job
never hold the same one (`TokensFresh`); the attempt that holds the lease is in the stage the
row shows, what it returned fits that stage, and one stopped by a cancel has the request on its
row and is outside the registry (`AttemptInStep`); counters are zero before submission and only
failed jobs are quarantined (`CountersGrounded`); a lock is of its job's model, and while a
submission is in flight an expired lock is still the one it saw (`LocksPlaced`).  The last is
what makes the take-over in `SubmitCommits` fail the right job.

The proof has one lemma per conjunct (`TypeStep`, `LeaseStep`, `TokenStep`, `AttemptStep`,
`BudgetStep`, `SlotStep`, `PlaceStep`, `LockStep`), each split by action.  `JobSteps` sorts the
actions by what they do to the rows, so that lemmas about rows have few cases; `Refinement`
reuses it, mapping each kind of step to a step of the service or a stutter.

`DispatcherProofs` proves `DInv` inductive for all deliveries, sinks, dispatchers and limits
(assumption `DispatcherConstants`), and from it `DispatcherTyped`, `OwnersCorrect` and
`TrialsCorrect`.  `OwnerUndisturbed` alone is not inductive: a claim could take a row that is
worked on, were it due, so `HandsHidden` says that no such row is due, and `HandsFit` that a
dispatcher's batch, current row and late rows do not overlap wrongly; `LeasedCounted` keeps
`attempts` from going below zero when a row is released.

`OneOutcome`, `TrialInFlight`, `LeaseMatchesStage`, `RetryBudget` and `SlotsAccounted` are proved for every
instance and no longer repeated by a run of their own.

`SendsCorrect` (`SendsAccounted`) joins `OwnersCorrect` (`OwnerUndisturbed`, a part of `DInv`) and `BudgetCorrect`
(`BudgetMeansSends`), which needs a second invariant on top of `DInv`, which counts: the attempt a
dispatcher is on is the row's count; `LateCosts`, each dispatcher that is late with a row has cost a
fault; and so a row's attempts and its sends differ by at most the faults that have happened
(`RowBudget`), the one in hand apart.

`OutboxImplemented` (`ImplementsOutbox`) maps the rows to themselves and the answers heard since a row was queued
to the history variable `heard`.  It needs that an answer a dispatcher would record was heard since then
(`HeardFits`): a redrive takes the lease away, and a dispatcher with a row in hand cannot claim it again, so
the answer's send is younger than the redrive; and that nothing is in hand that was not recorded.  Claims,
releases, crashes, leases and breakers are stutters.

### Promotion and rollouts

`DeliverySafe` proves `DeliveryInv`, from which `AlwaysExplained` (`LiveExplained`), `AlwaysServesLive`
(`ServingIsLive`), `NeverStray` (`NoStrayTraffic`) and `AlwaysFromStable` (`PromotesFromStable`, an action property
that the run checks as part of the refinement) follow.  The properties speak of the moments between operations, so the invariant says where LIVE and the served
version are at each step of a promotion, a rollback or a rollout's tick (`LiveTraced`, `ServedTraced`), which
rollout the step belongs to (`OpFits`, `OneActive`), whose candidate has traffic (`SplitOwned`) and
what a rollout was measured against (`Measured`).  Each part holds under the faults its property admits: a
refused call, or one that took effect and said so, leaves a trace the compensation
uses; a crash does not.

`Refinement` (`ImplementsService`) maps a state to what a reader of the rows sees: a rollout is open from the
moment its traffic is split, before its row is stored, and `moved` holds the idempotency keys of the stored moves.
It adds one invariant to `DeliveryInv`: `KeyOnce`, a rollout that is about to move LIVE has no key yet and
goes to another version, and one past the move has its key.  A step of the alias, the serving system or the split
is a stutter; the commit of a move is `Deliver` or `Rollback`; a promotion that finds its candidate LIVE already is `Find`; a crash
loses trust (`told`), after which a started rollout may leave no row.

### Adaptation

`AdaptationSafe` proves `AdaptationInv`; `AlwaysReplacesWhatItBeat`, `AlwaysLivesBaseline`, `AlwaysReportsRight`
and `NeverWorse` (an action property) follow.  The invariant relates what an attempt has read to what is
true now: an attempt that will promote was judged against a version that may no longer be LIVE,
and only the conditional promotion keeps that from mattering (`JudgedAgainstLive`, `NotWorse`); a version without a
TRAINING link is one whose attempt died (`LinkedOrLost`); and a job that has not run has left nothing
(`JobsApart`).  `AlwaysHeldOut` (`HoldOutIsKept`, for every share that is held out) needs that the held-out rows are the newest of the pool, which
makes a later copy in training impossible after the leakage checks.  `GuardAlwaysHolds` (`GuardHolds`) keeps the
ledger plus all outstanding requests below a ceiling: the room there was when a call was checked, and every request that
may have been checked with it, counted over the callers.

`EvAlwaysMeasures` (`EvMeasures`) holds for any number of rows, any values, slices and training series.  `EvInv` says
that a recorded score is what its model's prediction earns, on rows that no longer change.  Sums are folds of the community
modules, so first comes what a fold over a finite set is: a function of the subsets, computed from smaller ones
(`EvIsFold`, `EvFoldExists`, `EvSubsets`), hence monotone (`EvSumMonotone`).  A score is then the sum of what its rows
add (`EvSameScore`).  A model that is no worse on any row has rows that are nowhere worse (`EvRowsAhead`), so whatever
rows the bootstrap draws, and whatever slice, favour it (`EvDrawnAhead`, `EvSlicesAhead`), and so does each guarded metric
(`EvGuardsAhead`): errors and squares grow together, and detections are compared by set inclusion.
Labels that are all 1 look like a detector's answers to `anomaly_flags` and count no anomaly; then both models score 0.

### Data

`DvAlwaysRight` (`ReadsAreRight`): contents are never removed from an object's history, so whatever an operation
knows about a generation stays true, and only whether it is the latest changes.  `DlAlwaysHold`
(`DlAnswersHold`): committed rows only grow, the inserts of two open transactions are never of one name, and each row
was audited once and after its parent, which makes every lineage end.  `CcAlwaysOnce` (`EveryChangeOnce`):
every place of the log is preceded by all earlier changes, whatever is sent again, and a batch continues where
everything is stored; so the table of events is a prefix of the changes, except for polling a PostgreSQL table,
for which the property claims less.
`CcCleansRight` (`CleaningIsReplay`): with one materialiser (`OneMaker`), the events of a version precede those of later
versions and of what is pending, and a version says of each of its keys what that key's newest event in it says.
So the version with the newest event of a key, among any versions chosen, is the newest of them that says anything of the key: its row
wins the conflict, or its deletion is newer than every row.

### Registries

`FsAlwaysKept` (`FsNothingLost`): the lock file excludes, so what was read under it is still the file's content
at the rewrite; and a version belongs to the one call that creates it until it has answered (`FsOwned`, `FsApart`).
`MrAlwaysMirrors` (`MrMirrors`): the invariant follows a sync that nothing disturbs through its calls: what it
has passed is level, and the rest is still to come; an upload goes into the copy its caller has reserved, so every
copy is whole, under way or cut short, and the replica only grows, so the first copy stays the first.
`CnAlwaysKept` (`CnNothingUndone`): what a call has found out is still so, or will be seen not to be, as the tags it
read are the file's unless the generation has moved on; and LIVE is missing only between the halves of a move.
`ObAlwaysClean` (`ObRejectedLeavesNothing`): an onboarding holds the row of its model before it touches the registry, so
it cannot conflict afterwards, and before that it has left nothing.

### The platform and the edges

`ExAlwaysApart` (`ExAttemptsApart`): an attempt that was stopped has no process left that could start another
one, and unless a child of an earlier attempt was alive when this one started, only this attempt's own runs write
to the directories it reads, so that what is found after a run that wrote anything is that run's.  `SvAlwaysServes` (`SvDeploysHold`): for each adapter, a status that counts as settled
is evidence of what serves only together with the facts that nothing is under way that would
change it (`SvStays`) and that the object is the one the deployer asked for; an object is written as it was read, or
the write is refused; nothing is being deleted while it is live.  `AcAlwaysBounded` (`AcBounded`): the keys in the cache
were published when they were fetched; and an address's failures are at most its spent tokens times the
requests in flight, because a request that fails without spending a token was in flight when the bucket ran out
(an address that waits has that many fewer failures left).

`HbAlwaysAlive` (`HbStaysAlive`): between two turns the lease outlives another heartbeat, or, after a turn that
slipped, at least the next turn; linear arithmetic over every setting the validator accepts.  `RqAlwaysOneAnswer`
(`RqOneTrueAnswer`): a refusal that is owed has not been overtaken by a start on the wire.  `SkAlwaysTrue`
(`SkOutcomeIsTrue`): where a message is (buffer, receiver, lost) is known at each step of the send.  `InAlwaysAccounted`
(`InBatchAccounted`): what a call has left behind is a job already, and keys of jobs differ although
two threads insert.  `HeNeverClears` (`HeWorseKeepsBreach`, an action property): means are compared crosswise, and a mean
that is beyond a threshold stays beyond it when a value joins that is no better than the mean; the difference to the
other arm is such a mean, with that arm's samples folded into the threshold.

`MsNeverEstimates` (`MsNothingEstimated`): a bucket of a histogram is a running total, so its sample minus the
one before it is the number of calls in it (`MsSamples`, by the least bucket for which that fails); merging what
an attempt reported into what a process has is adding those numbers; and a call is timed when no call
on the same port is under way below it, which is to say when it is the outermost one there.  So what a process serves is what it, and the
attempts whose reports it has applied, have done (`msDone`), for any attempts, buckets and calls.

`CfLintAlwaysHolds` (`CfLintHolds`): lint saw the file alone (`a`), the start sees file, environment and store (`b`).
A file without secrets leaves the provider unchosen (`CfChoice`), so where only secrets were added the two
candidates agree on every other key but the LLM's (`CfSame`): the provider may turn from gemini to the compatible
one or to anthropic, which then has the address and the model it requires (`CfFilled`).  So the same adapters are in
use, the LLM's apart (`CfSameAdapters`); the rules on plain keys say the same (`CfPlainRules`); what lint took as
supplied from elsewhere are the secrets the property demands; and no rule asks more of
an LLM adapter than the choice fills in (`CfStarts`).  The invariant `CfInv` records what lint and start saw, and
that every layer holds values an operator may write.

### What stays with TLC

* Liveness (`EveryJobEnds`, `EveryDeliverySettles`, `WkEveryJobRuns`): TLAPS does not reason about fairness.

Induction over data is out of the provers' reach as a theorem with an operator for a parameter.  Where a proof needs it
(the best of any number of versions, the rows a batch of changes leaves, a sequence of audits, a sum over rows), it
takes the least number for which the claim fails: `LeastNat` says there is one, and in `DataProofs` `UpTo` makes an induction of it and `Loop`
a function that is computed step by step.

## 5. Plan

Done: the job queue and its surroundings, promotion, rollouts and serving, the dispatcher and the sinks, data
capture and versions, the pipeline, the registries, the API's edges and start-up; and the theorems above.  Next,
as the code grows: an abstract specification of a model's versions that the registry adapters share, and of
the pipeline's promises to a caller (`Adaptation`).

Not modelled, and why:

* training, drift statistics, calibration and ranking metrics, `prediction_shift`: floating-point library
  code; their verdicts are inputs of `Adaptation`;
* model types and handlers, file formats, hashing, URI parsing, request signing, signature checks: data
  conversions without state, opaque values here;
* ABAC rules and routes that only read; the command line, which calls modelled operations and prints;
* tracing, logging, prompts, redaction, audit rows and wording;
* migrations; conformance suites (tests) and ports (interfaces);
* starting and stopping the dispatcher thread; lengths of backoffs, priorities and retention of the queue.
