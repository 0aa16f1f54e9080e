----------------------------- MODULE Adaptation -----------------------------
(***************************************************************************)
(* The adaptation pipeline for one model (orchestrator/pipeline.py): each  *)
(* job reads LIVE, analyses the drift against the data LIVE was trained    *)
(* on, scores the registered versions and reuses one that beats LIVE, or   *)
(* decides a strategy, adapts, validates, registers and delivers a         *)
(* candidate.  An attempt may die between any two steps; the job is then   *)
(* run again from the start.  LIVE is an alias in a registry that others   *)
(* may move too, so every step that trusts an earlier read is a hazard.    *)
(*                                                                         *)
(* The jobs of one model run one at a time (the model lock, JobQueue); a   *)
(* version's value is its primary metric on the current data, one number   *)
(* since the jobs here are about the same drift; promotion is the sequence *)
(* of Delivery cut down to the check, the alias move and the commit.       *)
(***************************************************************************)
EXTENDS Integers, Sequences, FiniteSets, SequencesExt

CONSTANTS
    Jobs,           \* the adaptation jobs of the model
    Values,         \* what the primary metric can be: a set of naturals
    Worlds,         \* what the model, its framework and the settings allow
    MaxVersions,    \* versions the registry may hold
    MaxFaults,      \* attempts that die, promotions that fail
    MaxMoves,       \* moves of LIVE by an operator or outside the program
    None

Strategies == {"FINE_TUNING", "FULL_RETRAINING", "ROLLBACK", "NO_ACTION"}

ASSUME AdaptationConstants ==
    /\ Values \subseteq Nat /\ None \notin Nat
    /\ {MaxVersions, MaxFaults, MaxMoves} \subseteq Nat
    /\ \A w \in Worlds :
          /\ {w.higher, w.reuse, w.superiority, w.llm, w.blueGreen, w.partialFit, w.schema,
              w.psiHigh, w.performance, w.strict} \subseteq BOOLEAN
          /\ w.engines \subseteq {"FINE_TUNING", "FULL_RETRAINING"}
          /\ w.capable \subseteq w.engines

VARIABLES
    world,      \* the settings and the model, fixed
    versions,   \* the registry: a sequence of [value, fits, by]
    live,       \* the LIVE alias, None when it is not set
    event,      \* job -> the version its drift event names, or None
    links,      \* TRAINING links in the order they were committed
    promoted,   \* committed promotion rows: [key, from, to, judged]
    rollout,    \* the active rollout [from, to], or None
    queued,     \* the jobs that still have to run or to run again
    run,        \* the running attempt
    result,     \* job -> its result, or None
    tries,      \* job -> attempts started
    faults, moves

adaptationVars == <<world, event, versions, live, links, promoted, rollout, queued, run, result, tries,
                    faults, moves>>

Idle == [pc |-> "idle"]
Known == 1 .. Len(versions)
At(pc) == run.pc = pc
Goto(pc) == run' = [run EXCEPT !.pc = pc]

Registry == <<versions, live, links>>
Records == <<promoted, rollout>>
Bounds == <<faults, moves>>
Book == <<world, event, queued, result, tries>>

AdaptationInit ==
    /\ world \in Worlds
    /\ \E n \in 1 .. 2 : versions \in [1 .. n -> [value : Values, fits : BOOLEAN, by : {None}]]
    /\ live \in (DOMAIN versions) \union {None}
    /\ event \in [Jobs -> {None, live}]
    /\ links \in {<<>>, <<1>>, [v \in DOMAIN versions |-> v]}
    /\ promoted = {} /\ rollout = None
    /\ queued = Jobs /\ run = Idle
    /\ result = [j \in Jobs |-> None] /\ tries = [j \in Jobs |-> 0]
    /\ faults = 0 /\ moves = 0

-----------------------------------------------------------------------------
(* The end of an attempt: with a result, or with an error the job records. *)

Ends(outcome, shown) ==
    /\ result' = [result EXCEPT ![run.job] = [outcome |-> outcome, shown |-> shown, tries |-> tries[run.job],
                                              strategy |-> run.strategy]]
    /\ run' = Idle
    /\ UNCHANGED <<world, event, queued, tries>>

\* The attempt's process dies: the session is rolled back, what the registry was told stays, and
\* the queue hands the job out again.
Die ==
    /\ run # Idle /\ faults < MaxFaults
    /\ faults' = faults + 1
    /\ run' = Idle /\ queued' = queued \union {run.job}
    /\ UNCHANGED <<world, event, result, tries, moves>> /\ UNCHANGED <<Registry, Records>>

-----------------------------------------------------------------------------
(* Reading LIVE, and the two reasons not to start.                         *)

\* An attempt of job j; its event names the version that drifted, or none.
Start(j) ==
    LET named == event[j] IN
    /\ run = Idle /\ j \in queued
    /\ queued' = queued \ {j} /\ tries' = [tries EXCEPT ![j] = @ + 1]
    /\ run' = [pc |-> IF named # None /\ live # None /\ named # live THEN "stale"
                      ELSE IF rollout # None THEN "waits" ELSE "analyze",
               job |-> j, live |-> live, base |-> None, judged |-> None, value |-> 0,
               strategy |-> None, note |-> "none", new |-> None, key |-> None, from |-> None,
               evaluated |-> {}, scorable |-> FALSE]
    /\ UNCHANGED <<world, event, result>> /\ UNCHANGED <<Registry, Records, Bounds>>

Refuse ==
    /\ At("stale") \/ At("waits")
    /\ UNCHANGED Registry
    /\ Ends(IF At("stale") THEN "NO_ACTION" ELSE "ROLLOUT_IN_PROGRESS", run.live)
    /\ UNCHANGED <<Records, Bounds>>

-----------------------------------------------------------------------------
(* Analysis.                                                               *)

LatestAssociation == IF links = <<>> THEN None ELSE Last(links)

HistoricalNewest(v) == LatestAssociation

\* The data version v was trained on, by its own link if it has one, else the newest link.
HistoricalVersion(v) == IF v \in ToSet(links) THEN v ELSE LatestAssociation

\* The data version the event names, if it is stored, else the newest observation.
DriftedVersion(named, observed) == named \/ observed

\* retrieve_context: the two slices the analysis compares, each there or not.
RetrieveContext(named, observed) ==
    [historical |-> HistoricalVersion(run.live), drifted |-> DriftedVersion(named, observed)]

\* The comparison; the caller reports drift or does not.
Analyze(named, observed, reported) ==
    LET context == RetrieveContext(named, observed) IN
    /\ At("analyze")
    /\ run' = [run EXCEPT !.base = context.historical,
                          !.pc = IF context.historical = None \/ ~context.drifted \/ ~reported
                                 THEN "noAction" ELSE "clean"]
    /\ UNCHANGED Book /\ UNCHANGED <<Registry, Records, Bounds>>

NoAction ==
    /\ At("noAction")
    /\ UNCHANGED Registry
    /\ Ends("NO_ACTION", run.live)
    /\ UNCHANGED <<Records, Bounds>>

\* Cleaning and the hold-out: enough held-out rows to score on, or too few.
Clean(enough) ==
    /\ At("clean")
    /\ run' = [run EXCEPT !.pc = IF world.reuse /\ run.live # None /\ enough THEN "evaluate" ELSE "decide",
                          !.scorable = enough]
    /\ UNCHANGED Book /\ UNCHANGED <<Registry, Records, Bounds>>

-----------------------------------------------------------------------------
(* Reuse of a registered version.                                          *)

\* How much better than LIVE's value l the value v is.
Gain(v, l) == IF world.higher THEN v - l ELSE l - v

\* A higher-is-better metric must rise by 1; an error must fall by half.
Required(l) == IF world.higher THEN 1 ELSE (l + 1) \div 2

Candidates == {v \in Known : versions[v].fits}

EligibleAnyGain(l) == Candidates \ {run.live}

\* The compatible versions, LIVE apart, that beat LIVE by what is required.
Eligible(l) == {v \in Candidates \ {run.live} : Gain(versions[v].value, l) >= Required(l)}

\* The best value wins, a tie goes to the newest version.
Best(E, l) == CHOOSE v \in E : \A w \in E :
                 LET gv == Gain(versions[v].value, l)  gw == Gain(versions[w].value, l)
                 IN  gv > gw \/ (gv = gw /\ v >= w)

\* evaluate_versions and decide_reuse; without a value for LIVE nothing is reused.
EvaluateVersions ==
    LET l == versions[run.live].value
        E == IF versions[run.live].fits THEN Eligible(l) ELSE {}
    IN
    /\ At("evaluate")
    /\ run' = IF E # {}
              THEN [run EXCEPT !.pc = "promote", !.new = Best(E, l), !.judged = run.live,
                               !.key = "reuse"]
              ELSE [run EXCEPT !.pc = "decide", !.evaluated = Candidates]
    /\ UNCHANGED Book /\ UNCHANGED <<Registry, Records, Bounds>>

-----------------------------------------------------------------------------
(* The strategy.                                                           *)

\* What the hard constraints leave: psi high rules out fine-tuning, a framework without an engine
\* of a kind needs the LLM adapter, and a rollback needs recent performance and an evaluated
\* compatible version to go back to.
Compatible ==
    {s \in Strategies :
        CASE s = "FINE_TUNING" -> ~world.psiHigh /\ (s \in world.capable \/ world.llm)
          [] s = "FULL_RETRAINING" -> s \in world.capable \/ world.llm
          [] s = "ROLLBACK" -> /\ world.performance
                               /\ run.evaluated = {} \/ run.evaluated \ {run.live} # {}
          [] OTHER -> TRUE}

\* The deterministic rule: the cheapest strategy that is compatible.
Fallback(C) ==
    CASE "FINE_TUNING" \in C -> "FINE_TUNING"
      [] "FULL_RETRAINING" \in C -> "FULL_RETRAINING"
      [] "ROLLBACK" \in C -> "ROLLBACK"
      [] OTHER -> "NO_ACTION"

\* The LLM's answer, whatever it is: one outside the compatible set, a malformed one and no answer
\* are all replaced by the deterministic rule.  Without an LLM only the rule applies.
Select(s) == IF world.llm /\ s \in Compatible THEN s ELSE Fallback(Compatible)

\* Too few drifted rows or nothing to compare forces a strategy that adapts nothing.
Decide(answer, forced) ==
    /\ At("decide")
    /\ run' = IF forced \/ Select(answer) \notin {"FINE_TUNING", "FULL_RETRAINING"}
                        \/ (run.live = None /\ live = None)
              THEN [run EXCEPT !.pc = "noAction"]
              ELSE [run EXCEPT !.pc = "adapt", !.strategy = Select(answer),
                               !.live = IF @ = None THEN live ELSE @]
    /\ UNCHANGED Book /\ UNCHANGED <<Registry, Records, Bounds>>

-----------------------------------------------------------------------------
(* The candidate.                                                          *)

\* A native engine of the model's type, for an artifact that can be trained that way.
Native(s) == s \in world.engines /\ world.schema /\ (s = "FINE_TUNING" => world.partialFit)

\* Fine-tuning an artifact that cannot be tuned becomes a full retrain, when that is possible.
Wanted(s) == IF s = "FINE_TUNING" /\ ~(world.partialFit /\ world.schema) /\ world.schema
             THEN "FULL_RETRAINING" ELSE s

\* The LLM adapter's code ran: there is an LLM, it could be reached, and what it wrote was neither
\* unsafe nor failing in the sandbox.
Generated(llmWorks) == world.llm /\ llmWorks

\* How the strategy is carried out when the LLM adapter, if there is one, works or does not:
\* natively, by generated code, by a full retrain after all, or not at all.
Produced(s, llmWorks) ==
    IF Native(Wanted(s)) THEN "native"
    ELSE IF Generated(llmWorks) THEN "generated"
    ELSE IF Wanted(s) = "FINE_TUNING" /\ world.schema /\ Native("FULL_RETRAINING") THEN "retrained"
    ELSE "unsupported"

\* The artifact of the version to adapt must verify and load, then _produce_candidate; the new
\* model has some value on the held-out rows.
Adapt(llmWorks, value) ==
    LET how == Produced(run.strategy, llmWorks) IN
    /\ At("adapt")
    /\ IF versions[run.live].fits /\ how # "unsupported"
       THEN /\ run' = [run EXCEPT !.pc = "validate", !.value = value, !.note = how]
            /\ UNCHANGED Book /\ UNCHANGED Registry
       ELSE /\ UNCHANGED Registry
            /\ Ends(IF versions[run.live].fits THEN "UNSUPPORTED" ELSE "BAD_ARTIFACT", run.live)
    /\ UNCHANGED <<Records, Bounds>>

\* The guardrails, each a hard reject whatever the primary metric says: bad names the one the
\* candidate breaks, if any, and measured says whether the hold-out could show it.  A slice whose
\* column is missing passes unless the policy requires the column; what the other guards cannot
\* measure passes, but a metric nobody knows fails.
SliceGuard(bad, measured) == IF measured THEN bad # "slices" ELSE ~world.strict
CalibrationGuard(bad, measured) == measured => bad # "calibration"
LatencyGuard(bad) == bad # "latency"
SizeGuard(bad, measured) == measured => bad # "size"
MetricGuards(bad, measured) == bad # "unknown" /\ (measured => bad # "metric")

Guardrails(bad, measured) ==
    /\ SliceGuard(bad, measured) /\ CalibrationGuard(bad, measured) /\ LatencyGuard(bad)
    /\ SizeGuard(bad, measured) /\ MetricGuards(bad, measured)

\* The gate: the candidate's improvement interval lies above the margin (superiority) or does not
\* reach below it (non-inferiority), and every guardrail passes.  slack is how far the interval
\* reaches below the improvement.
Accepts(value, slack) ==
    LET low == Gain(value, versions[run.live].value) - slack
    IN  IF world.superiority THEN low > 0 ELSE low >= 0

\* validate_candidate refuses to score on fewer held-out rows than the minimum.
Scorable == run.scorable

Validate(slack, bad, measured) ==
    /\ At("validate")
    /\ IF ~Scorable THEN UNCHANGED Registry /\ Ends("ERROR", None)
       ELSE IF Accepts(run.value, slack) /\ Guardrails(bad, measured)
       THEN /\ run' = [run EXCEPT !.pc = "register", !.judged = run.live]
            /\ UNCHANGED Book /\ UNCHANGED Registry
       ELSE UNCHANGED Registry /\ Ends("REJECTED", run.live)
    /\ UNCHANGED <<Records, Bounds>>

-----------------------------------------------------------------------------
(* Registration and delivery.                                              *)

\* The registry has the version as soon as it answers; its training link waits for the commit.
Register ==
    /\ At("register") /\ Len(versions) < MaxVersions
    /\ versions' = Append(versions, [value |-> run.value, fits |-> TRUE, by |-> run.job])
    /\ run' = [run EXCEPT !.pc = "snapshot", !.new = Len(versions) + 1]
    /\ UNCHANGED Book /\ UNCHANGED <<live, links, Records, Bounds>>

\* snapshot_training_data, committed by the next stage report, and the choice of delivery.
Snapshot ==
    /\ At("snapshot")
    /\ links' = Append(links, run.new)
    /\ run' = [run EXCEPT !.pc = IF world.blueGreen THEN "promote" ELSE "deliver",
                          !.key = "promote"]
    /\ UNCHANGED Book /\ UNCHANGED <<versions, live, Records, Bounds>>

\* start_rollout: the job ends and the delivery controller carries on.
Deliver ==
    /\ At("deliver")
    /\ rollout' = [from |-> run.live, to |-> run.new]
    /\ UNCHANGED Registry
    /\ Ends("DELIVERING", run.live)
    /\ UNCHANGED <<promoted, Bounds>>

Earlier == {p \in promoted : p.key = <<run.job, run.key>>}

LiveMovedNever == FALSE

\* expected_live no longer holds.
LiveMoved == live # run.live

Reports == IF run.key = "reuse" THEN "REUSED" ELSE "REGISTERED"

\* promote_version up to its first effect: a repeated key returns the earlier row, and a LIVE that
\* has moved since it was read is a conflict.
PromoteChecks ==
    /\ At("promote")
    /\ IF Earlier # {}
       THEN UNCHANGED Registry /\ Ends(Reports, run.new)
       ELSE IF LiveMoved
       THEN UNCHANGED Registry /\ Ends("CONFLICT", None)
       ELSE /\ run' = [run EXCEPT !.pc = "alias", !.from = live]
            /\ UNCHANGED Book /\ UNCHANGED Registry
    /\ UNCHANGED <<Records, Bounds>>

SetAlias ==
    /\ At("alias")
    /\ live' = run.new
    /\ Goto("commit")
    /\ UNCHANGED Book /\ UNCHANGED <<versions, links, Records, Bounds>>

\* The read-back, the deployment and the commit of the promotion row.
CommitPromotion ==
    /\ At("commit") /\ live = run.new
    /\ promoted' = promoted \union {[key |-> <<run.job, run.key>>, from |-> run.from,
                                     to |-> run.new, judged |-> run.judged]}
    /\ UNCHANGED Registry
    /\ Ends(Reports, run.new)
    /\ UNCHANGED <<rollout, Bounds>>

FailureHidden == Reports

\* A candidate that could not be promoted is a result; a reuse that failed is the job's error.
FailureReported == IF run.key = "reuse" THEN "ERROR" ELSE "ROLLED_BACK"

\* The alias does not read back, or the deployment or the commit fails: LIVE is put back.
PromotionFails ==
    /\ At("commit")
    /\ \/ live # run.new /\ UNCHANGED faults
       \/ live = run.new /\ faults < MaxFaults /\ faults' = faults + 1
    /\ live' = run.from
    /\ Ends(FailureReported, run.from)
    /\ UNCHANGED <<versions, links, Records, moves>>

-----------------------------------------------------------------------------
(* The others that move LIVE.                                              *)

\* The delivery controller ends the rollout: it promotes only over the version the rollout began
\* from (Delivery).  It holds the model lock.
RolloutEnds(wins) ==
    /\ run = Idle /\ rollout # None
    /\ live' = IF wins /\ live = rollout.from THEN rollout.to ELSE live
    /\ rollout' = None
    /\ UNCHANGED Book /\ UNCHANGED <<versions, links, promoted, run, Bounds>>

\* An operator's rollback between jobs, or a job whose lock has lapsed, or the registry's own
\* tools: LIVE moves at any time.
MoveLive(v) ==
    /\ moves < MaxMoves /\ v \in Known /\ v # live
    /\ live' = v /\ moves' = moves + 1
    /\ UNCHANGED Book /\ UNCHANGED <<versions, links, Records, run, faults>>

-----------------------------------------------------------------------------
Attempt ==
    \/ Refuse
    \/ \E n, o, r \in BOOLEAN : Analyze(n, o, r)
    \/ NoAction
    \/ \E e \in BOOLEAN : Clean(e)
    \/ EvaluateVersions
    \/ \E s \in Strategies, f \in BOOLEAN : Decide(s, f)
    \/ \E w \in BOOLEAN, v \in Values : Adapt(w, v)
    \/ \E s \in 0 .. 1, g \in {"none", "slices", "calibration", "latency", "size", "metric", "unknown"},
          m \in BOOLEAN : Validate(s, g, m)
    \/ Register \/ Snapshot \/ Deliver
    \/ PromoteChecks \/ SetAlias \/ CommitPromotion \/ PromotionFails

AdaptationNext ==
    \/ \E j \in Jobs : Start(j)
    \/ Attempt
    \/ Die
    \/ \E w \in BOOLEAN : RolloutEnds(w)
    \/ \E v \in Known : MoveLive(v)

AdaptationSpec == AdaptationInit /\ [][AdaptationNext]_adaptationVars

-----------------------------------------------------------------------------
(* Properties.                                                             *)

\* The version a promotion row says was replaced is the one the new version was judged against,
\* whoever moved LIVE while the job was scoring, training and validating.
ReplacesWhatItBeat == \A p \in promoted : p.from = p.judged

\* As long as only jobs and rollouts move LIVE, no move makes it worse on the current data,
\* whatever an LLM answered, whichever attempts died and whichever promotions were undone.
LiveNeverWorse ==
    [][moves = 0 /\ moves' = 0 /\ live # None /\ live' # live
       => live' # None /\ (Gain(versions[live'].value, versions[live].value) >= 0
                           \/ At("commit"))]_adaptationVars

\* Drift is measured against the data LIVE was trained on, also after an older version was
\* reused or LIVE was moved back.  Without its own link a version is measured against another
\* one's data, and a job leaves such a version behind only when an attempt dies.
BaselineIsLives ==
    run # Idle /\ run.pc \in {"clean", "evaluate", "decide"} /\ run.live # None
        => \/ run.base = run.live
           \/ run.live \notin ToSet(links) /\ (versions[run.live].by = None \/ faults > 0)

\* A job that reports a new LIVE version on its first attempt has a promotion row for it, and
\* one that reports a failed promotion has none.
ReportsWhatHappened ==
    \A j \in Jobs : result[j] # None =>
        LET r == result[j]
            rows == {p \in promoted : p.key[1] = j}
        IN  /\ r.outcome \in {"REGISTERED", "REUSED"} => rows # {}
            /\ r.tries = 1 /\ rows # {} =>
                  r.outcome \in {"REGISTERED", "REUSED"} /\ \A p \in rows : p.to = r.shown

\* An LLM that is down, refused or wrong costs nothing: what the strategy would have produced
\* without one is still produced.
LlmNeverCosts ==
    \A j \in Jobs : result[j] # None /\ result[j].outcome = "UNSUPPORTED" =>
        ~Native("FULL_RETRAINING") /\ ~Native(result[j].strategy)

\* What a job reports is what happened, with or without an LLM (pipeline.py).
ReportsAreRight == ReportsWhatHappened /\ LlmNeverCosts
=============================================================================
