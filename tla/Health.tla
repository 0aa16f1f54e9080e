-------------------------------- MODULE Health --------------------------------
(***************************************************************************)
(* The online verdict on a rollout (delivery/health.py) from what a        *)
(* rollout metrics adapter reports of each arm's window                    *)
(* (adapters/rollout_metrics).  One metric and one rule; an arm is its     *)
(* request count and the samples' number and sum, so means are compared    *)
(* without dividing.                                                       *)
(***************************************************************************)
EXTENDS Integers

CONSTANTS HeValues,      \* what a sample may be
          HeLimit, HeMaxDegradation, HeMaxRatio,   \* a rule's thresholds
          HeMinSamples,  \* DELIVERY_POLICY.min_samples
          HeMaxSamples   \* bound: samples an arm gets

ASSUME HeAssumption ==
    /\ HeValues \subseteq Int /\ HeLimit \in Int /\ HeMaxDegradation \in Nat
    /\ {HeMaxRatio, HeMinSamples, HeMaxSamples} \subseteq Nat \ {0}

VARIABLES heRule,     \* HealthRule: the direction and which thresholds are set
          heSource,   \* ROLLOUT_METRICS_BACKEND
          heStable,   \* ArmStats of the stable arm's window
          heCandidate

heVars == <<heRule, heSource, heStable, heCandidate>>

HeNoStats == [count |-> 0, n |-> 0, sum |-> 0]

HeInit ==
    /\ heRule \in [direction : {"lower", "higher"}, limit : BOOLEAN, degradation : BOOLEAN,
                   ratio : BOOLEAN, required : BOOLEAN]
    /\ heSource \in {"api", "prometheus", "rankpi"}
    /\ heStable = HeNoStats /\ heCandidate = HeNoStats

-----------------------------------------------------------------------------
(* Rules                                                                   *)

\* How much worse the candidate is, times both counts.
HeWorseByReversed(c, s) ==
    IF heRule.direction = "higher" THEN c.sum * s.n - s.sum * c.n ELSE s.sum * c.n - c.sum * s.n

HeWorseBy(c, s) ==
    IF heRule.direction = "lower" THEN c.sum * s.n - s.sum * c.n ELSE s.sum * c.n - c.sum * s.n

HeRatioBreached(c, s) ==
    IF heRule.direction = "lower"
    THEN s.sum > 0 /\ c.sum * s.n > HeMaxRatio * s.sum * c.n
    ELSE c.sum > 0 /\ s.sum * c.n > HeMaxRatio * c.sum * s.n

HeBeyondLimit(c) ==
    IF heRule.direction = "lower" THEN c.sum > HeLimit * c.n ELSE c.sum < HeLimit * c.n

\* evaluate_health.
HeCompares == heRule.degradation \/ heRule.ratio

HeReasons(c, s) ==
    /\ c.n > 0
    /\ \/ heRule.limit /\ HeBeyondLimit(c)
       \/ /\ HeCompares /\ s.n > 0
          /\ \/ heRule.degradation /\ HeWorseBy(c, s) > HeMaxDegradation * c.n * s.n
             \/ heRule.ratio /\ HeRatioBreached(c, s)

HeMissing(c, s) == heRule.required /\ (c.n = 0 \/ (HeCompares /\ s.n = 0))

HeEnough(c, s) == c.count >= HeMinSamples /\ s.count >= HeMinSamples

HeVerdict(c, s) ==
    CASE HeEnough(c, s) /\ HeReasons(c, s) -> "breach"
      [] HeEnough(c, s) /\ ~HeReasons(c, s) /\ ~HeMissing(c, s) -> "healthy"
      [] OTHER -> "insufficient"

\* ab_test: what Welch's test may say, given that it finds the means to differ
\* or not; two constant arms differ exactly when their means do.
HeAbEnough(c, s) == HeEnough(c, s) /\ c.n >= 2 /\ s.n >= 2

HeAbTest(c, s, significant) ==
    CASE HeAbEnough(c, s) /\ significant /\ HeWorseBy(c, s) < 0 -> "better"
      [] HeAbEnough(c, s) /\ significant /\ HeWorseBy(c, s) > 0 -> "worse"
      [] OTHER -> "inconclusive"

-----------------------------------------------------------------------------
(* Observations                                                            *)

\* A report of one request for an arm, with the metric or without.  The api
\* adapter counts the requests reported; rankpi the decisions, or its metric
\* rows when there are none; Prometheus, without a query for requests, the
\* samples.
HeReported(a, value, sampled) ==
    [count |-> IF sampled \/ heSource # "prometheus" THEN a.count + 1 ELSE a.count,
     n     |-> IF sampled THEN a.n + 1 ELSE a.n,
     sum   |-> IF sampled THEN a.sum + value ELSE a.sum]

HeObserve(a) ==
    {HeReported(a, v, sampled) : v \in HeValues, sampled \in BOOLEAN}

HeObserveStable ==
    /\ heStable.count < HeMaxSamples /\ heStable' \in HeObserve(heStable)
    /\ UNCHANGED <<heRule, heSource, heCandidate>>

HeObserveCandidate ==
    /\ heCandidate.count < HeMaxSamples /\ heCandidate' \in HeObserve(heCandidate)
    /\ UNCHANGED <<heRule, heSource, heStable>>

\* A new step of the rollout is judged on a window of its own.
HeNewWindow ==
    /\ HeVerdict(heCandidate, heStable) = "healthy"
    /\ heStable' = HeNoStats /\ heCandidate' = HeNoStats
    /\ UNCHANGED <<heRule, heSource>>

HeNext == HeObserveStable \/ HeObserveCandidate \/ HeNewWindow

HeSpec == HeInit /\ [][HeNext]_heVars

-----------------------------------------------------------------------------
(* Properties                                                              *)

HeTypeOK ==
    \A a \in {heStable, heCandidate} :
        a.count \in 0..HeMaxSamples /\ a.n \in 0..a.count /\ (a.n = 0 => a.sum = 0)

\* The candidate's window gets a sample no better than the mean before it, and
\* stable's stays as it was.
HeGetsWorse ==
    /\ UNCHANGED heStable /\ heCandidate.n > 0 /\ heCandidate'.n = heCandidate.n + 1
    /\ LET v == heCandidate'.sum - heCandidate.sum
       IN  IF heRule.direction = "lower" THEN v * heCandidate.n >= heCandidate.sum
                                         ELSE v * heCandidate.n <= heCandidate.sum

HeBreachStays ==
    HeVerdict(heCandidate, heStable) = "breach" => HeVerdict(heCandidate', heStable') = "breach"

\* A rule with an absolute limit or a largest degradation is a threshold: once
\* the candidate is in breach, worse samples never clear it, however few or
\* many there are and whichever way the metric is better; and an A/B test that
\* finds the candidate worse does not find it better for them
\* (evaluate_health, ab_test).
HeWorseKeepsBreach ==
    [][HeGetsWorse =>
         /\ ~heRule.ratio => HeBreachStays
         /\ HeAbTest(heCandidate, heStable, TRUE) = "worse"
               => HeAbTest(heCandidate', heStable', TRUE) = "worse"]_heVars

\* "A rule breaches when the candidate's mean is ... worse by more than the
\* ratio max_ratio" (HealthRule): then worse samples do not clear a breach of
\* the ratio either.
HeRatioIsThreshold == [][HeGetsWorse => HeBreachStays]_heVars
===============================================================================
