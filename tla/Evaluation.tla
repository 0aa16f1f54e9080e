----------------------------- MODULE Evaluation -----------------------------
(***************************************************************************)
(* How two models are scored on the held-out rows (validation/metrics.py,  *)
(* evaluate.py) and compared by the promotion gate (validation/gate.py,    *)
(* its primary test, slices and metric guards), for every truth and every  *)
(* prediction over a few rows.                                             *)
(*                                                                         *)
(* A score is a fraction <<numerator, denominator>>; an RMSE is kept as    *)
(* its square, which orders models the same way.  The gate's margin and    *)
(* allowed drops are 0, so only signs matter.  The quantile of the         *)
(* bootstrapped differences is any of them.  Models give no ranking score. *)
(* The guardrails for calibration, latency and size are Adaptation's; here *)
(* they are switched off.                                                  *)
(***************************************************************************)
EXTENDS Integers, Sequences, FiniteSets, FiniteSetsExt, Functions

CONSTANTS EvRowCount,   \* held-out rows
          EvValues,     \* labels, targets, predictions or features
          EvTrain,      \* the training series a forecast is scaled with
          EvSlices,     \* sets of rows that share a value of a slice column
          EvSliceRows,  \* policy.slices.min_rows
          EvNone

ASSUME EvAssumption ==
    /\ EvRowCount \in Nat \ {0} /\ EvValues \subseteq Int /\ EvNone \notin EvValues
    /\ EvTrain \in Seq(Int) /\ EvSlices \subseteq SUBSET (1..EvRowCount)
    /\ EvNone \notin [mode : {"superiority", "non-inferiority"}, accept : BOOLEAN]

VARIABLES evDeclared,   \* the recorded task_type
          evEstimator,  \* the inspected estimator type
          evTask,       \* the task, once it is resolved
          evData,       \* row -> label or target; a clusterer has features only
          evPred,       \* model -> row -> prediction
          evScores,     \* model -> metric -> score
          evVerdict

evVars == <<evDeclared, evEstimator, evTask, evData, evPred, evScores, evVerdict>>

EvModels == {"current", "candidate"}
EvIndex == 1..EvRowCount
EvVectors == [EvIndex -> EvValues]
\* ValidationFailedError
EvFailed == [mode |-> "failed", accept |-> FALSE]

-----------------------------------------------------------------------------
(* Fractions                                                               *)

EvAdd(a, b) == <<a[1] * b[2] + b[1] * a[2], a[2] * b[2]>>
EvTimes(a, b) == <<a[1] * b[1], a[2] * b[2]>>
EvMinus(a) == <<0 - a[1], a[2]>>
EvAtMost(a, b) == a[1] * b[2] <= b[1] * a[2]
EvEqual(a, b) == a[1] * b[2] = b[1] * a[2]
EvTotal(f) == FoldFunction(EvAdd, <<0, 1>>, f)
EvMean(f) == EvTimes(EvTotal(f), <<1, Cardinality(DOMAIN f)>>)
EvCount(b) == Cardinality({i \in DOMAIN b : b[i]})
\* zero_division = 0
EvRatio(n, d) == IF d = 0 THEN <<0, 1>> ELSE <<n, d>>
EvAbs(n) == IF n < 0 THEN -n ELSE n

\* The scores of f and, where it has none, of g; scores that are defined where c is true.
EvOver(f, g) ==
    [m \in DOMAIN f \cup DOMAIN g |-> IF m \in DOMAIN f THEN f[m] ELSE g[m]]
EvWhere(c, scores) == IF c THEN scores ELSE <<>>

-----------------------------------------------------------------------------
(* metrics.py                                                              *)

EvPrimary(task) == CASE task = "CLASSIFICATION" -> "accuracy"
                     [] task \in {"REGRESSION", "FORECASTING"} -> "rmse"
                     [] task = "CLUSTERING" -> "silhouette"
                     [] task = "ANOMALY_DETECTION" -> "f1"

EvHigherIsBetter(metric) ==
    metric \in {"accuracy", "precision", "recall", "f1", "r2", "silhouette"}

EvTasks == {"CLASSIFICATION", "REGRESSION", "FORECASTING", "CLUSTERING", "ANOMALY_DETECTION"}
EvEstimatorFor(task) ==
    CASE task = "CLASSIFICATION" -> "classifier"
      [] task \in {"REGRESSION", "FORECASTING"} -> "regressor"
      [] task = "CLUSTERING" -> "clusterer"
      [] task = "ANOMALY_DETECTION" -> "outlier_detector"

\* The declared task if the artifact can serve it, else what the artifact is for.
EvResolveTask(declared, estimator) ==
    IF declared # EvNone /\ EvEstimatorFor(declared) = estimator THEN declared
    ELSE CASE estimator = "classifier" -> "CLASSIFICATION"
           [] estimator = "regressor" -> "REGRESSION"
           [] estimator = "clusterer" -> "CLUSTERING"
           [] estimator = "outlier_detector" -> "ANOMALY_DETECTION"
           [] OTHER -> EvNone

EvBinary(truth, flagged) ==
    LET tp == EvCount([i \in EvIndex |-> truth[i] /\ flagged[i]])
        fp == EvCount([i \in EvIndex |-> ~truth[i] /\ flagged[i]])
        fn == EvCount([i \in EvIndex |-> truth[i] /\ ~flagged[i]])
    IN [precision |-> EvRatio(tp, tp + fp), recall |-> EvRatio(tp, tp + fn),
        f1 |-> EvRatio(2 * tp, 2 * tp + fp + fn)]

\* Two classes: the larger one is positive.  More: every class by its support.
EvClassification(y, p) ==
    LET labels == {y[i] : i \in EvIndex} \cup {p[i] : i \in EvIndex}
        of(l) == EvBinary([i \in EvIndex |-> y[i] = l], [i \in EvIndex |-> p[i] = l])
        support(l) == <<EvCount([i \in EvIndex |-> y[i] = l]), EvRowCount>>
        metric(m) == IF Cardinality(labels) <= 2 THEN of(Max(labels))[m]
                     ELSE EvTotal([l \in labels |-> EvTimes(support(l), of(l)[m])])
    IN [accuracy |-> <<EvCount([i \in EvIndex |-> y[i] = p[i]]), EvRowCount>>,
        precision |-> metric("precision"), recall |-> metric("recall"), f1 |-> metric("f1")]

EvSquared(y, p) == SumFunction([i \in EvIndex |-> (y[i] - p[i]) * (y[i] - p[i])])
\* The number of rows times the sum of squares about the mean.
EvSpread(y) ==
    LET total == SumFunction([i \in EvIndex |-> y[i]])
    IN EvRowCount * SumFunction([i \in EvIndex |-> y[i] * y[i]]) - total * total

EvRegression(y, p) ==
    LET n == EvRowCount
        sse == EvSquared(y, p)
        sst == EvSpread(y)
        always == [mae |-> <<SumFunction([i \in EvIndex |-> EvAbs(y[i] - p[i])]), n>>,
                   mse |-> <<sse, n>>, rmse |-> <<sse, n>>]
    IN EvOver(EvWhere(n >= 2 /\ sst > 0, [r2 |-> <<sst - n * sse, sst>>]),
       EvOver(EvWhere(\A i \in EvIndex : y[i] # 0,
                      [mape |-> EvMean([i \in EvIndex |-> <<EvAbs(y[i] - p[i]), EvAbs(y[i])>>])]),
              always))

\* MASE: the error over that of repeating the last value of the training series.
EvForecasting(y, p) ==
    LET r == EvRegression(y, p)
        some == {i \in EvIndex : EvAbs(y[i]) + EvAbs(p[i]) > 0}
        share == [i \in some |-> <<2 * EvAbs(p[i] - y[i]), EvAbs(y[i]) + EvAbs(p[i])>>]
        steps == Len(EvTrain) - 1
        naive == SumFunction([i \in 1..steps |-> EvAbs(EvTrain[i + 1] - EvTrain[i])])
    IN EvOver(EvWhere(some # {}, [smape |-> EvMean(share)]),
       EvOver(EvWhere(steps > 0 /\ naive > 0, [mase |-> EvTimes(r.mae, <<steps, naive>>)]),
              [m \in DOMAIN r \cap {"mae", "rmse", "mape"} |-> r[m]]))

\* The silhouette of a row: how much nearer its own cluster is than the next one.
EvSilhouette(x, p, i) ==
    LET away(S) == EvMean([j \in S |-> <<EvAbs(x[i] - x[j]), 1>>])
        own == {j \in EvIndex : p[j] = p[i]} \ {i}
        means == {away({j \in EvIndex : p[j] = l}) : l \in {p[j] : j \in EvIndex} \ {p[i]}}
        b == CHOOSE f \in means : \A g \in means : EvAtMost(f, g)
        a == away(own)
        top == IF EvAtMost(a, b) THEN b ELSE a
        gap == EvAdd(b, EvMinus(a))
    IN IF own = {} \/ top[1] = 0 THEN <<0, 1>> ELSE EvTimes(gap, <<top[2], top[1]>>)

EvClusters(p) == Cardinality({p[i] : i \in EvIndex})

EvClustering(x, p) ==
    EvWhere(EvClusters(p) \in 2..(EvRowCount - 1),
            [silhouette |-> EvMean([i \in EvIndex |-> EvSilhouette(x, p, i)])])

\* An outlier detector says -1 and 1; labels mark an anomaly 1.
EvAnomalyFlags(v) ==
    LET outlier == IF \A i \in EvIndex : v[i] \in {-1, 1} THEN -1 ELSE 1
    IN [i \in EvIndex |-> v[i] = outlier]

EvComputeMetrics(task, y, p) ==
    CASE task = "CLASSIFICATION" -> EvClassification(y, p)
      [] task = "REGRESSION" -> EvRegression(y, p)
      [] task = "FORECASTING" -> EvForecasting(y, p)
      [] task = "CLUSTERING" -> EvClustering(y, p)
      [] task = "ANOMALY_DETECTION" -> EvBinary(EvAnomalyFlags(y), EvAnomalyFlags(p))

-----------------------------------------------------------------------------
(* evaluate.py                                                             *)

EvInit ==
    /\ evDeclared \in EvTasks \cup {EvNone}
    /\ evEstimator \in {"classifier", "regressor", "clusterer", "outlier_detector", "other"}
    /\ evTask = EvNone /\ evData = EvNone /\ evVerdict = EvNone
    /\ evPred = [m \in EvModels |-> EvNone] /\ evScores = [m \in EvModels |-> EvNone]

\* task_of; then the rows that were held out.
EvTaskOf ==
    /\ evTask = EvNone /\ evVerdict = EvNone
    /\ evTask' = EvResolveTask(evDeclared, evEstimator)
    /\ IF evTask' = EvNone
       THEN evVerdict' = EvFailed /\ UNCHANGED evData
       ELSE evData' \in EvVectors /\ UNCHANGED evVerdict
    /\ evDeclared' = EvNone /\ evEstimator' = "known"
    /\ UNCHANGED <<evPred, evScores>>

\* predict, of the current model first; a model may fail to predict at all.
EvPredict(m, p) ==
    /\ evTask # EvNone /\ evVerdict = EvNone /\ evPred[m] = EvNone
    /\ m = "candidate" => evScores["current"] # EvNone
    /\ IF p = EvNone THEN evVerdict' = EvFailed /\ UNCHANGED evPred
       ELSE evPred' = [evPred EXCEPT ![m] = p] /\ UNCHANGED evVerdict
    /\ UNCHANGED <<evDeclared, evEstimator, evTask, evData, evScores>>

\* Evidently computes the primary metric of a classifier and of a regressor again.
EvEvidently(y, p, task) ==
    IF task = "CLASSIFICATION"
    THEN [accuracy |-> EvMean([i \in EvIndex |-> IF y[i] = p[i] THEN <<1, 1>> ELSE <<0, 1>>])]
    ELSE IF task \in {"REGRESSION", "FORECASTING"}
    THEN [rmse |-> EvMean([i \in EvIndex |-> <<(y[i] - p[i]) * (y[i] - p[i]), 1>>])]
    ELSE <<>>

\* score_predictions: without its primary metric a model cannot be validated.
EvScorePredictions(m) ==
    LET scores == EvOver(EvEvidently(evData, evPred[m], evTask),
                         EvComputeMetrics(evTask, evData, evPred[m]))
    IN /\ evPred[m] # EvNone /\ evScores[m] = EvNone
       /\ IF EvPrimary(evTask) \in DOMAIN scores
          THEN evScores' = [evScores EXCEPT ![m] = scores] /\ UNCHANGED evVerdict
          ELSE evVerdict' = EvFailed /\ UNCHANGED evScores
       /\ UNCHANGED <<evDeclared, evEstimator, evTask, evData, evPred>>

-----------------------------------------------------------------------------
(* gate.py                                                                 *)

\* A mutant: the labels' anomalies are counted by the detector's sign.
EvRowsBySign(metric, y, p, i) ==
    CASE metric = "accuracy" -> <<IF y[i] = p[i] THEN 1 ELSE 0>>
      [] metric = "rmse" -> <<(y[i] - p[i]) * (y[i] - p[i])>>
      [] metric = "f1" -> <<IF y[i] = -1 /\ p[i] = -1 THEN 1 ELSE 0,
                            IF y[i] # -1 /\ p[i] = -1 THEN 1 ELSE 0,
                            IF y[i] = -1 /\ p[i] # -1 THEN 1 ELSE 0>>
      [] metric = "silhouette" -> EvSilhouette(y, p, i)

\* _rows: what a row adds to the metric.
EvRows(metric, y, p, i) ==
    LET truth == EvAnomalyFlags(y)[i]
        flagged == EvAnomalyFlags(p)[i]
        One(b) == IF b THEN 1 ELSE 0
    IN CASE metric = "accuracy" -> <<One(y[i] = p[i])>>
         [] metric = "rmse" -> <<(y[i] - p[i]) * (y[i] - p[i])>>
         [] metric = "f1" -> <<One(truth /\ flagged), One(~truth /\ flagged), One(truth /\ ~flagged)>>
         [] metric = "silhouette" -> EvSilhouette(y, p, i)

\* The metric of the rows a function picks (_mean, _root_mean, _f1 of their means).
EvStat(metric, rows, pick) ==
    LET sum(k) == SumFunction([i \in DOMAIN pick |-> rows[pick[i]][k]])
        tp2 == 2 * sum(1)
    IN CASE metric = "f1" -> EvRatio(tp2, tp2 + sum(2) + sum(3))
         [] metric = "silhouette" -> EvMean([i \in DOMAIN pick |-> rows[pick[i]]])
         [] OTHER -> <<sum(1), Cardinality(DOMAIN pick)>>

EvRowsOf(m) == [i \in EvIndex |-> EvRows(EvPrimary(evTask), evData, evPred[m], i)]
EvPoint(m, rows) == EvStat(EvPrimary(evTask), EvRowsOf(m), [i \in rows |-> i])

\* sign * (a - b)
EvImprovement(metric, a, b) ==
    LET d == EvAdd(a, EvMinus(b)) IN IF EvHigherIsBetter(metric) THEN d ELSE EvMinus(d)

\* _bootstrap: the same rows of both models.
EvBootstrap ==
    LET metric == EvPrimary(evTask)
        cur == EvRowsOf("current")
        cand == EvRowsOf("candidate")
    IN {EvImprovement(metric, EvStat(metric, cand, pick), EvStat(metric, cur, pick)) :
          pick \in [EvIndex -> EvIndex]}

\* _slices: no slice with enough rows gets worse.
EvSlicesPass ==
    EvPrimary(evTask) # "silhouette" =>
        \A s \in EvSlices : Cardinality(s) >= EvSliceRows =>
            EvImprovement(EvPrimary(evTask), EvPoint("candidate", s), EvPoint("current", s))[1] >= 0

\* _metric_guards, of metrics both models have.
EvGuarded == CASE evTask = "REGRESSION" -> {"mae", "r2"} [] evTask = "FORECASTING" -> {"mae", "mase"}
               [] evTask = "ANOMALY_DETECTION" -> {"recall", "precision"} [] OTHER -> {}
EvMetricGuards ==
    \A g \in EvGuarded : g \in DOMAIN evScores["current"] \cap DOMAIN evScores["candidate"] =>
        EvImprovement(g, evScores["candidate"][g], evScores["current"][g])[1] >= 0

\* decide
EvDecide ==
    /\ evScores["candidate"] # EvNone /\ evVerdict = EvNone
    /\ \E low \in EvBootstrap, mode \in {"superiority", "non-inferiority"} :
          evVerdict' = [mode |-> mode,
                        accept |-> /\ IF mode = "superiority" THEN low[1] > 0 ELSE low[1] >= 0
                                   /\ EvSlicesPass /\ EvMetricGuards]
    /\ UNCHANGED <<evDeclared, evEstimator, evTask, evData, evPred, evScores>>

EvNext ==
    \/ EvTaskOf \/ EvDecide
    \/ \E m \in EvModels : EvScorePredictions(m) \/ \E p \in EvVectors \cup {EvNone} : EvPredict(m, p)

EvSpec == EvInit /\ [][EvNext]_evVars

-----------------------------------------------------------------------------
(* Properties                                                              *)

\* What a row's label says, however the gate reads it.
EvRight(y, p, i) == IF evTask = "ANOMALY_DETECTION" THEN (y[i] = 1) = (p[i] = -1) ELSE y[i] = p[i]
EvNoWorseOn(a, b, i) ==
    IF evTask \in {"REGRESSION", "FORECASTING"}
    THEN EvAbs(evData[i] - evPred[a][i]) <= EvAbs(evData[i] - evPred[b][i])
    ELSE EvRight(evData, evPred[b], i) => EvRight(evData, evPred[a], i)
EvNoWorse(a, b) == \A i \in EvIndex : EvNoWorseOn(a, b, i)

\* The number the gate tests is the number that is recorded and that reuse
\* compares: the per-row form of a metric and its library form agree on every
\* data set on which the metric is defined (gate.py _rows, _point; metrics.py
\* compute_metrics; evaluate.py score_predictions).
EvSameMeasure ==
    \A m \in EvModels : evScores[m] # EvNone =>
        EvEqual(evScores[m][EvPrimary(evTask)], EvPoint(m, EvIndex))

\* Whatever rows the bootstrap draws, a candidate that is at least as good on
\* every held-out row is not rejected as inferior, by a slice or by a guarded
\* metric, and one that is better on none is not accepted as superior; anomalies
\* are labelled 1 and normal rows 0, and predicted -1 and 1 (gate.py decide).
EvGateIsFair ==
    evTask # "CLUSTERING"
    /\ (evTask = "ANOMALY_DETECTION" =>
          /\ \A i \in EvIndex : evData[i] \in {0, 1}
          /\ \A m \in EvModels, i \in EvIndex : evPred[m] # EvNone => evPred[m][i] \in {-1, 1}) =>
       /\ evVerdict = [mode |-> "non-inferiority", accept |-> FALSE] =>
             ~EvNoWorse("candidate", "current")
       /\ evVerdict = [mode |-> "superiority", accept |-> TRUE] =>
             ~EvNoWorse("current", "candidate")

\* Models are judged by what they predict.
EvMeasures == EvSameMeasure /\ EvGateIsFair
=============================================================================
