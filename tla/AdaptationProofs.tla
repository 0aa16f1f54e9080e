-------------------------- MODULE AdaptationProofs --------------------------
(***************************************************************************)
(* Safety of the adaptation pipeline, of the rows of a job, of the guard   *)
(* of the LLM calls and of how models are scored and compared, for any     *)
(* number of jobs, versions, rows, callers and faults.                     *)
(***************************************************************************)
EXTENDS Adaptation, TrainingData, LlmGuard, Evaluation, FiniteSetTheorems, WellFoundedInduction,
        TLAPS

-----------------------------------------------------------------------------
(* The invariant of the pipeline.                                          *)

Registered == [value : Nat, fits : BOOLEAN, by : Jobs \union {None}]
MaybeVersion == Nat \union {None}

Scoring    == {"evaluate", "clean", "decide"}
Adapting   == {"adapt", "validate"}
Judged     == {"register", "snapshot", "deliver", "promote", "alias", "commit"}
Delivering == Judged \ {"register"}

Runs == [pc : {"stale", "waits", "analyze", "noAction"} \union Scoring \union Adapting \union Judged,
         job : Jobs, live : MaybeVersion, base : MaybeVersion, judged : MaybeVersion, value : Nat,
         strategy : {"FINE_TUNING", "FULL_RETRAINING", None},
         note : {"none", "native", "generated", "retrained"},
         new : MaybeVersion, key : {"reuse", "promote", None}, from : MaybeVersion,
         evaluated : SUBSET Nat, scorable : BOOLEAN]

AdaptationTypeOK ==
    /\ world \in Worlds /\ versions \in Seq(Registered)
    /\ live \in Known \union {None} /\ links \in Seq(Nat)
    /\ run = Idle \/ run \in Runs
    /\ queued \subseteq Jobs
    /\ tries \in [Jobs -> Nat] /\ faults \in Nat /\ moves \in Nat
    /\ DOMAIN result = Jobs

\* The attempt works on a version that exists, as soon as it adapts or reuses one, and names a
\* version to deliver that exists.
RunFits ==
    run # Idle =>
        /\ run.live \in Known \union {None}
        /\ run.pc \in {"evaluate"} \union Adapting \union Judged => run.live \in Known
        /\ run.pc \in Delivering => run.new \in Known
        /\ run.pc \in Adapting => run.strategy \in {"FINE_TUNING", "FULL_RETRAINING"}

\* What is to be delivered was judged against the version that was live when the attempt began.
JudgedAgainstLive ==
    /\ run # Idle /\ run.pc \in Judged => run.judged = run.live
    /\ run # Idle /\ run.pc \in {"alias", "commit"} => run.from = run.live
    /\ run # Idle /\ run.pc = "alias" /\ moves = 0 => live = run.live
    /\ \A p \in promoted : p.from = p.judged

\* ... and is not worse.
NotWorse ==
    /\ run # Idle /\ run.pc = "register" => Gain(run.value, versions[run.live].value) >= 0
    /\ run # Idle /\ run.pc \in Delivering =>
          Gain(versions[run.new].value, versions[run.live].value) >= 0
    /\ rollout # None =>
          /\ rollout.from \in Known /\ rollout.to \in Known
          /\ Gain(versions[rollout.to].value, versions[rollout.from].value) >= 0

\* A version that a job registered has its own training link, unless it is about to get it or an
\* attempt died.
LinkedOrLost ==
    \A v \in Known : versions[v].by # None /\ faults = 0 =>
        v \in ToSet(links) \/ (run # Idle /\ run.pc = "snapshot" /\ run.new = v)

\* A job runs, waits or has its result; its rows are those of its attempts that ended.
RowsOf(j) == {p \in promoted : p.key[1] = j}
JobsApart ==
    /\ run # Idle => run.job \notin queued /\ result[run.job] = None /\ tries[run.job] > 0
    /\ \A j \in queued : result[j] = None
    /\ \A j \in Jobs : tries[j] = 0 => RowsOf(j) = {}
    /\ run # Idle /\ tries[run.job] = 1 => RowsOf(run.job) = {}

AdaptationInv ==
    /\ AdaptationTypeOK /\ RunFits /\ JudgedAgainstLive /\ NotWorse /\ LinkedOrLost /\ JobsApart
    /\ BaselineIsLives /\ ReportsAreRight

-----------------------------------------------------------------------------
(* Facts about the model's operators.                                      *)

\* Every set of natural numbers has a least element, which is what induction needs.
LEMMA LeastNat ==
  ASSUME NEW T, T \subseteq Nat, T # {}
  PROVE  \E x \in T : \A y \in T : x <= y
<1>1. PICK x \in T : \A y \in T : ~(<<y, x>> \in OpToRel(<, Nat))
  BY WFMin, NatLessThanWellFounded, Zenon
<1>2. \A y \in T : ~(y < x)
  BY <1>1 DEF OpToRel
<1> QED BY <1>2

\* Of finitely many versions one is the best, the newest of equals: by induction on the number of
\* versions looked at.
LEMMA BestExists ==
  ASSUME NEW n \in Nat, NEW f \in [1 .. n -> Int], NEW E, E \subseteq 1 .. n, E # {}
  PROVE  \E v \in E : \A w \in E : f[v] > f[w] \/ (f[v] = f[w] /\ v >= w)
<1> DEFINE Up(m) == E \intersect (1 .. m)
           HasBest(m) == \E v \in Up(m) : \A w \in Up(m) : f[v] > f[w] \/ (f[v] = f[w] /\ v >= w)
           Bad == {m \in 0 .. n : Up(m) # {} /\ ~HasBest(m)}
<1> HIDE DEF Up, HasBest, Bad
<1>1. Bad = {}
  <2> SUFFICES ASSUME Bad # {} PROVE FALSE
    OBVIOUS
  <2>1. PICK m \in Bad : \A k \in Bad : m <= k
    <3>1. Bad \subseteq Nat
      BY DEF Bad
    <3> QED BY <3>1, LeastNat
  <2>2. m \in 0 .. n /\ Up(m) # {} /\ ~HasBest(m)
    BY DEF Bad
  <2>3. m \in 1 .. n /\ m - 1 \in 0 .. n
    BY <2>2 DEF Up
  <2>4. Up(m - 1) = {} \/ HasBest(m - 1)
    <3>1. m - 1 \notin Bad
      BY <2>1, <2>3
    <3> QED BY <2>3, <3>1 DEF Bad
  <2>5. Up(m) = Up(m - 1) \union (E \intersect {m})
    BY <2>3 DEF Up
  <2>6. CASE m \notin E
    <3>1. Up(m) = Up(m - 1)
      BY <2>5, <2>6
    <3>2. HasBest(m)
      BY <2>2, <2>4, <3>1 DEF HasBest
    <3> QED BY <2>2, <3>2
  <2>7. CASE m \in E /\ Up(m - 1) = {}
    <3>1. Up(m) = {m} /\ f[m] \in Int
      BY <2>3, <2>5, <2>7
    <3>2. HasBest(m)
      BY <2>3, <3>1 DEF HasBest
    <3> QED BY <2>2, <3>2
  <2>8. CASE m \in E /\ HasBest(m - 1)
    <3>1. PICK v \in Up(m - 1) : \A w \in Up(m - 1) : f[v] > f[w] \/ (f[v] = f[w] /\ v >= w)
      BY <2>8 DEF HasBest
    <3>2. Up(m) = Up(m - 1) \union {m}
      BY <2>5, <2>8
    <3>3. \A w \in Up(m - 1) : w < m /\ w \in 1 .. n /\ f[w] \in Int
      BY <2>3 DEF Up
    <3>4. HasBest(m)
      <4>1. CASE f[m] >= f[v]
        <5>1. \A w \in Up(m) : f[m] > f[w] \/ (f[m] = f[w] /\ m >= w)
          BY <2>3, <3>1, <3>2, <3>3, <4>1
        <5> QED BY <3>2, <5>1 DEF HasBest
      <4>2. CASE ~(f[m] >= f[v])
        <5>1. \A w \in Up(m) : f[v] > f[w] \/ (f[v] = f[w] /\ v >= w)
          BY <2>3, <3>1, <3>2, <3>3, <4>2
        <5> QED BY <3>1, <3>2, <5>1 DEF HasBest
      <4> QED BY <4>1, <4>2
    <3> QED BY <2>2, <3>4
  <2> QED BY <2>4, <2>6, <2>7, <2>8
<1>2. Up(n) = E
  BY DEF Up
<1>3. HasBest(n)
  BY <1>1, <1>2 DEF Bad
<1> QED BY <1>2, <1>3 DEF HasBest

\* The attempt's record is complete while it runs.
LEMMA RunTyped ==
  ASSUME AdaptationTypeOK, run.pc # "idle"
  PROVE  run \in Runs /\ run # Idle
<1>1. Idle.pc = "idle"
  BY DEF Idle
<1> QED BY <1>1 DEF AdaptationTypeOK

\* What the registry holds.
LEMMA VersionsTyped ==
  ASSUME AdaptationTypeOK
  PROVE  /\ Len(versions) \in Nat /\ Known = 1 .. Len(versions) /\ Known \subseteq Nat
         /\ \A v \in Known : versions[v] \in Registered /\ versions[v].value \in Nat
<1>1. versions \in Seq(Registered)
  BY DEF AdaptationTypeOK
<1>2. Len(versions) \in Nat /\ \A v \in 1 .. Len(versions) : versions[v] \in Registered
  BY <1>1
<1> QED BY <1>2 DEF Known, Registered

\* decide_reuse picks a version that beats LIVE.
LEMMA BestIsEligible ==
  ASSUME AdaptationTypeOK, NEW l \in Nat, Eligible(l) # {}
  PROVE  Best(Eligible(l), l) \in Eligible(l)
<1> DEFINE E == Eligible(l)
           f == [v \in 1 .. Len(versions) |-> Gain(versions[v].value, l)]
<1>1. /\ Len(versions) \in Nat /\ E \subseteq 1 .. Len(versions)
      /\ \A v \in 1 .. Len(versions) : versions[v].value \in Nat
  BY VersionsTyped DEF Eligible, Candidates
<1>2. world.higher \in BOOLEAN
  BY AdaptationConstants DEF AdaptationTypeOK
<1>3. f \in [1 .. Len(versions) -> Int]
  BY <1>1, <1>2 DEF Gain
<1>4. \E v \in E : \A w \in E : f[v] > f[w] \/ (f[v] = f[w] /\ v >= w)
  <2> HIDE DEF E, f
  <2> QED BY <1>1, <1>3, BestExists DEF E
<1>5. \E v \in E : \A w \in E : Gain(versions[v].value, l) > Gain(versions[w].value, l)
         \/ (Gain(versions[v].value, l) = Gain(versions[w].value, l) /\ v >= w)
  BY <1>1, <1>4
<1> QED BY <1>5 DEF Best

\* Adding a version keeps the others.
LEMMA RegisterKeeps ==
  ASSUME AdaptationTypeOK, NEW e \in Registered, versions' = Append(versions, e)
  PROVE  /\ versions' \in Seq(Registered) /\ Len(versions') = Len(versions) + 1
         /\ Known' = Known \union {Len(versions) + 1} /\ Len(versions) + 1 \notin Known
         /\ versions'[Len(versions) + 1] = e
         /\ \A v \in Known : versions'[v] = versions[v]
<1>1. versions \in Seq(Registered) /\ Len(versions) \in Nat
  BY DEF AdaptationTypeOK
<1>2. Len(versions') = Len(versions) + 1 /\ versions' \in Seq(Registered)
  BY <1>1
<1>3. \A v \in 1 .. Len(versions) : versions'[v] = versions[v]
  BY <1>1
<1>4. versions'[Len(versions) + 1] = e
  BY <1>1
<1> QED BY <1>1, <1>2, <1>3, <1>4 DEF Known

-----------------------------------------------------------------------------
(* Types and the versions an attempt names.                                *)

\* What a step of an attempt can change, and which step changes it.
LEMMA AttemptShape ==
  ASSUME AdaptationTypeOK, Attempt
  PROVE  /\ run \in Runs /\ run # Idle
         /\ UNCHANGED <<world, event, queued, tries, moves>>
         /\ UNCHANGED versions \/ Register
         /\ UNCHANGED links \/ Snapshot
         /\ UNCHANGED live \/ SetAlias \/ PromotionFails
         /\ UNCHANGED promoted \/ CommitPromotion
         /\ UNCHANGED rollout \/ Deliver
         /\ UNCHANGED faults \/ (PromotionFails /\ faults' = faults + 1)
         /\ UNCHANGED result \/ (run' = Idle /\ \E o, s : Ends(o, s))
<1> USE DEF Registry, Records, Bounds, Book, At, Goto
<1>0. run.pc # "idle"
  BY DEF Attempt, Refuse, Analyze, NoAction, Clean, EvaluateVersions, Decide, Adapt, Validate,
     Register, Snapshot, Deliver, PromoteChecks, SetAlias, CommitPromotion, PromotionFails
<1>1. run \in Runs /\ run # Idle
  BY <1>0, RunTyped
<1>2. UNCHANGED <<world, event, queued, tries, moves>>
  BY DEF Attempt, Refuse, Analyze, NoAction, Clean, EvaluateVersions, Decide, Adapt, Validate,
     Register, Snapshot, Deliver, PromoteChecks, SetAlias, CommitPromotion, PromotionFails, Ends
<1>3. /\ UNCHANGED versions \/ Register
      /\ UNCHANGED links \/ Snapshot
      /\ UNCHANGED live \/ SetAlias \/ PromotionFails
  BY DEF Attempt, Refuse, Analyze, NoAction, Clean, EvaluateVersions, Decide, Adapt, Validate,
     Register, Snapshot, Deliver, PromoteChecks, SetAlias, CommitPromotion, PromotionFails
<1>4. /\ UNCHANGED promoted \/ CommitPromotion
      /\ UNCHANGED rollout \/ Deliver
      /\ UNCHANGED faults \/ (PromotionFails /\ faults' = faults + 1)
  BY DEF Attempt, Refuse, Analyze, NoAction, Clean, EvaluateVersions, Decide, Adapt, Validate,
     Register, Snapshot, Deliver, PromoteChecks, SetAlias, CommitPromotion, PromotionFails
<1>5. UNCHANGED result \/ \E o, s : Ends(o, s)
  BY DEF Attempt, Refuse, Analyze, NoAction, Clean, EvaluateVersions, Decide, Adapt, Validate,
     Register, Snapshot, Deliver, PromoteChecks, SetAlias, CommitPromotion, PromotionFails
<1>6. \A o, s : Ends(o, s) => run' = Idle
  BY DEF Ends
<1> QED BY <1>1, <1>2, <1>3, <1>4, <1>5, <1>6

\* The record of an attempt keeps its type through each of its steps, and names versions that
\* exist.
LEMMA RunStep ==
  ASSUME AdaptationTypeOK, RunFits, Attempt
  PROVE  (run' = Idle \/ run' \in Runs) /\ RunFits'
<1> USE DEF Registry, Records, Bounds, Book, At, Goto, Ends
<1>0. /\ run \in Runs /\ run # Idle /\ run.live \in Known \union {None} /\ live \in Known \union {None}
      /\ Known \subseteq Nat /\ None \notin Nat
  <2>1. run.pc # "idle"
    BY DEF Attempt, Refuse, Analyze, NoAction, Clean, EvaluateVersions, Decide, Adapt, Validate,
       Register, Snapshot, Deliver, PromoteChecks, SetAlias, CommitPromotion, PromotionFails
  <2> QED BY <2>1, RunTyped, VersionsTyped, AdaptationConstants DEF RunFits, AdaptationTypeOK
<1>i. CASE run' = Idle
  BY <1>i DEF RunFits
<1>1. CASE run' # Idle
  <2>u. ASSUME UNCHANGED versions
        PROVE  Known' = Known
    BY <2>u DEF Known
  <2>1. ASSUME NEW n \in BOOLEAN, NEW o \in BOOLEAN, NEW r \in BOOLEAN, Analyze(n, o, r)
        PROVE  run' \in Runs /\ RunFits'
    <3>1. HistoricalVersion(run.live) \in MaybeVersion
      <4>1. links \in Seq(Nat)
        BY DEF AdaptationTypeOK
      <4>2. LatestAssociation \in MaybeVersion
        BY <4>1 DEF LatestAssociation, Last, MaybeVersion
      <4> QED BY <1>0, <4>2 DEF HistoricalVersion, MaybeVersion
    <3>2. \E b \in MaybeVersion : \E pc \in {"noAction", "clean"} :
             run' = [run EXCEPT !.base = b, !.pc = pc]
      BY <2>1, <3>1 DEF Analyze, RetrieveContext
    <3>3. Known' = Known
      BY <2>1, <2>u DEF Analyze
    <3> QED BY <1>0, <3>2, <3>3 DEF Runs, RunFits, Scoring, Adapting, Judged, Delivering
  <2>2. ASSUME NEW e \in BOOLEAN, Clean(e)
        PROVE  run' \in Runs /\ RunFits'
    <3>1. \/ run' = [run EXCEPT !.pc = "evaluate", !.scorable = e] /\ run.live # None
          \/ run' = [run EXCEPT !.pc = "decide", !.scorable = e]
      BY <2>2 DEF Clean
    <3>2. Known' = Known
      BY <2>2, <2>u DEF Clean
    <3>3. run' \in Runs
      <4>1. \A pc \in Scoring : [run EXCEPT !.pc = pc, !.scorable = e] \in Runs
        BY <1>0 DEF Runs
      <4> QED BY <3>1, <4>1 DEF Scoring
    <3>4. /\ run'.live = run.live /\ run'.pc \in {"evaluate", "decide"}
          /\ run'.pc = "evaluate" => run.live # None
      BY <1>0, <3>1 DEF Runs
    <3> QED BY <1>0, <3>2, <3>3, <3>4 DEF RunFits, Adapting, Judged, Delivering
  <2>3. CASE EvaluateVersions
    <3>0. run.live \in Known /\ versions[run.live].value \in Nat
      BY <1>0, <2>3, VersionsTyped DEF EvaluateVersions, RunFits
    <3>1. \/ /\ Eligible(versions[run.live].value) # {}
             /\ run' = [run EXCEPT !.pc = "promote",
                                   !.new = Best(Eligible(versions[run.live].value),
                                                versions[run.live].value),
                                   !.judged = run.live, !.key = "reuse"]
          \/ run' = [run EXCEPT !.pc = "decide", !.evaluated = Candidates]
      BY <2>3 DEF EvaluateVersions
    <3>2. Known' = Known
      BY <2>3, <2>u DEF EvaluateVersions
    <3>3. CASE run' = [run EXCEPT !.pc = "decide", !.evaluated = Candidates]
      <4>1. Candidates \in SUBSET Nat
        BY <1>0 DEF Candidates
      <4> QED BY <1>0, <3>2, <3>3, <4>1 DEF Runs, RunFits, Scoring, Adapting, Judged, Delivering
    <3>4. CASE \E b \in Known : run' = [run EXCEPT !.pc = "promote", !.new = b,
                                                   !.judged = run.live, !.key = "reuse"]
      <4>1. PICK b \in Known : run' = [run EXCEPT !.pc = "promote", !.new = b,
                                                 !.judged = run.live, !.key = "reuse"]
        BY <3>4
      <4>2. run' \in Runs
        BY <1>0, <3>0, <4>1 DEF Runs, Judged, MaybeVersion
      <4>3. run'.live = run.live /\ run'.pc = "promote" /\ run'.new = b
        BY <1>0, <4>1 DEF Runs
      <4> QED BY <3>0, <3>2, <4>2, <4>3 DEF RunFits, Adapting, Judged, Delivering
    <3> QED BY <3>0, <3>1, <3>3, <3>4, BestIsEligible DEF Eligible, Candidates
  <2>4. ASSUME NEW s \in Strategies, NEW f \in BOOLEAN, Decide(s, f)
        PROVE  run' \in Runs /\ RunFits'
    <3>1. \/ run' = [run EXCEPT !.pc = "noAction"]
          \/ \E t \in {"FINE_TUNING", "FULL_RETRAINING"} : \E l \in Known :
               run' = [run EXCEPT !.pc = "adapt", !.strategy = t, !.live = l]
      <4>1. CASE run' = [run EXCEPT !.pc = "noAction"]
        BY <4>1
      <4>2. CASE /\ Select(s) \in {"FINE_TUNING", "FULL_RETRAINING"}
                 /\ ~(run.live = None /\ live = None)
                 /\ run' = [run EXCEPT !.pc = "adapt", !.strategy = Select(s),
                                       !.live = IF run.live = None THEN live ELSE run.live]
        <5>1. (IF run.live = None THEN live ELSE run.live) \in Known
          BY <1>0, <4>2
        <5> QED BY <4>2, <5>1
      <4> QED BY <2>4, <4>1, <4>2 DEF Decide
    <3>2. Known' = Known
      BY <2>4, <2>u DEF Decide
    <3>3. run' \in Runs
      <4>1. [run EXCEPT !.pc = "noAction"] \in Runs
        BY <1>0 DEF Runs
      <4>2. ASSUME NEW t \in {"FINE_TUNING", "FULL_RETRAINING"}, NEW l \in Known
            PROVE  [run EXCEPT !.pc = "adapt", !.strategy = t, !.live = l] \in Runs
        <5>1. l \in MaybeVersion
          BY <1>0 DEF MaybeVersion
        <5> QED BY <1>0, <5>1 DEF Runs, Adapting
      <4> QED BY <3>1, <4>1, <4>2
    <3>4. \/ run'.pc = "noAction" /\ run'.live = run.live
          \/ run'.pc = "adapt" /\ run'.live \in Known
               /\ run'.strategy \in {"FINE_TUNING", "FULL_RETRAINING"}
      BY <1>0, <3>1 DEF Runs
    <3> QED BY <1>0, <3>2, <3>3, <3>4 DEF RunFits, Adapting, Judged, Delivering
  <2>5. ASSUME NEW w \in BOOLEAN, NEW v \in Values, Adapt(w, v)
        PROVE  run' \in Runs /\ RunFits'
    <3>1. \E how \in {"native", "generated", "retrained"} :
            run' = [run EXCEPT !.pc = "validate", !.value = v, !.note = how]
      BY <1>1, <2>5 DEF Adapt, Produced
    <3>2. Known' = Known /\ run.pc = "adapt" /\ v \in Nat
      BY <2>5, <2>u, AdaptationConstants DEF Adapt
    <3> QED BY <1>0, <3>1, <3>2 DEF Runs, RunFits, Scoring, Adapting, Judged, Delivering
  <2>6. ASSUME NEW s, NEW g, NEW m, Validate(s, g, m)
        PROVE  run' \in Runs /\ RunFits'
    <3>1. run' = [run EXCEPT !.pc = "register", !.judged = run.live] /\ run.pc = "validate"
      BY <1>1, <2>6 DEF Validate
    <3>2. Known' = Known
      BY <2>6, <2>u DEF Validate
    <3> QED BY <1>0, <3>1, <3>2 DEF Runs, RunFits, Scoring, Adapting, Judged, Delivering
  <2>7. CASE Register
    <3>1. run' = [run EXCEPT !.pc = "snapshot", !.new = Len(versions) + 1] /\ run.pc = "register"
      BY <2>7 DEF Register
    <3>2. Known' = Known \union {Len(versions) + 1} /\ Len(versions) + 1 \in Nat
      <4>1. [value |-> run.value, fits |-> TRUE, by |-> run.job] \in Registered
        BY <1>0 DEF Runs, Registered
      <4> QED BY <2>7, <4>1, RegisterKeeps, VersionsTyped DEF Register
    <3>3. run' \in Runs
      BY <1>0, <3>1, <3>2 DEF Runs, MaybeVersion, Judged
    <3>4. run'.live = run.live /\ run'.pc = "snapshot" /\ run'.new = Len(versions) + 1
      BY <1>0, <3>1 DEF Runs
    <3> QED BY <1>0, <3>1, <3>2, <3>3, <3>4 DEF RunFits, Adapting, Judged, Delivering
  <2>8. CASE Snapshot
    <3>1. /\ \E pc \in {"promote", "deliver"} : run' = [run EXCEPT !.pc = pc, !.key = "promote"]
          /\ run.pc = "snapshot"
      BY <2>8 DEF Snapshot
    <3>2. Known' = Known
      BY <2>8, <2>u DEF Snapshot
    <3> QED BY <1>0, <3>1, <3>2 DEF Runs, RunFits, Scoring, Adapting, Judged, Delivering
  <2>9. CASE PromoteChecks
    <3>1. run' = [run EXCEPT !.pc = "alias", !.from = live] /\ run.pc = "promote"
      BY <1>1, <2>9 DEF PromoteChecks
    <3>2. Known' = Known
      BY <2>9, <2>u DEF PromoteChecks
    <3> QED BY <1>0, <3>1, <3>2 DEF Runs, RunFits, Scoring, Adapting, Judged, Delivering,
        MaybeVersion
  <2>10. CASE SetAlias
    <3>1. run' = [run EXCEPT !.pc = "commit"] /\ run.pc = "alias"
      BY <2>10 DEF SetAlias
    <3>2. Known' = Known
      BY <2>10, <2>u DEF SetAlias
    <3> QED BY <1>0, <3>1, <3>2 DEF Runs, RunFits, Scoring, Adapting, Judged, Delivering
  <2> QED BY <1>1, <2>1, <2>2, <2>3, <2>4, <2>5, <2>6, <2>7, <2>8, <2>9, <2>10
          DEF Attempt, Refuse, NoAction, Deliver, CommitPromotion, PromotionFails
<1> QED BY <1>i, <1>1

\* A new version, and none lost.
LEMMA VersionsGrow ==
  ASSUME AdaptationTypeOK, Attempt
  PROVE  /\ versions' \in Seq(Registered) /\ Known \subseteq Known'
         /\ \A v \in Known : versions'[v] = versions[v]
         /\ \A v \in Known' : v \in Known \/ (Register /\ v = Len(versions) + 1)
         /\ Register => /\ versions'[Len(versions) + 1].value = run.value
                        /\ Len(versions) + 1 \in Known'
<1>1. CASE UNCHANGED versions /\ ~Register
  BY <1>1 DEF Known, AdaptationTypeOK
<1>2. CASE Register
  <2>1. [value |-> run.value, fits |-> TRUE, by |-> run.job] \in Registered
    BY AttemptShape DEF Runs, Registered
  <2>2. versions' = Append(versions, [value |-> run.value, fits |-> TRUE, by |-> run.job])
    BY <1>2 DEF Register
  <2>3. /\ versions' \in Seq(Registered)
        /\ Known' = Known \union {Len(versions) + 1}
        /\ versions'[Len(versions) + 1] = [value |-> run.value, fits |-> TRUE, by |-> run.job]
        /\ \A v \in Known : versions'[v] = versions[v]
    BY <2>1, <2>2, RegisterKeeps
  <2>4. versions'[Len(versions) + 1].value = run.value
    BY <2>3
  <2> QED BY <1>2, <2>3, <2>4
<1> QED BY <1>1, <1>2, AttemptShape

\* A starting attempt.
LEMMA StartStep ==
  ASSUME AdaptationTypeOK, NEW j \in Jobs, Start(j)
  PROVE  /\ run = Idle /\ j \in queued /\ run' \in Runs /\ run'.job = j /\ run'.live = live
         /\ run'.pc \in {"stale", "waits", "analyze"}
         /\ queued' = queued \ {j} /\ tries' = [tries EXCEPT ![j] = @ + 1]
         /\ UNCHANGED <<world, event, result, versions, live, links, promoted, rollout, faults, moves>>
<1> USE DEF Registry, Records, Bounds
<1>0. live \in MaybeVersion
  BY VersionsTyped DEF AdaptationTypeOK, MaybeVersion
<1>1. \E pc \in {"stale", "waits", "analyze"} :
        run' = [pc |-> pc, job |-> j, live |-> live, base |-> None, judged |-> None, value |-> 0,
                strategy |-> None, note |-> "none", new |-> None, key |-> None, from |-> None,
                evaluated |-> {}, scorable |-> FALSE]
  BY DEF Start
<1>2. run' \in Runs /\ run'.job = j /\ run'.live = live /\ run'.pc \in {"stale", "waits", "analyze"}
  BY <1>0, <1>1 DEF Runs, MaybeVersion
<1> QED BY <1>2 DEF Start

\* Every step keeps the types and the versions the attempt names.
LEMMA AdaptationTypes ==
  ASSUME AdaptationTypeOK, RunFits, JudgedAgainstLive, NotWorse, [AdaptationNext]_adaptationVars
  PROVE  AdaptationTypeOK' /\ RunFits'
<1> USE DEF Registry, Records, Bounds, Book
<1>0. Known \subseteq Nat /\ None \notin Nat /\ links \in Seq(Nat) /\ versions \in Seq(Registered)
  BY VersionsTyped, AdaptationConstants DEF AdaptationTypeOK
<1>1. ASSUME NEW j \in Jobs, Start(j)
      PROVE  AdaptationTypeOK' /\ RunFits'
  <2>1. Known' = Known
    BY <1>1, StartStep DEF Known
  <2>2. tries' \in [Jobs -> Nat]
    BY <1>1, StartStep DEF AdaptationTypeOK
  <2>3. AdaptationTypeOK'
    BY <1>1, <2>1, <2>2, StartStep DEF AdaptationTypeOK
  <2>4. run'.live = live /\ run'.pc \in {"stale", "waits", "analyze"}
    BY <1>1, StartStep
  <2>5. live \in Known \union {None}
    BY DEF AdaptationTypeOK
  <2> QED BY <2>1, <2>3, <2>4, <2>5 DEF RunFits, Adapting, Judged, Delivering
<1>2. CASE Attempt
  <2>1. (run' = Idle \/ run' \in Runs) /\ RunFits'
    BY <1>2, RunStep
  <2>2. live' \in Known' \union {None}
    <3>0. run \in Runs /\ run # Idle
      BY <1>2, AttemptShape
    <3>1. CASE UNCHANGED live
      BY <1>2, <3>1, VersionsGrow DEF AdaptationTypeOK
    <3>2. CASE SetAlias
      <4>1. run.new \in Known
        BY <3>0, <3>2 DEF SetAlias, At, RunFits, Delivering, Judged
      <4> QED BY <1>2, <3>2, <4>1, VersionsGrow DEF SetAlias
    <3>3. CASE PromotionFails
      <4>1. run.from \in Known
        BY <3>0, <3>3 DEF PromotionFails, At, RunFits, JudgedAgainstLive, Judged
      <4> QED BY <1>2, <3>3, <4>1, VersionsGrow DEF PromotionFails
    <3> QED BY <1>2, <3>1, <3>2, <3>3, AttemptShape
  <2>3. links' \in Seq(Nat)
    <3>1. CASE Snapshot
      <4>1. run.new \in Nat
        BY <1>0, <1>2, <3>1, AttemptShape DEF Snapshot, At, RunFits, Delivering, Judged
      <4> QED BY <1>0, <3>1, <4>1 DEF Snapshot
    <3> QED BY <1>0, <1>2, <3>1, AttemptShape
  <2>4. DOMAIN result' = Jobs
    BY <1>2, AttemptShape DEF Ends, AdaptationTypeOK
  <2>5. faults' \in Nat
    BY <1>2, AttemptShape DEF AdaptationTypeOK
  <2> QED BY <1>2, <2>1, <2>2, <2>3, <2>4, <2>5, AttemptShape, VersionsGrow DEF AdaptationTypeOK
<1>3. CASE Die
  <2>1. Known' = Known /\ run' = Idle /\ run \in Runs /\ run.job \in Jobs
    BY <1>3 DEF Die, Known, AdaptationTypeOK, Runs
  <2>2. queued' \subseteq Jobs /\ faults' \in Nat
    BY <1>3, <2>1 DEF Die, AdaptationTypeOK
  <2> QED BY <1>3, <2>1, <2>2 DEF Die, AdaptationTypeOK, RunFits
<1>4. ASSUME NEW w \in BOOLEAN, RolloutEnds(w)
      PROVE  AdaptationTypeOK' /\ RunFits'
  <2>1. Known' = Known /\ run' = Idle
    BY <1>4 DEF RolloutEnds, Known
  <2>2. live' \in Known \union {None}
    BY <1>4 DEF RolloutEnds, NotWorse, AdaptationTypeOK
  <2> QED BY <1>4, <2>1, <2>2 DEF RolloutEnds, AdaptationTypeOK, RunFits
<1>5. ASSUME NEW v \in Known, MoveLive(v)
      PROVE  AdaptationTypeOK' /\ RunFits'
  <2>1. Known' = Known /\ live' \in Known /\ moves' \in Nat
    BY <1>5 DEF MoveLive, Known, AdaptationTypeOK
  <2> QED BY <1>5, <2>1 DEF MoveLive, AdaptationTypeOK, RunFits
<1>6. CASE UNCHANGED adaptationVars
  BY <1>6 DEF adaptationVars, AdaptationTypeOK, RunFits, Known
<1> QED BY <1>1, <1>2, <1>3, <1>4, <1>5, <1>6 DEF AdaptationNext

-----------------------------------------------------------------------------
(* What replaces LIVE.                                                     *)

\* What is delivered was judged against what it replaces.
LEMMA JudgedStep ==
  ASSUME AdaptationTypeOK, RunFits, JudgedAgainstLive, [AdaptationNext]_adaptationVars
  PROVE  JudgedAgainstLive'
<1> USE DEF Registry, Records, Bounds, Book
<1>1. ASSUME NEW j \in Jobs, Start(j)
      PROVE  JudgedAgainstLive'
  BY <1>1, StartStep DEF JudgedAgainstLive, Judged
<1>2. CASE Attempt
  <2> USE DEF At, Goto
  <2>0. run \in Runs /\ run # Idle /\ UNCHANGED moves
    BY <1>2, AttemptShape
  <2>p. \A p \in promoted' : p.from = p.judged
    <3>1. CASE CommitPromotion
      <4>1. run.from = run.judged
        BY <2>0, <3>1 DEF CommitPromotion, JudgedAgainstLive, Judged
      <4> QED BY <3>1, <4>1 DEF CommitPromotion, JudgedAgainstLive
    <3> QED BY <1>2, <3>1, AttemptShape DEF JudgedAgainstLive
  <2>i. CASE run' = Idle
    BY <2>i, <2>p DEF JudgedAgainstLive
  <2>1. CASE run' # Idle /\ run'.pc \notin Judged
    BY <2>p, <2>1 DEF JudgedAgainstLive, Judged
  <2>2. CASE EvaluateVersions
    <3>1. \/ run'.pc = "decide"
          \/ run'.pc = "promote" /\ run'.judged = run.live /\ run'.live = run.live
      BY <2>0, <2>2 DEF EvaluateVersions, Runs
    <3> QED BY <2>p, <3>1 DEF JudgedAgainstLive, Judged
  <2>3. ASSUME NEW s, NEW g, NEW m, Validate(s, g, m)
        PROVE  JudgedAgainstLive'
    <3>1. CASE run' = [run EXCEPT !.pc = "register", !.judged = run.live]
      <4>1. run'.pc = "register" /\ run'.judged = run.live /\ run'.live = run.live
        BY <2>0, <3>1 DEF Runs
      <4> QED BY <2>p, <4>1 DEF JudgedAgainstLive
    <3> QED BY <2>3, <2>i, <3>1 DEF Validate, Ends
  <2>4. CASE Register \/ Snapshot
    <3>1. /\ run'.pc \in {"snapshot", "promote", "deliver"} /\ run.pc \in Judged
          /\ run'.judged = run.judged /\ run'.live = run.live
      BY <2>0, <2>4 DEF Register, Snapshot, Runs, Judged
    <3> QED BY <2>0, <2>p, <3>1 DEF JudgedAgainstLive
  <2>5. CASE PromoteChecks
    <3>1. CASE ~LiveMoved /\ run' = [run EXCEPT !.pc = "alias", !.from = live] /\ UNCHANGED live
      <4>1. /\ run'.pc = "alias" /\ run'.from = live /\ run'.judged = run.judged
            /\ run'.live = run.live /\ live = run.live
        BY <2>0, <3>1 DEF Runs, LiveMoved
      <4> QED BY <2>0, <2>5, <2>p, <3>1, <4>1 DEF JudgedAgainstLive, PromoteChecks, Judged
    <3> QED BY <2>5, <2>i, <3>1 DEF PromoteChecks, Ends
  <2>6. CASE SetAlias
    <3>1. /\ run'.pc = "commit" /\ run'.from = run.from /\ run'.judged = run.judged
          /\ run'.live = run.live /\ run.pc = "alias"
      BY <2>0, <2>6 DEF SetAlias, Runs
    <3> QED BY <2>0, <2>p, <3>1 DEF JudgedAgainstLive, Judged
  <2>7. ASSUME \/ \E n, o, r \in BOOLEAN : Analyze(n, o, r)
               \/ \E e \in BOOLEAN : Clean(e)
               \/ \E s \in Strategies, f \in BOOLEAN : Decide(s, f)
        PROVE  JudgedAgainstLive'
    <3>1. run'.pc \in {"noAction", "clean", "evaluate", "decide", "adapt"}
      BY <2>0, <2>7 DEF Analyze, Clean, Decide, Runs
    <3> QED BY <2>i, <2>1, <3>1 DEF Judged
  <2>8. ASSUME NEW w \in BOOLEAN, NEW v \in Values, Adapt(w, v)
        PROVE  JudgedAgainstLive'
    <3>1. run' = Idle \/ run'.pc = "validate"
      BY <2>0, <2>8 DEF Adapt, Ends, Runs
    <3> QED BY <2>i, <2>1, <3>1 DEF Judged
  <2>9. CASE Refuse \/ NoAction \/ Deliver \/ CommitPromotion \/ PromotionFails
    BY <2>9, <2>i DEF Refuse, NoAction, Deliver, CommitPromotion, PromotionFails, Ends
  <2> QED BY <1>2, <2>2, <2>3, <2>4, <2>5, <2>6, <2>7, <2>8, <2>9 DEF Attempt
<1>3. CASE Die
  BY <1>3 DEF Die, JudgedAgainstLive
<1>4. ASSUME NEW w \in BOOLEAN, RolloutEnds(w)
      PROVE  JudgedAgainstLive'
  BY <1>4 DEF RolloutEnds, JudgedAgainstLive
<1>5. ASSUME NEW v \in Known, MoveLive(v)
      PROVE  JudgedAgainstLive'
  <2>1. moves' # 0 /\ UNCHANGED <<run, promoted>>
    BY <1>5 DEF MoveLive, AdaptationTypeOK
  <2> QED BY <2>1 DEF JudgedAgainstLive
<1>6. CASE UNCHANGED adaptationVars
  BY <1>6 DEF adaptationVars, JudgedAgainstLive
<1> QED BY <1>1, <1>2, <1>3, <1>4, <1>5, <1>6 DEF AdaptationNext

\* A version that decide_reuse may pick does not lose against LIVE.
LEMMA EligibleGains ==
  ASSUME AdaptationTypeOK, NEW l \in Nat, NEW v \in Eligible(l)
  PROVE  v \in Known /\ Gain(versions[v].value, l) >= 0
<1>1. v \in Known /\ versions[v].value \in Nat /\ Gain(versions[v].value, l) >= Required(l)
  BY VersionsTyped DEF Eligible, Candidates
<1>2. Required(l) \in Nat
  BY DEF Required
<1>3. Gain(versions[v].value, l) \in Int
  BY <1>1 DEF Gain
<1> QED BY <1>1, <1>2, <1>3

\* The values of versions that exist stay what they are.
LEMMA GainKept ==
  ASSUME AdaptationTypeOK, Attempt, NEW v \in Known, NEW w \in Known
  PROVE  /\ v \in Known' /\ w \in Known'
         /\ Gain(versions[v].value, versions[w].value)' = Gain(versions[v].value, versions[w].value)
  BY VersionsGrow, AttemptShape DEF Gain

\* What is delivered is not worse than what it replaces.
LEMMA NotWorseStep ==
  ASSUME AdaptationTypeOK, RunFits, NotWorse, [AdaptationNext]_adaptationVars
  PROVE  NotWorse'
<1> USE DEF Registry, Records, Bounds, Book
<1>u. ASSUME UNCHANGED <<world, versions>>, NEW v, NEW w
      PROVE  Gain(versions[v].value, versions[w].value)' = Gain(versions[v].value, versions[w].value)
  BY <1>u DEF Gain
<1>1. ASSUME NEW j \in Jobs, Start(j)
      PROVE  NotWorse'
  <2>1. /\ UNCHANGED <<world, versions, rollout>>
        /\ run'.pc \in {"stale", "waits", "analyze"}
    BY <1>1, StartStep
  <2> QED BY <2>1 DEF NotWorse, Known, Gain, Delivering, Judged
<1>2. CASE Attempt
  <2> USE DEF At, Goto
  <2>0. run \in Runs /\ run # Idle /\ UNCHANGED world
    BY <1>2, AttemptShape
  <2>r. rollout' # None =>
          /\ rollout'.from \in Known' /\ rollout'.to \in Known'
          /\ Gain(versions[rollout.to].value, versions[rollout.from].value)' >= 0
    <3>1. CASE UNCHANGED rollout /\ rollout # None
      <4>1. PICK f, t \in Known : f = rollout.from /\ t = rollout.to
        BY <3>1 DEF NotWorse
      <4>2. /\ f \in Known' /\ t \in Known'
            /\ Gain(versions[t].value, versions[f].value)' = Gain(versions[t].value, versions[f].value)
        BY <1>2, GainKept
      <4>3. Gain(versions[t].value, versions[f].value) >= 0
        BY <3>1, <4>1 DEF NotWorse
      <4> QED BY <3>1, <4>1, <4>2, <4>3
    <3>2. CASE Deliver
      <4>1. PICK f, t \in Known : f = run.live /\ t = run.new
        BY <2>0, <3>2 DEF Deliver, RunFits, Delivering, Judged
      <4>2. /\ f \in Known' /\ t \in Known'
            /\ Gain(versions[t].value, versions[f].value)' = Gain(versions[t].value, versions[f].value)
        BY <1>2, GainKept
      <4>3. Gain(versions[t].value, versions[f].value) >= 0
        BY <2>0, <3>2, <4>1 DEF Deliver, NotWorse, Delivering, Judged
      <4>4. rollout'.from = f /\ rollout'.to = t
        BY <3>2, <4>1 DEF Deliver
      <4> QED BY <4>2, <4>3, <4>4
    <3> QED BY <1>2, <3>1, <3>2, AttemptShape
  <2>i. CASE run' = Idle \/ run'.pc \notin {"register"} \union Delivering
    BY <2>r, <2>i DEF NotWorse
  <2>d. ASSUME NEW l \in Known, NEW n \in Known, run'.pc \in Delivering, run'.live = l, run'.new = n,
               Gain(versions[n].value, versions[l].value) >= 0
        PROVE  NotWorse'
    <3>1. Gain(versions[n].value, versions[l].value)' >= 0
      BY <1>2, <2>d, GainKept
    <3>2. Gain(versions[run.new].value, versions[run.live].value)' >= 0
      BY <2>d, <3>1
    <3> QED BY <2>d, <2>r, <3>2 DEF NotWorse, Delivering, Judged
  <2>2. CASE EvaluateVersions
    <3>0. run.live \in Known /\ versions[run.live].value \in Nat
      BY <2>0, <2>2, VersionsTyped DEF EvaluateVersions, RunFits
    <3>1. CASE /\ Eligible(versions[run.live].value) # {}
               /\ run' = [run EXCEPT !.pc = "promote",
                                     !.new = Best(Eligible(versions[run.live].value),
                                                  versions[run.live].value),
                                     !.judged = run.live, !.key = "reuse"]
      <4>1. /\ run'.pc = "promote" /\ run'.live = run.live
            /\ run'.new = Best(Eligible(versions[run.live].value), versions[run.live].value)
        BY <2>0, <3>1 DEF Runs
      <4>2. run'.new \in Known /\ Gain(versions[run'.new].value, versions[run.live].value) >= 0
        BY <3>0, <3>1, <4>1, BestIsEligible, EligibleGains
      <4>3. PICK l \in Known, n \in Known : l = run.live /\ n = run'.new
        BY <3>0, <4>2
      <4> QED BY <2>d, <4>1, <4>2, <4>3 DEF Delivering, Judged
    <3>2. CASE run' = [run EXCEPT !.pc = "decide", !.evaluated = Candidates]
      <4>1. run'.pc = "decide"
        BY <2>0, <3>2 DEF Runs
      <4> QED BY <2>i, <4>1 DEF Delivering, Judged
    <3> QED BY <2>2, <3>1, <3>2 DEF EvaluateVersions
  <2>3. ASSUME NEW s \in 0 .. 1, NEW g, NEW m, Validate(s, g, m)
        PROVE  NotWorse'
    <3>1. CASE /\ Accepts(run.value, s) /\ UNCHANGED versions
               /\ run' = [run EXCEPT !.pc = "register", !.judged = run.live]
      <4>1. run'.pc = "register" /\ run'.live = run.live /\ run'.value = run.value /\ run.value \in Nat
        BY <2>0, <3>1 DEF Runs
      <4>2. versions[run.live].value \in Nat
        BY <2>0, <2>3, VersionsTyped DEF Validate, RunFits, Adapting
      <4>3. Gain(run.value, versions[run.live].value) \in Int
        BY <4>1, <4>2 DEF Gain
      <4>4. Gain(run.value, versions[run.live].value) >= 0
        BY <3>1, <4>3 DEF Accepts
      <4>5. Gain(run.value, versions[run.live].value)' >= 0
        BY <2>0, <3>1, <4>1, <4>4 DEF Gain
      <4> QED BY <2>r, <4>1, <4>5 DEF NotWorse, Delivering, Judged
    <3> QED BY <2>3, <2>i, <3>1 DEF Validate, Ends
  <2>4. CASE Register
    <3>1. /\ run'.pc = "snapshot" /\ run'.new = Len(versions) + 1 /\ run'.live = run.live
          /\ run.pc = "register"
      BY <2>0, <2>4 DEF Register, Runs
    <3>2. run.live \in Known /\ Gain(run.value, versions[run.live].value) >= 0
      BY <2>0, <3>1 DEF RunFits, NotWorse, Judged
    <3>3. /\ versions'[run'.new].value = run.value
          /\ versions'[run'.live] = versions[run.live]
      BY <1>2, <2>4, <3>1, <3>2, VersionsGrow
    <3>4. Gain(versions[run.new].value, versions[run.live].value)' >= 0
      BY <2>0, <3>2, <3>3 DEF Gain
    <3> QED BY <2>r, <3>1, <3>4 DEF NotWorse, Delivering, Judged
  <2>5. CASE Snapshot \/ PromoteChecks \/ SetAlias
    <3>1. \/ run' = Idle
          \/ /\ run.pc \in Delivering /\ run'.pc \in Delivering
             /\ run'.live = run.live /\ run'.new = run.new
      BY <2>0, <2>5 DEF Snapshot, PromoteChecks, SetAlias, Ends, Runs, Delivering, Judged
    <3>2. CASE run.pc \in Delivering /\ run'.pc \in Delivering
             /\ run'.live = run.live /\ run'.new = run.new
      <4>1. PICK l \in Known, n \in Known : l = run.live /\ n = run.new
        BY <2>0, <3>2 DEF RunFits, Delivering, Judged
      <4>2. Gain(versions[n].value, versions[l].value) >= 0
        BY <2>0, <3>2, <4>1 DEF NotWorse
      <4> QED BY <2>d, <3>2, <4>1, <4>2
    <3> QED BY <2>i, <3>1, <3>2
  <2>7. ASSUME \/ \E n, o, r \in BOOLEAN : Analyze(n, o, r)
               \/ \E e \in BOOLEAN : Clean(e)
               \/ \E s \in Strategies, f \in BOOLEAN : Decide(s, f)
        PROVE  NotWorse'
    <3>1. run'.pc \in {"noAction", "clean", "evaluate", "decide", "adapt"}
      BY <2>0, <2>7 DEF Analyze, Clean, Decide, Runs
    <3> QED BY <2>i, <3>1 DEF Judged, Delivering
  <2>8. ASSUME NEW w \in BOOLEAN, NEW v \in Values, Adapt(w, v)
        PROVE  NotWorse'
    <3>1. run' = Idle \/ run'.pc = "validate"
      BY <2>0, <2>8 DEF Adapt, Ends, Runs
    <3> QED BY <2>i, <3>1 DEF Judged, Delivering
  <2>9. CASE Refuse \/ NoAction \/ Deliver \/ CommitPromotion \/ PromotionFails
    BY <2>9, <2>i DEF Refuse, NoAction, Deliver, CommitPromotion, PromotionFails, Ends
  <2> QED BY <1>2, <2>2, <2>3, <2>4, <2>5, <2>7, <2>8, <2>9 DEF Attempt
<1>3. CASE Die
  BY <1>3 DEF Die, NotWorse, Gain, Known
<1>4. ASSUME NEW w \in BOOLEAN, RolloutEnds(w)
      PROVE  NotWorse'
  BY <1>4 DEF RolloutEnds, NotWorse
<1>5. ASSUME NEW v \in Known, MoveLive(v)
      PROVE  NotWorse'
  BY <1>5 DEF MoveLive, NotWorse, Gain, Known
<1>6. CASE UNCHANGED adaptationVars
  BY <1>6 DEF adaptationVars, NotWorse, Gain, Known
<1> QED BY <1>1, <1>2, <1>3, <1>4, <1>5, <1>6 DEF AdaptationNext

-----------------------------------------------------------------------------
(* What an attempt leaves behind.                                          *)

\* A committed training link stays, and the new one is there.
LEMMA LinkAdded ==
  ASSUME NEW s \in Seq(Nat), NEW x \in Nat
  PROVE  ToSet(Append(s, x)) = ToSet(s) \union {x}
<1>1. Append(s, x) \in Seq(Nat) /\ Len(Append(s, x)) = Len(s) + 1 /\ Len(s) \in Nat
  OBVIOUS
<1>2. DOMAIN Append(s, x) = (1 .. Len(s)) \union {Len(s) + 1} /\ DOMAIN s = 1 .. Len(s)
  BY <1>1
<1>3. \A i \in 1 .. Len(s) : Append(s, x)[i] = s[i]
  OBVIOUS
<1>4. Append(s, x)[Len(s) + 1] = x
  OBVIOUS
<1> QED BY <1>2, <1>3, <1>4 DEF ToSet

\* Registering is the only step that adds a version, and the snapshot that links it comes next.
LEMMA LinkedStep ==
  ASSUME AdaptationTypeOK, RunFits, LinkedOrLost, [AdaptationNext]_adaptationVars
  PROVE  LinkedOrLost'
<1> USE DEF Registry, Records, Bounds, Book
<1>1. ASSUME NEW j \in Jobs, Start(j)
      PROVE  LinkedOrLost'
  <2>1. run = Idle /\ UNCHANGED <<versions, links, faults>>
    BY <1>1, StartStep
  <2> QED BY <2>1 DEF LinkedOrLost, Known
<1>2. CASE Attempt
  <2> USE DEF At, Goto
  <2>0. run \in Runs /\ run # Idle /\ links \in Seq(Nat)
    BY <1>2, AttemptShape DEF AdaptationTypeOK
  <2>f. faults' = 0 => faults = 0 /\ UNCHANGED faults
    BY <1>2, AttemptShape DEF AdaptationTypeOK
  <2>k. \A v \in Known : versions'[v] = versions[v]
    BY <1>2, VersionsGrow
  <2>1. CASE Register
    <3>1. run'.pc = "snapshot" /\ run'.new = Len(versions) + 1 /\ run.pc = "register" /\ links' = links
      BY <2>0, <2>1 DEF Register, Runs
    <3>2. \A v \in Known' : v \in Known \/ v = Len(versions) + 1
      BY <1>2, VersionsGrow
    <3>3. run' # Idle
      BY <3>1 DEF Idle
    <3> QED BY <2>0, <2>f, <2>k, <3>1, <3>2, <3>3 DEF LinkedOrLost
  <2>2. CASE Snapshot
    <3>1. run.new \in Nat
      BY <2>0, <2>2, VersionsTyped DEF Snapshot, RunFits, Delivering, Judged
    <3>2. ToSet(links') = ToSet(links) \union {run.new}
      BY <2>0, <2>2, <3>1, LinkAdded DEF Snapshot
    <3>3. Known' = Known
      BY <2>2 DEF Snapshot, Known
    <3> QED BY <2>0, <2>f, <2>k, <3>2, <3>3 DEF LinkedOrLost
  <2>3. CASE ~Register /\ ~Snapshot
    <3>1. UNCHANGED <<versions, links>> /\ Known' = Known
      BY <1>2, <2>3, AttemptShape DEF Known
    <3>2. run.pc # "snapshot"
      <4>1. ASSUME Refuse \/ NoAction \/ EvaluateVersions \/ Deliver \/ PromoteChecks \/ SetAlias
                     \/ CommitPromotion \/ PromotionFails
            PROVE  run.pc # "snapshot"
        BY <4>1 DEF Refuse, NoAction, EvaluateVersions, Deliver, PromoteChecks, SetAlias,
           CommitPromotion, PromotionFails
      <4>2. ASSUME NEW n, NEW o, NEW r, Analyze(n, o, r) \/ Clean(n) \/ Decide(n, o) \/ Adapt(n, o)
            PROVE  run.pc # "snapshot"
        BY <4>2, Zenon DEF Analyze, Clean, Decide, Adapt
      <4>3. ASSUME NEW s, NEW g, NEW m, Validate(s, g, m)
            PROVE  run.pc # "snapshot"
        BY <4>3 DEF Validate
      <4> QED BY <1>2, <2>3, <4>1, <4>2, <4>3 DEF Attempt
    <3> QED BY <2>f, <3>1, <3>2 DEF LinkedOrLost
  <2> QED BY <2>1, <2>2, <2>3
<1>3. CASE Die
  BY <1>3 DEF Die, LinkedOrLost, AdaptationTypeOK
<1>4. ASSUME NEW w \in BOOLEAN, RolloutEnds(w)
      PROVE  LinkedOrLost'
  BY <1>4 DEF RolloutEnds, LinkedOrLost, Known
<1>5. ASSUME NEW v \in Known, MoveLive(v)
      PROVE  LinkedOrLost'
  BY <1>5 DEF MoveLive, LinkedOrLost, Known
<1>6. CASE UNCHANGED adaptationVars
  BY <1>6 DEF adaptationVars, LinkedOrLost, Known
<1> QED BY <1>1, <1>2, <1>3, <1>4, <1>5, <1>6 DEF AdaptationNext

\* The data the drift is measured against is that of the version the attempt read as LIVE.
LEMMA BaselineStep ==
  ASSUME AdaptationTypeOK, RunFits, LinkedOrLost, BaselineIsLives, [AdaptationNext]_adaptationVars
  PROVE  BaselineIsLives'
<1> USE DEF Registry, Records, Bounds, Book
<1>1. ASSUME NEW j \in Jobs, Start(j)
      PROVE  BaselineIsLives'
  BY <1>1, StartStep DEF BaselineIsLives
<1>2. CASE Attempt
  <2> USE DEF At, Goto
  <2>0. run \in Runs /\ run # Idle
    BY <1>2, AttemptShape
  <2>i. CASE run' = Idle \/ run'.pc \notin {"clean", "evaluate", "decide"}
    BY <2>i DEF BaselineIsLives
  <2>1. ASSUME NEW n \in BOOLEAN, NEW o \in BOOLEAN, NEW r \in BOOLEAN, Analyze(n, o, r)
        PROVE  BaselineIsLives'
    <3>1. /\ run'.base = HistoricalVersion(run.live) /\ run'.live = run.live /\ run.pc = "analyze"
          /\ UNCHANGED <<versions, links, faults>>
      BY <2>0, <2>1 DEF Analyze, RetrieveContext, Runs
    <3>2. ASSUME run.live # None, run.live \notin ToSet(links)
          PROVE  versions[run.live].by = None \/ faults > 0
      <4>1. run.live \in Known
        BY <2>0, <3>2 DEF RunFits
      <4>2. versions[run.live].by = None \/ faults # 0
        BY <3>1, <3>2, <4>1 DEF LinkedOrLost
      <4> QED BY <4>2 DEF AdaptationTypeOK
    <3> QED BY <3>1, <3>2 DEF BaselineIsLives, HistoricalVersion
  <2>2. ASSUME (\E e \in BOOLEAN : Clean(e)) \/ EvaluateVersions
        PROVE  BaselineIsLives'
    <3>1. /\ run'.base = run.base /\ run'.live = run.live /\ run.pc \in {"clean", "evaluate"}
          /\ UNCHANGED <<versions, links, faults>>
      <4>1. ASSUME NEW e \in BOOLEAN, Clean(e)
            PROVE  /\ run'.base = run.base /\ run'.live = run.live /\ run.pc = "clean"
                   /\ UNCHANGED <<versions, links, faults>>
        BY <2>0, <4>1 DEF Clean, Runs
      <4>2. ASSUME EvaluateVersions
            PROVE  /\ run'.base = run.base /\ run'.live = run.live /\ run.pc = "evaluate"
                   /\ UNCHANGED <<versions, links, faults>>
        BY <2>0, <4>2 DEF EvaluateVersions, Runs
      <4> QED BY <2>2, <4>1, <4>2
    <3> QED BY <2>0, <3>1 DEF BaselineIsLives
  <2>3. ASSUME NEW s \in Strategies, NEW f \in BOOLEAN, Decide(s, f)
        PROVE  BaselineIsLives'
    <3>1. run'.pc \in {"noAction", "adapt"}
      BY <2>0, <2>3 DEF Decide, Runs
    <3> QED BY <2>i, <3>1
  <2>4. ASSUME NEW w \in BOOLEAN, NEW v \in Values, Adapt(w, v)
        PROVE  BaselineIsLives'
    <3>1. run' = Idle \/ run'.pc = "validate"
      BY <2>0, <2>4 DEF Adapt, Ends, Runs
    <3> QED BY <2>i, <3>1
  <2>5. ASSUME NEW s, NEW g, NEW m, Validate(s, g, m)
        PROVE  BaselineIsLives'
    <3>1. run' = Idle \/ run'.pc = "register"
      BY <2>0, <2>5 DEF Validate, Ends, Runs
    <3> QED BY <2>i, <3>1
  <2>6. CASE Register \/ Snapshot \/ PromoteChecks \/ SetAlias
    <3>1. run' = Idle \/ run'.pc \in {"snapshot", "deliver", "promote", "alias", "commit"}
      BY <2>0, <2>6 DEF Register, Snapshot, PromoteChecks, SetAlias, Ends, Runs
    <3> QED BY <2>i, <3>1
  <2>9. CASE Refuse \/ NoAction \/ Deliver \/ CommitPromotion \/ PromotionFails
    BY <2>9, <2>i DEF Refuse, NoAction, Deliver, CommitPromotion, PromotionFails, Ends
  <2> QED BY <1>2, <2>1, <2>2, <2>3, <2>4, <2>5, <2>6, <2>9 DEF Attempt
<1>3. CASE Die
  BY <1>3 DEF Die, BaselineIsLives
<1>4. ASSUME NEW w \in BOOLEAN, RolloutEnds(w)
      PROVE  BaselineIsLives'
  BY <1>4 DEF RolloutEnds, BaselineIsLives
<1>5. ASSUME NEW v \in Known, MoveLive(v)
      PROVE  BaselineIsLives'
  BY <1>5 DEF MoveLive, BaselineIsLives
<1>6. CASE UNCHANGED adaptationVars
  BY <1>6 DEF adaptationVars, BaselineIsLives
<1> QED BY <1>1, <1>2, <1>3, <1>4, <1>5, <1>6 DEF AdaptationNext

\* Every step of an attempt works for the same job or ends the attempt.
LEMMA SameJob ==
  ASSUME AdaptationTypeOK, Attempt
  PROVE  run' = Idle \/ (run'.job = run.job /\ UNCHANGED promoted /\ UNCHANGED result)
<1> USE DEF Registry, Records, Bounds, Book, At, Goto
<1>0. run \in Runs
  BY AttemptShape
<1>1. ASSUME NEW n, NEW o, NEW r, Analyze(n, o, r)
      PROVE  run'.job = run.job /\ UNCHANGED <<promoted, result>>
  BY <1>0, <1>1 DEF Analyze, Runs
<1>2. ASSUME NEW e, Clean(e)
      PROVE  run'.job = run.job /\ UNCHANGED <<promoted, result>>
  BY <1>0, <1>2 DEF Clean, Runs
<1>3. ASSUME EvaluateVersions
      PROVE  run'.job = run.job /\ UNCHANGED <<promoted, result>>
  BY <1>0, <1>3 DEF EvaluateVersions, Runs
<1>4. ASSUME NEW s, NEW f \in BOOLEAN, Decide(s, f)
      PROVE  run'.job = run.job /\ UNCHANGED <<promoted, result>>
  BY <1>0, <1>4 DEF Decide, Runs
<1>5. ASSUME NEW w, NEW v, Adapt(w, v)
      PROVE  run' = Idle \/ (run'.job = run.job /\ UNCHANGED <<promoted, result>>)
  BY <1>0, <1>5 DEF Adapt, Ends, Runs
<1>6. ASSUME NEW s, NEW g, NEW m, Validate(s, g, m)
      PROVE  run' = Idle \/ (run'.job = run.job /\ UNCHANGED <<promoted, result>>)
  BY <1>0, <1>6 DEF Validate, Ends, Runs
<1>7. ASSUME Register \/ Snapshot \/ SetAlias
      PROVE  run'.job = run.job /\ UNCHANGED <<promoted, result>>
  BY <1>0, <1>7 DEF Register, Snapshot, SetAlias, Runs
<1>8. ASSUME PromoteChecks
      PROVE  run' = Idle \/ (run'.job = run.job /\ UNCHANGED <<promoted, result>>)
  BY <1>0, <1>8 DEF PromoteChecks, Ends, Runs
<1>9. ASSUME Refuse \/ NoAction \/ Deliver \/ CommitPromotion \/ PromotionFails
      PROVE  run' = Idle
  BY <1>9 DEF Refuse, NoAction, Deliver, CommitPromotion, PromotionFails, Ends
<1> QED BY <1>1, <1>2, <1>3, <1>4, <1>5, <1>6, <1>7, <1>8, <1>9 DEF Attempt

\* A row is added for the job whose attempt commits.
LEMMA RowsGrow ==
  ASSUME CommitPromotion, NEW j
  PROVE  RowsOf(j)' = IF j = run.job
                      THEN RowsOf(j) \union {[key |-> <<run.job, run.key>>, from |-> run.from,
                                              to |-> run.new, judged |-> run.judged]}
                      ELSE RowsOf(j)
<1>1. promoted' = promoted \union {[key |-> <<run.job, run.key>>, from |-> run.from,
                                    to |-> run.new, judged |-> run.judged]}
  BY DEF CommitPromotion
<1>2. [key |-> <<run.job, run.key>>, from |-> run.from, to |-> run.new,
       judged |-> run.judged].key[1] = run.job
  OBVIOUS
<1> QED BY <1>1, <1>2 DEF RowsOf

\* A job is queued, running or done, and a first attempt starts without rows.
LEMMA JobsStep ==
  ASSUME AdaptationTypeOK, JobsApart, [AdaptationNext]_adaptationVars
  PROVE  JobsApart'
<1> USE DEF Registry, Records, Bounds, Book
<1>1. ASSUME NEW j \in Jobs, Start(j)
      PROVE  JobsApart'
  <2>1. /\ run'.job = j /\ j \in queued /\ queued' = queued \ {j}
        /\ tries' = [tries EXCEPT ![j] = @ + 1] /\ UNCHANGED <<result, promoted>>
    BY <1>1, StartStep
  <2>2. tries \in [Jobs -> Nat]
    BY DEF AdaptationTypeOK
  <2>3. result[j] = None /\ (tries[j] = 0 => RowsOf(j) = {})
    BY <2>1 DEF JobsApart
  <2>4. tries'[j] = tries[j] + 1 /\ \A i \in Jobs : i # j => tries'[i] = tries[i]
    BY <2>1, <2>2
  <2>5. \A i : RowsOf(i)' = RowsOf(i)
    BY <2>1 DEF RowsOf
  <2>6. run'.job \notin queued' /\ result'[run'.job] = None /\ tries'[run'.job] > 0
    BY <2>1, <2>2, <2>3, <2>4
  <2>7. tries'[run'.job] = 1 => RowsOf(j)' = {}
    BY <2>1, <2>2, <2>3, <2>4, <2>5
  <2>8. \A i \in Jobs : tries'[i] = 0 => RowsOf(i)' = {}
    BY <2>2, <2>4, <2>5 DEF JobsApart
  <2>9. \A i \in queued' : result'[i] = None
    BY <2>1 DEF JobsApart
  <2>10. RowsOf(run.job)' = RowsOf(j)'
    BY <2>1 DEF RowsOf
  <2> QED BY <2>6, <2>7, <2>8, <2>9, <2>10 DEF JobsApart
<1>2. CASE Attempt
  <2>0. run \in Runs /\ run # Idle /\ UNCHANGED <<queued, tries>> /\ run.job \in Jobs
    BY <1>2, AttemptShape DEF Runs
  <2>1. run.job \notin queued /\ result[run.job] = None /\ tries[run.job] > 0
    BY <2>0 DEF JobsApart
  <2>2. \A i \in queued' : result'[i] = None
    <3>1. \A i \in Jobs : i # run.job => result'[i] = result[i]
      BY <1>2, AttemptShape DEF Ends, AdaptationTypeOK
    <3> QED BY <2>0, <2>1, <3>1 DEF JobsApart, AdaptationTypeOK
  <2>3. \A i \in Jobs : tries'[i] = 0 => RowsOf(i)' = {}
    <3>1. CASE UNCHANGED promoted
      BY <2>0, <3>1 DEF JobsApart, RowsOf
    <3>2. CASE CommitPromotion
      BY <2>0, <2>1, <3>2, RowsGrow DEF JobsApart, AdaptationTypeOK
    <3> QED BY <1>2, <3>1, <3>2, AttemptShape
  <2>4. CASE run' = Idle
    BY <2>2, <2>3, <2>4 DEF JobsApart
  <2>5. CASE run'.job = run.job /\ UNCHANGED promoted /\ UNCHANGED result
    <3>1. RowsOf(run.job)' = RowsOf(run.job)
      BY <2>5 DEF RowsOf
    <3> QED BY <2>0, <2>1, <2>2, <2>3, <2>5, <3>1 DEF JobsApart
  <2> QED BY <1>2, <2>4, <2>5, SameJob
<1>3. CASE Die
  <2>1. run # Idle /\ run' = Idle /\ queued' = queued \union {run.job}
        /\ UNCHANGED <<result, tries, promoted>>
    BY <1>3 DEF Die
  <2> QED BY <2>1 DEF JobsApart, RowsOf
<1>4. ASSUME NEW w \in BOOLEAN, RolloutEnds(w)
      PROVE  JobsApart'
  BY <1>4 DEF RolloutEnds, JobsApart, RowsOf
<1>5. ASSUME NEW v \in Known, MoveLive(v)
      PROVE  JobsApart'
  BY <1>5 DEF MoveLive, JobsApart, RowsOf
<1>6. CASE UNCHANGED adaptationVars
  BY <1>6 DEF adaptationVars, JobsApart, RowsOf
<1> QED BY <1>1, <1>2, <1>3, <1>4, <1>5, <1>6 DEF AdaptationNext

\* When _produce_candidate has nothing to offer, neither the strategy nor a full retrain is native.
LEMMA UnsupportedMeansNone ==
  ASSUME NEW s \in {"FINE_TUNING", "FULL_RETRAINING"}, NEW w, Produced(s, w) = "unsupported"
  PROVE  ~Native("FULL_RETRAINING") /\ ~Native(s)
<1>1. /\ ~Native(Wanted(s))
      /\ ~(Wanted(s) = "FINE_TUNING" /\ world.schema /\ Native("FULL_RETRAINING"))
  BY DEF Produced
<1>2. CASE s = "FULL_RETRAINING"
  BY <1>1, <1>2 DEF Wanted
<1>3. CASE s = "FINE_TUNING"
  BY <1>1, <1>3 DEF Wanted, Native
<1> QED BY <1>2, <1>3

\* What an attempt may report when it ends, apart from the commit of a promotion.
LEMMA Outcomes ==
  ASSUME AdaptationTypeOK, RunFits, Attempt
  PROVE  \/ UNCHANGED <<result, promoted>>
         \/ \E o, s : /\ Ends(o, s) /\ UNCHANGED promoted
                      /\ o \in {"REGISTERED", "REUSED"} => RowsOf(run.job) # {}
                      /\ o = "UNSUPPORTED" => ~Native("FULL_RETRAINING") /\ ~Native(run.strategy)
         \/ CommitPromotion
<1> USE DEF Registry, Records, Bounds, Book, At, Goto
<1>0. run \in Runs /\ run # Idle
  BY AttemptShape
<1> DEFINE Fine(o) == /\ o \in {"REGISTERED", "REUSED"} => RowsOf(run.job) # {}
                      /\ o = "UNSUPPORTED" => ~Native("FULL_RETRAINING") /\ ~Native(run.strategy)
           Plain == {"NO_ACTION", "ROLLOUT_IN_PROGRESS", "BAD_ARTIFACT", "ERROR", "REJECTED",
                     "DELIVERING", "CONFLICT", "ROLLED_BACK"}
           Goal == \/ UNCHANGED <<result, promoted>>
                   \/ \E o, s : Ends(o, s) /\ UNCHANGED promoted /\ Fine(o)
                   \/ CommitPromotion
<1>f. \A o \in Plain : Fine(o)
  OBVIOUS
<1> HIDE DEF Fine, Plain
<1>1. ASSUME NEW n, NEW o, NEW r, Analyze(n, o, r) \/ Clean(n) \/ Decide(n, o)
      PROVE  Goal
  BY <1>1, Zenon DEF Analyze, Clean, Decide
<1>2. ASSUME EvaluateVersions \/ Register \/ Snapshot \/ SetAlias
      PROVE  Goal
  BY <1>2 DEF EvaluateVersions, Register, Snapshot, SetAlias
<1>3. ASSUME Refuse \/ NoAction \/ Deliver \/ PromotionFails
      PROVE  Goal
  <2>1. \E o \in Plain : \E s : Ends(o, s) /\ UNCHANGED promoted
    BY <1>3 DEF Refuse, NoAction, Deliver, PromotionFails, FailureReported, Plain
  <2> QED BY <1>f, <2>1
<1>4. ASSUME NEW s, NEW g, NEW m, Validate(s, g, m)
      PROVE  Goal
  <2>1. UNCHANGED <<result, promoted>> \/ \E o \in Plain : \E t : Ends(o, t) /\ UNCHANGED promoted
    BY <1>4 DEF Validate, Plain
  <2> QED BY <1>f, <2>1
<1>5. ASSUME NEW w, NEW v, Adapt(w, v)
      PROVE  Goal
  <2>1. \/ UNCHANGED <<result, promoted>>
        \/ Ends("BAD_ARTIFACT", run.live) /\ UNCHANGED promoted
        \/ /\ Ends("UNSUPPORTED", run.live) /\ UNCHANGED promoted
           /\ Produced(run.strategy, w) = "unsupported"
    BY <1>5 DEF Adapt
  <2>2. run.strategy \in {"FINE_TUNING", "FULL_RETRAINING"}
    BY <1>0, <1>5 DEF Adapt, RunFits, Adapting
  <2>3. Produced(run.strategy, w) = "unsupported" => Fine("UNSUPPORTED")
    BY <2>2, UnsupportedMeansNone DEF Fine
  <2>4. "BAD_ARTIFACT" \in Plain
    BY DEF Plain
  <2> QED BY <1>f, <2>1, <2>3, <2>4
<1>6. ASSUME PromoteChecks
      PROVE  Goal
  <2>1. \/ UNCHANGED <<result, promoted>>
        \/ Ends("CONFLICT", None) /\ UNCHANGED promoted
        \/ Ends(Reports, run.new) /\ UNCHANGED promoted /\ Earlier # {}
    BY <1>6 DEF PromoteChecks
  <2>2. Earlier # {} => Fine(Reports)
    <3>1. Earlier # {} => RowsOf(run.job) # {}
      BY DEF Earlier, RowsOf
    <3>2. Reports # "UNSUPPORTED"
      BY DEF Reports
    <3> QED BY <3>1, <3>2 DEF Fine
  <2>3. "CONFLICT" \in Plain
    BY DEF Plain
  <2> QED BY <1>f, <2>1, <2>2, <2>3
<1>7. Goal
  BY <1>1, <1>2, <1>3, <1>4, <1>5, <1>6 DEF Attempt
<1> QED BY <1>7 DEF Fine

\* A job's report agrees with the rows it left.
LEMMA ReportsStep ==
  ASSUME AdaptationTypeOK, RunFits, JobsApart, ReportsAreRight, [AdaptationNext]_adaptationVars
  PROVE  ReportsAreRight'
<1> USE DEF Registry, Records, Bounds, Book
<1>u. ASSUME UNCHANGED <<world, promoted, result>>
      PROVE  ReportsAreRight'
  BY <1>u DEF ReportsAreRight, ReportsWhatHappened, LlmNeverCosts, Native
<1>1. ASSUME NEW j \in Jobs, Start(j)
      PROVE  ReportsAreRight'
  BY <1>1, <1>u, StartStep
<1>2. CASE Attempt
  <2>0. run \in Runs /\ run # Idle /\ run.job \in Jobs /\ UNCHANGED world
    BY <1>2, AttemptShape DEF Runs
  <2>n. \A s : Native(s)' = Native(s)
    BY <2>0 DEF Native
  <2>w. \A i : RowsOf(i) = {p \in promoted : p.key[1] = i} /\ RowsOf(i)' = {p \in promoted' : p.key[1] = i}
    BY DEF RowsOf
  <2>r. ASSUME NEW o, NEW s, Ends(o, s)
        PROVE  /\ result'[run.job].outcome = o /\ result'[run.job].shown = s
               /\ result'[run.job].tries = tries[run.job] /\ result'[run.job].strategy = run.strategy
               /\ \A i \in Jobs : i # run.job => result'[i] = result[i]
    BY <2>0, <2>r DEF Ends, AdaptationTypeOK
  <2>1. ASSUME NEW o, NEW s, Ends(o, s), UNCHANGED promoted,
               o \in {"REGISTERED", "REUSED"} => RowsOf(run.job) # {},
               o = "UNSUPPORTED" => ~Native("FULL_RETRAINING") /\ ~Native(run.strategy)
        PROVE  ReportsAreRight'
    <3>1. tries[run.job] = 1 => RowsOf(run.job) = {}
      BY <2>0 DEF JobsApart
    <3>2. ReportsWhatHappened'
      BY <2>0, <2>1, <2>r, <2>w, <3>1 DEF ReportsAreRight, ReportsWhatHappened
    <3>3. LlmNeverCosts'
      BY <2>0, <2>1, <2>r, <2>n DEF ReportsAreRight, LlmNeverCosts
    <3> QED BY <3>2, <3>3 DEF ReportsAreRight
  <2>2. CASE CommitPromotion
    <3>0. Ends(Reports, run.new) /\ Reports \in {"REGISTERED", "REUSED"}
      BY <2>2 DEF CommitPromotion, Reports
    <3>1. tries[run.job] = 1 => RowsOf(run.job) = {}
      BY <2>0 DEF JobsApart
    <3>j. PICK j \in Jobs : j = run.job
      BY <2>0
    <3>2. RowsOf(j)' # {} /\ (tries[j] = 1 => \A p \in RowsOf(j)' : p.to = run.new)
      <4>1. RowsOf(j)' = RowsOf(j) \union {[key |-> <<run.job, run.key>>, from |-> run.from,
                                            to |-> run.new, judged |-> run.judged]}
        BY <2>2, <3>j, RowsGrow
      <4>2. [key |-> <<run.job, run.key>>, from |-> run.from, to |-> run.new,
             judged |-> run.judged].to = run.new
        OBVIOUS
      <4>3. tries[j] = 1 => RowsOf(j) = {}
        BY <2>0, <3>j DEF JobsApart
      <4> QED BY <4>1, <4>2, <4>3
    <3>3. \A i \in Jobs : i # j => RowsOf(i)' = RowsOf(i)
      BY <2>2, <3>j, RowsGrow
    <3>4. ASSUME NEW i \in Jobs, result'[i] # None
          PROVE  /\ result'[i].outcome \in {"REGISTERED", "REUSED"} => RowsOf(i)' # {}
                 /\ result'[i].tries = 1 /\ RowsOf(i)' # {} =>
                       /\ result'[i].outcome \in {"REGISTERED", "REUSED"}
                       /\ \A p \in RowsOf(i)' : p.to = result'[i].shown
      <4>1. CASE i = j
        BY <2>r, <3>0, <3>j, <3>2, <4>1
      <4>2. CASE i # j
        <5>1. result'[i] = result[i]
          BY <2>r, <3>0, <3>j, <4>2
        <5> QED BY <2>w, <3>3, <3>4, <4>2, <5>1 DEF ReportsAreRight, ReportsWhatHappened
      <4> QED BY <4>1, <4>2
    <3>5. ReportsWhatHappened'
      BY <2>w, <3>4 DEF ReportsWhatHappened
    <3>6. LlmNeverCosts'
      BY <2>0, <2>r, <2>n, <3>0 DEF ReportsAreRight, LlmNeverCosts
    <3> QED BY <3>5, <3>6 DEF ReportsAreRight
  <2> QED BY <1>2, <1>u, <2>0, <2>1, <2>2, Outcomes
<1>3. CASE Die
  BY <1>3, <1>u DEF Die
<1>4. ASSUME NEW w \in BOOLEAN, RolloutEnds(w)
      PROVE  ReportsAreRight'
  BY <1>4, <1>u DEF RolloutEnds
<1>5. ASSUME NEW v \in Known, MoveLive(v)
      PROVE  ReportsAreRight'
  BY <1>5, <1>u DEF MoveLive
<1>6. CASE UNCHANGED adaptationVars
  BY <1>6, <1>u DEF adaptationVars
<1> QED BY <1>1, <1>2, <1>3, <1>4, <1>5, <1>6 DEF AdaptationNext

-----------------------------------------------------------------------------
(* The theorems about the pipeline.                                        *)

\* The invariant holds before any job has run.
LEMMA AdaptationStarts ==
  ASSUME AdaptationInit
  PROVE  AdaptationInv
<1>1. PICK n \in 1 .. 2 : versions \in [1 .. n -> [value : Values, fits : BOOLEAN, by : {None}]]
  BY DEF AdaptationInit
<1>2. [value : Values, fits : BOOLEAN, by : {None}] \subseteq Registered
  BY AdaptationConstants DEF Registered
<1>3. versions \in [1 .. n -> Registered] /\ n \in Nat /\ DOMAIN versions = 1 .. n
  BY <1>1, <1>2
<1>4. versions \in Seq(Registered) /\ Len(versions) = n
  BY <1>3
<1>5. Known = 1 .. n /\ Known \subseteq Nat /\ 1 \in Nat
  BY <1>4 DEF Known
<1>6. links \in Seq(Nat)
  <2>1. [v \in DOMAIN versions |-> v] \in Seq(Nat)
    <3>1. [v \in 1 .. n |-> v] \in [1 .. n -> Nat]
      BY <1>3
    <3> QED BY <1>3, <3>1
  <2>2. <<>> \in Seq(Nat) /\ <<1>> \in Seq(Nat)
    OBVIOUS
  <2> QED BY <2>1, <2>2 DEF AdaptationInit
<1>7. AdaptationTypeOK
  <2>1. tries \in [Jobs -> Nat] /\ DOMAIN result = Jobs
    BY DEF AdaptationInit
  <2> QED BY <1>3, <1>4, <1>5, <1>6, <2>1 DEF AdaptationInit, AdaptationTypeOK
<1>8. \A v \in Known : versions[v].by = None
  BY <1>1, <1>5
<1>9. RunFits /\ JudgedAgainstLive /\ NotWorse /\ LinkedOrLost /\ BaselineIsLives
  BY <1>8 DEF AdaptationInit, RunFits, JudgedAgainstLive, NotWorse, LinkedOrLost, BaselineIsLives
<1>10. JobsApart
  BY DEF AdaptationInit, JobsApart, RowsOf
<1>11. ReportsAreRight
  BY DEF AdaptationInit, ReportsAreRight, ReportsWhatHappened, LlmNeverCosts
<1> QED BY <1>7, <1>9, <1>10, <1>11 DEF AdaptationInv

\* Every step of every job, operator and rollout keeps the invariant.
LEMMA AdaptationKeeps ==
  ASSUME AdaptationInv, [AdaptationNext]_adaptationVars
  PROVE  AdaptationInv'
<1>1. AdaptationTypeOK' /\ RunFits'
  BY AdaptationTypes DEF AdaptationInv
<1>2. JudgedAgainstLive' /\ NotWorse'
  BY JudgedStep, NotWorseStep DEF AdaptationInv
<1>3. LinkedOrLost' /\ BaselineIsLives'
  BY LinkedStep, BaselineStep DEF AdaptationInv
<1>4. JobsApart' /\ ReportsAreRight'
  BY JobsStep, ReportsStep DEF AdaptationInv
<1> QED BY <1>1, <1>2, <1>3, <1>4 DEF AdaptationInv

\* The pipeline keeps its invariant whatever dies, whoever moves LIVE and whatever an LLM answers.
THEOREM AdaptationSafe == AdaptationSpec => []AdaptationInv
<1>1. AdaptationInit => AdaptationInv
  BY AdaptationStarts
<1>2. AdaptationInv /\ [AdaptationNext]_adaptationVars => AdaptationInv'
  BY AdaptationKeeps
<1> QED BY <1>1, <1>2, PTL DEF AdaptationSpec

\* A committed promotion replaced the version its candidate was judged against (pipeline.py's
\* expected_live).
THEOREM AlwaysReplacesWhatItBeat == AdaptationSpec => []ReplacesWhatItBeat
<1>1. AdaptationInv => ReplacesWhatItBeat
  BY DEF AdaptationInv, JudgedAgainstLive, ReplacesWhatItBeat
<1> QED BY <1>1, AdaptationSafe, PTL

\* Drift is measured against the data of the version that is LIVE, unless an attempt that died
\* left that version without its link.
THEOREM AlwaysLivesBaseline == AdaptationSpec => []BaselineIsLives
<1>1. AdaptationInv => BaselineIsLives
  BY DEF AdaptationInv
<1> QED BY <1>1, AdaptationSafe, PTL

\* What a job reports agrees with the promotion rows it left, and an LLM never costs a candidate.
THEOREM AlwaysReportsRight == AdaptationSpec => []ReportsAreRight
<1>1. AdaptationInv => ReportsAreRight
  BY DEF AdaptationInv
<1> QED BY <1>1, AdaptationSafe, PTL

\* Unless somebody else moves it, LIVE never gets worse except when a promotion is undone.
THEOREM NeverWorse == AdaptationSpec => LiveNeverWorse
<1> DEFINE Fair == moves = 0 /\ moves' = 0 /\ live # None /\ live' # live
                   => live' # None /\ (Gain(versions[live'].value, versions[live].value) >= 0
                                       \/ At("commit"))
<1>1. ASSUME AdaptationInv, [AdaptationNext]_adaptationVars
      PROVE  [Fair]_adaptationVars
  <2> SUFFICES ASSUME AdaptationNext, moves = 0, moves' = 0, live # None, live' # live
               PROVE  live' # None /\ (Gain(versions[live'].value, versions[live].value) >= 0
                                       \/ At("commit"))
    BY <1>1
  <2> USE DEF Registry, Records, Bounds, Book
  <2>0. AdaptationTypeOK /\ RunFits /\ JudgedAgainstLive /\ NotWorse
    BY <1>1 DEF AdaptationInv
  <2>n. \A v \in Known : v # None
    BY <2>0, VersionsTyped, AdaptationConstants
  <2>1. ASSUME NEW j \in Jobs, Start(j) PROVE FALSE
    BY <2>0, <2>1, StartStep
  <2>2. CASE Attempt
    <3>0. run \in Runs /\ run # Idle
      BY <2>0, <2>2, AttemptShape
    <3>1. CASE SetAlias
      <4>1. run.pc = "alias" /\ live' = run.new
        BY <3>1 DEF SetAlias, At
      <4>2. live = run.live
        BY <2>0, <3>0, <4>1 DEF JudgedAgainstLive
      <4>3. run.new \in Known /\ Gain(versions[run.new].value, versions[run.live].value) >= 0
        BY <2>0, <3>0, <4>1 DEF RunFits, NotWorse, Delivering, Judged
      <4> QED BY <2>n, <4>1, <4>2, <4>3
    <3>2. CASE PromotionFails
      <4>1. run.pc = "commit" /\ live' = run.from
        BY <3>2 DEF PromotionFails, At
      <4>2. run.from \in Known
        BY <2>0, <3>0, <4>1 DEF JudgedAgainstLive, RunFits, Judged
      <4> QED BY <2>n, <4>1, <4>2 DEF At
    <3> QED BY <2>0, <2>2, <3>1, <3>2, AttemptShape
  <2>3. CASE Die
    BY <2>3 DEF Die
  <2>4. ASSUME NEW w \in BOOLEAN, RolloutEnds(w)
        PROVE  live' # None /\ Gain(versions[live'].value, versions[live].value) >= 0
    <3>1. rollout # None /\ live = rollout.from /\ live' = rollout.to
      BY <2>4 DEF RolloutEnds
    <3> QED BY <2>0, <2>n, <3>1 DEF NotWorse
  <2>5. ASSUME NEW v \in Known, MoveLive(v) PROVE FALSE
    BY <2>5, <2>0 DEF MoveLive, AdaptationTypeOK
  <2> QED BY <2>1, <2>2, <2>3, <2>4, <2>5 DEF AdaptationNext
<1>2. AdaptationSpec => [][Fair]_adaptationVars
  <2> HIDE DEF Fair
  <2> QED BY <1>1, AdaptationSafe, PTL DEF AdaptationSpec
<1> QED BY <1>2 DEF LiveNeverWorse

-----------------------------------------------------------------------------
(* The rows of a job.                                                      *)

\* What the three stages after the split agree on: the held-out rows are the newest of the pool,
\* and what is trained on is what the leakage checks left.
RowsInv ==
    /\ cleaned \subseteq Positions /\ held \subseteq cleaned
    /\ stage = "load" => held = {}
    /\ stage \in {"check", "train", "frozen"} =>
          \A i \in cleaned \ held, j \in held : rows[i].ver = 2 => i < j
    /\ stage \in {"train", "frozen"} =>
          train = {i \in cleaned \ held : checks => Safe(i)}
    /\ stage = "frozen" => frozen = Positions \ Excluded
    /\ rows \in [Positions -> [ver : {1, 2}, at : RowTimes, key : RowKeys \union {NoValue},
                               val : RowValues \union {NoValue}]]

\* The larger and the smaller of two integers.
LEMMA MaxMinOfTwo ==
  ASSUME NEW a \in Int, NEW b \in Int
  PROVE  Max({a, b}) \in {a, b} /\ Min({a, b}) \in {a, b}
<1>1. \E x \in {a, b} : \A y \in {a, b} : x >= y
  OBVIOUS
<1>2. \E x \in {a, b} : \A y \in {a, b} : x <= y
  OBVIOUS
<1> QED BY <1>1, <1>2 DEF Max, Min

\* How many rows are held out is a number, whatever the pool.
LEMMA HoldOutSizeTyped ==
  ASSUME NEW n \in Nat, NEW share \in Int
  PROVE  HoldOutSize(n, share) \in Int
<1>1. HoldOutMin \in Int /\ n - 1 \in Int
  BY TrainingDataConstants
<1>2. Max({share, HoldOutMin}) \in Int
  BY <1>1, MaxMinOfTwo
<1>3. Min({Max({share, HoldOutMin}), n - 1}) \in Int
  BY <1>1, <1>2, MaxMinOfTwo
<1>4. PICK least : least = Min({Max({share, HoldOutMin}), n - 1})
  OBVIOUS
<1>5. HoldOutSize(n, share) = Max({0, least})
  BY <1>4 DEF HoldOutSize
<1>6. Max({0, least}) \in Int
  <2>1. least \in Int /\ 0 \in Int
    BY <1>3, <1>4
  <2> QED BY <2>1, MaxMinOfTwo
<1> QED BY <1>5, <1>6

\* The pool splits by age: what is held out is newer than what is not.
LEMMA NewestAreHeldOut ==
  ASSUME NEW pool, pool \subseteq Positions, NEW n \in Int, NEW i \in pool, NEW j \in pool,
         ~(Cardinality({k \in pool : k > i}) < n), Cardinality({k \in pool : k > j}) < n
  PROVE  i < j
<1>0. Positions \subseteq Int /\ IsFiniteSet(Positions)
  BY TrainingDataConstants, FS_Interval DEF Positions
<1>1. IsFiniteSet(pool)
  BY <1>0, FS_Subset
<1>2. ASSUME i >= j PROVE FALSE
  <2>1. {k \in pool : k > i} \subseteq {k \in pool : k > j}
    <3>1. \A k \in pool : k \in Int /\ i \in Int /\ j \in Int
      BY <1>0
    <3>2. \A k \in pool : k > i => k > j
      BY <1>2, <3>1
    <3> QED BY <3>2
  <2>2. IsFiniteSet({k \in pool : k > j})
    BY <1>1, FS_Subset
  <2>3. /\ Cardinality({k \in pool : k > i}) <= Cardinality({k \in pool : k > j})
        /\ IsFiniteSet({k \in pool : k > i})
    BY <2>1, <2>2, FS_Subset
  <2>4. Cardinality({k \in pool : k > i}) \in Nat /\ Cardinality({k \in pool : k > j}) \in Nat
    BY <2>2, <2>3, FS_CardinalityType
  <2> QED BY <2>3, <2>4
<1> QED BY <1>0, <1>2

\* Every step of a job's data preparation keeps RowsInv.
LEMMA RowsKeep ==
  ASSUME RowsInv, [RowsNext]_rowVars
  PROVE  RowsInv'
<1>1. CASE CleanRecords
  BY <1>1 DEF CleanRecords, RowsInv
<1>2. ASSUME NEW share \in 0 .. RowCount, HoldOut(share)
      PROVE  RowsInv'
  <2> DEFINE pool == {i \in cleaned : rows[i].ver = 2}
             n == HoldOutSize(Cardinality(pool), share)
  <2>0. pool \subseteq Positions /\ cleaned \subseteq Positions
    BY DEF RowsInv
  <2>1. IsFiniteSet(pool)
    <3>1. IsFiniteSet(Positions)
      BY TrainingDataConstants, FS_Interval DEF Positions
    <3> QED BY <2>0, <3>1, FS_Subset
  <2>2. n \in Int
    BY <2>1, FS_CardinalityType, HoldOutSizeTyped
  <2>3. /\ held' = {i \in pool : Cardinality({k \in pool : k > i}) < n} /\ stage' = "check"
        /\ UNCHANGED <<rows, cleaned>>
    BY <1>2 DEF HoldOut
  <2>4. ASSUME NEW i \in cleaned \ held', NEW j \in held', rows[i].ver = 2
        PROVE  i < j
    <3>1. i \in pool /\ j \in pool
      BY <2>3, <2>4
    <3>2. ~(Cardinality({k \in pool : k > i}) < n) /\ Cardinality({k \in pool : k > j}) < n
      BY <2>3, <2>4, <3>1
    <3> HIDE DEF pool, n
    <3> QED BY <2>0, <2>2, <3>1, <3>2, NewestAreHeldOut
  <2> QED BY <2>0, <2>3, <2>4 DEF RowsInv
<1>3. ASSUME NEW t \in BOOLEAN, CheckLeakage(t)
      PROVE  RowsInv'
  <2>1. /\ train' = {i \in cleaned \ held : checks => Safe(i)} /\ checks' = checks
        /\ stage = "check" /\ stage' \in {"error", "train"} /\ UNCHANGED <<rows, future, cleaned, held>>
    BY <1>3 DEF CheckLeakage
  <2>2. \A i : Safe(i)' = Safe(i)
    BY <2>1 DEF Safe, Copy, Later
  <2> QED BY <2>1, <2>2 DEF RowsInv
<1>4. CASE FreezeTraining
  <2>1. /\ stage = "train" /\ stage' = "frozen" /\ frozen' = Positions \ Excluded
        /\ UNCHANGED <<rows, checks, future, cleaned, held, train>>
    BY <1>4 DEF FreezeTraining
  <2>2. \A i : Safe(i)' = Safe(i)
    BY <2>1 DEF Safe, Copy, Later
  <2>3. Excluded' = Excluded
    BY <2>1 DEF Excluded
  <2> QED BY <2>1, <2>2, <2>3 DEF RowsInv
<1>5. CASE UNCHANGED rowVars
  BY <1>5 DEF rowVars, RowsInv, Safe, Copy, Later, Excluded
<1> QED BY <1>1, <1>2, <1>3, <1>4, <1>5 DEF RowsNext

\* Whatever rows the two versions hold and whatever share is held out, a candidate is trained on no
\* row it is scored on and, with the checks on, on no copy and on no newer row of one, and the snapshot of its training data holds none of them.
THEOREM AlwaysHeldOut == RowsSpec => []HoldOutIsKept
<1>1. RowsInit => RowsInv
  BY DEF RowsInit, RowsInv
<1>2. RowsInv /\ [RowsNext]_rowVars => RowsInv'
  BY RowsKeep
<1>3. RowsInv => HoldOutIsKept
  <2> SUFFICES ASSUME RowsInv PROVE HoldOutIsKept
    OBVIOUS
  <2>1. NothingHeldOutIsLearned
    <3> SUFFICES ASSUME stage \in {"train", "frozen"}, NEW i \in train, NEW j \in held
                 PROVE  /\ i # j
                        /\ checks => rows[i].val # rows[j].val /\ (future \/ rows[i].at <= rows[j].at)
                        /\ rows[i].ver = 2 => i < j
      BY DEF NothingHeldOutIsLearned
    <3>1. i \in cleaned \ held /\ (checks => Safe(i))
      BY DEF RowsInv
    <3>2. i \in Positions /\ j \in Positions
      BY <3>1 DEF RowsInv
    <3>3. rows[i].at \in Nat /\ rows[j].at \in Nat
      BY <3>2, TrainingDataConstants DEF RowsInv
    <3>4. rows[i].ver = 2 => i < j
      BY <3>1 DEF RowsInv
    <3>5. checks => rows[i].val # rows[j].val
      BY <3>1 DEF Safe, Copy
    <3>6. checks => (future \/ rows[i].at <= rows[j].at)
      BY <3>1, <3>3 DEF Safe, Later
    <3> QED BY <3>1, <3>4, <3>5, <3>6
  <2>2. BaselineKeepsHoldOutOut
    BY DEF RowsInv, BaselineKeepsHoldOutOut, Excluded
  <2> QED BY <2>1, <2>2 DEF HoldOutIsKept
<1> QED BY <1>1, <1>2, <1>3, PTL DEF RowsSpec

-----------------------------------------------------------------------------
(* The guard of the LLM calls.                                             *)

Tries == 1 .. (LlmRetries + 1)

\* The requests a caller that passed the budget check may still send and settle.
Remaining(c) ==
    IF call[c].pc \in {"breaker", "sent", "settle"} THEN LlmRetries + 1 - call[c].attempt ELSE 0

\* ... those of all callers, one pair for each.
Outstanding == {o \in Callers \X Tries : o[2] <= Remaining(o[1])}

CallStates == {"start", "budget", "breaker", "sent", "settle", "done", "fallback"}
Calls == [pc : CallStates, step : Nat, attempt : 0 .. LlmRetries]

GuardTypeOK ==
    /\ circuit \in [state : {"closed", "open", "half_open"}, failures : Nat, waited : BOOLEAN]
    /\ ledger \in Nat /\ used \in Nat /\ lost \in Nat
    /\ call \in [Callers -> Calls]

\* What may ever be spent within the budget: the room that was there when a call was checked, and
\* every request that may have been checked with it.
Ceiling == Budget - Worst + Cardinality(Callers) * (LlmRetries + 1) * Worst

\* The ledger and what is still to come stay below the ceiling.
LedgerBounded == ledger + Cardinality(Outstanding) * Worst <= Ceiling

\* The ledger misses at most what was lost.
UsedIsKnown == used <= ledger + lost * Worst

GuardInv == GuardTypeOK /\ TrialIsUnderWay /\ LedgerBounded /\ UsedIsKnown

\* The order of the gates, for every budget and threshold.
LEMMA GateOrder == After("budget") = "breaker" /\ After("breaker") = "sent"
<1>1. Gates[1] = "budget" /\ Gates[2] = "breaker" /\ Gates[3] = "sent"
  BY DEF Gates
<1>2. \A i \in 2 .. 3 : Gates[i - 1] = "budget" <=> i = 2
  BY <1>1
<1>3. \A i \in 2 .. 3 : Gates[i - 1] = "breaker" <=> i = 3
  BY <1>1
<1>4. (CHOOSE i \in 2 .. 3 : Gates[i - 1] = "budget") = 2
  BY <1>2
<1>5. (CHOOSE i \in 2 .. 3 : Gates[i - 1] = "breaker") = 3
  BY <1>3
<1> QED BY <1>1, <1>4, <1>5 DEF After

\* One request less is one worst case less.
LEMMA OneLess ==
  ASSUME NEW a \in Nat, NEW b \in Nat, NEW w \in Nat, a + 1 <= b
  PROVE  a * w \in Nat /\ b * w \in Nat /\ a * w + w <= b * w
<1>1. PICK d \in Nat : b = a + 1 + d
  <2>1. b - a - 1 \in Nat /\ b = a + 1 + (b - a - 1)
    OBVIOUS
  <2> QED BY <2>1
<1>2. b * w = a * w + w + d * w
  BY <1>1
<1>3. d * w \in Nat /\ a * w \in Nat /\ b * w \in Nat
  OBVIOUS
<1> QED BY <1>2, <1>3

\* No more requests are no more worst cases.
LEMMA NoMore ==
  ASSUME NEW a \in Nat, NEW b \in Nat, NEW w \in Nat, a <= b
  PROVE  a * w \in Nat /\ b * w \in Nat /\ a * w <= b * w
<1>1. PICK d \in Nat : b = a + d
  <2>1. b - a \in Nat /\ b = a + (b - a)
    OBVIOUS
  <2> QED BY <2>1
<1>2. b * w = a * w + d * w
  BY <1>1
<1>3. d * w \in Nat /\ a * w \in Nat /\ b * w \in Nat
  OBVIOUS
<1> QED BY <1>2, <1>3

\* The constants are numbers.
LEMMA GuardNumbers ==
  /\ Worst \in Nat /\ Input \in Nat /\ Input <= Worst /\ Budget \in Nat /\ Budget - Worst \in Nat
  /\ LlmRetries \in Nat /\ Cardinality(Callers) \in Nat /\ Ceiling \in Nat
  /\ Cardinality(Callers) * (LlmRetries + 1) \in Nat
<1>1. /\ Worst \in Nat /\ Input \in Nat /\ Input <= Worst /\ Budget \in Nat /\ Budget - Worst \in Nat
      /\ LlmRetries \in Nat /\ LlmRetries + 1 \in Nat
  BY LlmGuardConstants DEF Worst
<1>2. Cardinality(Callers) \in Nat
  BY LlmGuardConstants, FS_CardinalityType
<1>3. Cardinality(Callers) * (LlmRetries + 1) \in Nat
  BY <1>1, <1>2
<1>4. (Cardinality(Callers) * (LlmRetries + 1)) * Worst \in Nat
  BY <1>1, <1>3
<1> QED BY <1>1, <1>2, <1>3, <1>4 DEF Ceiling

\* There are at most so many requests outstanding.
LEMMA OutstandingBound ==
  /\ IsFiniteSet(Outstanding) /\ Cardinality(Outstanding) \in Nat
  /\ Cardinality(Outstanding) <= Cardinality(Callers) * (LlmRetries + 1)
<1>1. IsFiniteSet(Tries) /\ Cardinality(Tries) = LlmRetries + 1
  <2>1. 1 \in Int /\ LlmRetries + 1 \in Int /\ ~(1 > LlmRetries + 1)
    BY GuardNumbers
  <2> QED BY <2>1, FS_Interval DEF Tries
<1>2. /\ IsFiniteSet(Callers \X Tries)
      /\ Cardinality(Callers \X Tries) = Cardinality(Callers) * (LlmRetries + 1)
  BY <1>1, LlmGuardConstants, FS_Product
<1>3. Outstanding \subseteq Callers \X Tries
  BY DEF Outstanding
<1> QED BY <1>2, <1>3, FS_Subset, FS_CardinalityType

\* If no caller may send more than before, no more is outstanding ...
LEMMA OutstandingShrinks ==
  ASSUME \A c \in Callers : Remaining(c)' <= Remaining(c),
         \A c \in Callers : Remaining(c) \in Int /\ Remaining(c)' \in Int
  PROVE  /\ Outstanding' \subseteq Outstanding
         /\ Cardinality(Outstanding') \in Nat /\ Cardinality(Outstanding') <= Cardinality(Outstanding)
<1>0. Tries \subseteq Int
  BY GuardNumbers DEF Tries
<1>1. Outstanding' \subseteq Outstanding
  <2> SUFFICES ASSUME NEW o \in Callers \X Tries, o[2] <= Remaining(o[1])'
               PROVE  o[2] <= Remaining(o[1])
    BY DEF Outstanding
  <2>1. o[1] \in Callers /\ o[2] \in Int
    BY <1>0
  <2> QED BY <2>1
<1> QED BY <1>1, OutstandingBound, FS_Subset, FS_CardinalityType

\* ... and if one may send less, less is.
LEMMA OutstandingDrops ==
  ASSUME \A c \in Callers : Remaining(c)' <= Remaining(c),
         \A c \in Callers : Remaining(c) \in Int /\ Remaining(c)' \in Int,
         NEW c \in Callers, Remaining(c)' < Remaining(c), Remaining(c) \in Tries
  PROVE  /\ Cardinality(Outstanding') \in Nat
         /\ Cardinality(Outstanding') + 1 <= Cardinality(Outstanding)
<1>1. PICK o : o = <<c, Remaining(c)>>
  OBVIOUS
<1>2. o \in Outstanding /\ o \notin Outstanding'
  <2>1. o \in Callers \X Tries /\ o[1] = c /\ o[2] = Remaining(c)
    BY <1>1
  <2>2. o[2] <= Remaining(o[1]) /\ ~(o[2] <= Remaining(c)')
    BY <2>1
  <2>3. Remaining(o[1])' = Remaining(c)'
    BY <2>1 DEF Remaining
  <2> QED BY <2>1, <2>2, <2>3 DEF Outstanding
<1>3. Outstanding' \subseteq Outstanding \ {o}
  BY <1>2, OutstandingShrinks
<1>4. IsFiniteSet(Outstanding \ {o}) /\ Cardinality(Outstanding \ {o}) = Cardinality(Outstanding) - 1
  BY <1>2, OutstandingBound, FS_RemoveElement
<1>5. Cardinality(Outstanding') <= Cardinality(Outstanding) - 1 /\ IsFiniteSet(Outstanding')
  BY <1>3, <1>4, FS_Subset
<1> QED BY <1>5, OutstandingBound, FS_CardinalityType

\* What a caller may still send, from its record.
LEMMA RemainingTyped ==
  ASSUME GuardTypeOK, NEW c \in Callers
  PROVE  /\ Remaining(c) \in Nat /\ call[c] \in Calls
         /\ call[c].pc \in {"breaker", "sent", "settle"} =>
               Remaining(c) = LlmRetries + 1 - call[c].attempt /\ Remaining(c) \in Tries
<1>1. call[c] \in Calls /\ call[c].attempt \in 0 .. LlmRetries
  BY DEF GuardTypeOK, Calls
<1> QED BY <1>1, GuardNumbers DEF Remaining, Tries

\* The other callers' records and what they may send do not change when one moves.
LEMMA OthersStay ==
  ASSUME GuardTypeOK, NEW c \in Callers, NEW e \in Calls, call' = [call EXCEPT ![c] = e]
  PROVE  /\ call' \in [Callers -> Calls] /\ call'[c] = e
         /\ \A d \in Callers : d # c => call'[d] = call[d] /\ Remaining(d)' = Remaining(d)
<1>1. call' \in [Callers -> Calls] /\ call'[c] = e /\ \A d \in Callers : d # c => call'[d] = call[d]
  BY DEF GuardTypeOK
<1> QED BY <1>1 DEF Remaining

\* Types are kept, and so is what a caller's step does to its own record.
LEMMA GuardTypes ==
  ASSUME GuardTypeOK, [GuardNext]_guardVars
  PROVE  GuardTypeOK'
<1>0. /\ \A c \in Callers : call[c] \in Calls
      /\ circuit \in [state : {"closed", "open", "half_open"}, failures : Nat, waited : BOOLEAN]
      /\ ledger \in Nat /\ used \in Nat /\ lost \in Nat /\ call \in [Callers -> Calls]
  BY DEF GuardTypeOK
<1>m. ASSUME NEW c \in Callers, NEW pc \in CallStates, Moves(c, pc)
      PROVE  call' \in [Callers -> Calls]
  <2>1. [call[c] EXCEPT !.pc = pc] \in Calls
    BY <1>0 DEF Calls
  <2> QED BY <1>0, <1>m, <2>1 DEF Moves
<1>t. \A a \in Complete : a.tokens \in Nat
  BY GuardNumbers DEF Complete
<1>s. ASSUME NEW t \in Nat, Settle(t)
      PROVE  ledger' \in Nat /\ used' \in Nat /\ lost' \in Nat
  BY <1>0, <1>s DEF Settle
<1>1. CASE ResetTimePasses
  BY <1>1 DEF ResetTimePasses, GuardTypeOK
<1>2. ASSUME NEW c \in Callers, AnotherJob(c) \/ Ask(c)
      PROVE  GuardTypeOK'
  <2>1. [pc |-> "start", step |-> 0, attempt |-> 0] \in Calls
    BY GuardNumbers DEF Calls, CallStates
  <2>2. call[c].step \in Nat /\ [pc |-> "budget", step |-> call[c].step + 1, attempt |-> 0] \in Calls
    BY <1>0, GuardNumbers DEF Calls, CallStates
  <2>3. [call[c] EXCEPT !.pc = "fallback"] \in Calls
    BY <1>0 DEF Calls, CallStates
  <2>4. \E e \in Calls : call' = [call EXCEPT ![c] = e]
    BY <1>2, <2>1, <2>2, <2>3 DEF AnotherJob, Ask, Gates
  <2>5. UNCHANGED <<circuit, ledger, used, lost>>
    BY <1>2 DEF AnotherJob, Ask
  <2> QED BY <1>0, <2>4, <2>5 DEF GuardTypeOK
<1>3. ASSUME NEW c \in Callers, Acquire(c)
      PROVE  GuardTypeOK'
  <2>1. \E pc \in CallStates : Moves(c, pc)
    BY <1>3, GateOrder DEF Acquire, CallStates
  <2>2. circuit' \in [state : {"closed", "open", "half_open"}, failures : Nat, waited : BOOLEAN]
    BY <1>0, <1>3 DEF Acquire
  <2> QED BY <1>0, <1>3, <1>m, <2>1, <2>2 DEF GuardTypeOK, Acquire
<1>4. ASSUME NEW c \in Callers, RequestFails(c)
      PROVE  GuardTypeOK'
  <2>1. ledger' \in Nat /\ used' \in Nat /\ lost' \in Nat
    BY <1>4, <1>s, <1>t DEF RequestFails
  <2>2. CASE call[c].attempt < LlmRetries
    <3>1. [call[c] EXCEPT !.attempt = call[c].attempt + 1] \in Calls
      BY <1>0, <2>2, GuardNumbers DEF Calls
    <3>2. call' = [call EXCEPT ![c] = [call[c] EXCEPT !.attempt = call[c].attempt + 1]] /\ UNCHANGED circuit
      BY <1>0, <1>4, <2>2 DEF RequestFails
    <3> QED BY <1>0, <2>1, <3>1, <3>2 DEF GuardTypeOK
  <2>3. CASE ~(call[c].attempt < LlmRetries)
    <3>1. Moves(c, "fallback") /\ Failure
      BY <1>4, <2>3 DEF RequestFails
    <3>2. circuit' \in [state : {"closed", "open", "half_open"}, failures : Nat, waited : BOOLEAN]
      BY <1>0, <3>1 DEF Failure
    <3> QED BY <1>m, <2>1, <3>1, <3>2 DEF GuardTypeOK, CallStates
  <2> QED BY <2>2, <2>3
<1>5. ASSUME NEW c \in Callers, RequestAnswered(c)
      PROVE  GuardTypeOK'
  <2>1. circuit' \in [state : {"closed", "open", "half_open"}, failures : Nat, waited : BOOLEAN]
    BY <1>0, <1>5 DEF RequestAnswered, Success
  <2> QED BY <1>0, <1>5, <1>m, <2>1 DEF RequestAnswered, GuardTypeOK, CallStates
<1>6. ASSUME NEW c \in Callers, NEW r \in BOOLEAN, CheckBudget(c, r)
      PROVE  GuardTypeOK'
  <2>1. \E pc \in CallStates : Moves(c, pc)
    BY <1>6, GateOrder DEF CheckBudget, CallStates
  <2> QED BY <1>0, <1>6, <1>m, <2>1 DEF GuardTypeOK, CheckBudget
<1>7. ASSUME NEW c \in Callers, NEW reply \in Replies, Answer(c, reply)
      PROVE  GuardTypeOK'
  <2>1. \E pc \in CallStates : Moves(c, pc)
    BY <1>7 DEF Answer, CallStates
  <2>2. ledger' \in Nat /\ used' \in Nat /\ lost' \in Nat
    BY <1>7, <1>s, <1>t DEF Answer
  <2> QED BY <1>0, <1>7, <1>m, <2>1, <2>2 DEF GuardTypeOK, Answer
<1>8. CASE UNCHANGED guardVars
  BY <1>8 DEF guardVars, GuardTypeOK
<1> QED BY <1>1, <1>2, <1>3, <1>4, <1>5, <1>6, <1>7, <1>8 DEF GuardNext

\* The caller that turned the circuit half open is sent, and the circuit leaves that state before
\* the caller does.
LEMMA TrialStep ==
  ASSUME GuardTypeOK, TrialIsUnderWay, [GuardNext]_guardVars
  PROVE  TrialIsUnderWay'
<1>0. call \in [Callers -> Calls] /\ \A d \in Callers : call[d] \in Calls
  BY DEF GuardTypeOK
<1>m. ASSUME NEW c \in Callers, NEW pc, Moves(c, pc)
      PROVE  call'[c].pc = pc /\ \A d \in Callers : d # c => call'[d] = call[d]
  BY <1>0, <1>m DEF Moves, Calls
<1>o. ASSUME NEW c \in Callers, call[c].pc # "sent", \A d \in Callers : d # c => call'[d] = call[d],
             circuit'.state = "half_open" => circuit.state = "half_open"
      PROVE  TrialIsUnderWay'
  BY <1>o DEF TrialIsUnderWay
<1>1. CASE ResetTimePasses
  BY <1>1 DEF ResetTimePasses, TrialIsUnderWay, GuardTypeOK
<1>2. ASSUME NEW c \in Callers, AnotherJob(c) \/ Ask(c)
      PROVE  TrialIsUnderWay'
  <2>1. call[c].pc # "sent" /\ UNCHANGED circuit /\ \A d \in Callers : d # c => call'[d] = call[d]
    BY <1>0, <1>2 DEF AnotherJob, Ask
  <2> QED BY <1>o, <2>1
<1>3. ASSUME NEW c \in Callers, Acquire(c)
      PROVE  TrialIsUnderWay'
  <2>1. CASE circuit.state = "open" /\ circuit.waited
    <3>1. Moves(c, "sent")
      BY <1>3, <2>1, GateOrder DEF Acquire
    <3>2. call'[c].pc = "sent"
      BY <1>m, <3>1
    <3> QED BY <3>2 DEF TrialIsUnderWay
  <2>2. CASE ~(circuit.state = "open" /\ circuit.waited)
    <3>1. call[c].pc # "sent" /\ UNCHANGED circuit /\ \E pc : Moves(c, pc)
      BY <1>3, <2>2 DEF Acquire
    <3> QED BY <1>m, <1>o, <3>1
  <2> QED BY <2>1, <2>2
<1>4. ASSUME NEW c \in Callers, RequestFails(c)
      PROVE  TrialIsUnderWay'
  <2>1. CASE call[c].attempt < LlmRetries
    <3>1. call'[c].pc = "sent"
      BY <1>0, <1>4, <2>1 DEF RequestFails, Calls
    <3> QED BY <3>1 DEF TrialIsUnderWay
  <2>2. CASE ~(call[c].attempt < LlmRetries)
    <3>1. Failure
      BY <1>4, <2>2 DEF RequestFails
    <3>2. circuit'.state # "half_open"
      BY <3>1 DEF Failure, GuardTypeOK
    <3> QED BY <3>2 DEF TrialIsUnderWay
  <2> QED BY <2>1, <2>2
<1>5. ASSUME NEW c \in Callers, RequestAnswered(c)
      PROVE  TrialIsUnderWay'
  BY <1>5 DEF RequestAnswered, Success, GuardTypeOK, TrialIsUnderWay
<1>6. ASSUME NEW c \in Callers, NEW r \in BOOLEAN, CheckBudget(c, r)
      PROVE  TrialIsUnderWay'
  <2>1. call[c].pc # "sent" /\ UNCHANGED circuit /\ \E pc : Moves(c, pc)
    BY <1>6 DEF CheckBudget
  <2> QED BY <1>m, <1>o, <2>1
<1>7. ASSUME NEW c \in Callers, NEW reply \in Replies, Answer(c, reply)
      PROVE  TrialIsUnderWay'
  <2>1. call[c].pc # "sent" /\ UNCHANGED circuit /\ \E pc : Moves(c, pc)
    BY <1>7 DEF Answer
  <2> QED BY <1>m, <1>o, <2>1
<1>8. CASE UNCHANGED guardVars
  BY <1>8 DEF guardVars, TrialIsUnderWay
<1> QED BY <1>1, <1>2, <1>3, <1>4, <1>5, <1>6, <1>7, <1>8 DEF GuardNext

\* A row that is settled, or lost, takes one request off what is outstanding.
LEMMA SettleStep ==
  ASSUME GuardTypeOK, LedgerBounded, UsedIsKnown, NEW t \in Nat, t <= Worst, Settle(t),
         Cardinality(Outstanding') \in Nat, Cardinality(Outstanding') + 1 <= Cardinality(Outstanding)
  PROVE  LedgerBounded' /\ UsedIsKnown'
<1>0. /\ ledger \in Nat /\ used \in Nat /\ lost \in Nat /\ Worst \in Nat /\ Ceiling \in Nat
      /\ Cardinality(Outstanding) \in Nat /\ UNCHANGED Ceiling /\ UNCHANGED Worst
  BY GuardNumbers, OutstandingBound DEF GuardTypeOK, Ceiling, Worst
<1>1. /\ Cardinality(Outstanding') * Worst \in Nat /\ Cardinality(Outstanding) * Worst \in Nat
      /\ Cardinality(Outstanding') * Worst + Worst <= Cardinality(Outstanding) * Worst
  BY <1>0, OneLess
<1>2. ledger' \in Nat /\ ledger' <= ledger + Worst
  BY <1>0 DEF Settle
<1>3. ledger' + Cardinality(Outstanding') * Worst <= Ceiling
  BY <1>0, <1>1, <1>2 DEF LedgerBounded
<1>4. used' <= ledger' + lost' * Worst
  <2>1. CASE ledger' = ledger + t /\ lost' = lost
    <3>1. lost * Worst \in Nat
      BY <1>0
    <3> QED BY <1>0, <2>1, <3>1 DEF Settle, UsedIsKnown
  <2>2. CASE lost' = lost + 1 /\ ledger' = ledger
    <3>1. lost * Worst \in Nat /\ lost' * Worst \in Nat /\ lost * Worst + Worst <= lost' * Worst
      BY <1>0, <2>2, OneLess
    <3>2. used' = used + t /\ used <= ledger + lost * Worst
      BY DEF Settle, UsedIsKnown
    <3> QED BY <1>0, <2>2, <3>1, <3>2
  <2> QED BY <2>1, <2>2 DEF Settle
<1> QED BY <1>0, <1>3, <1>4 DEF LedgerBounded, UsedIsKnown

\* A step that settles nothing and lets nobody send more keeps both bounds.
LEMMA NoSpending ==
  ASSUME GuardTypeOK, LedgerBounded, UsedIsKnown, UNCHANGED <<ledger, used, lost>>,
         Cardinality(Outstanding') \in Nat, Cardinality(Outstanding') <= Cardinality(Outstanding)
  PROVE  LedgerBounded' /\ UsedIsKnown'
<1>0. /\ ledger \in Nat /\ used \in Nat /\ lost \in Nat /\ Worst \in Nat /\ Ceiling \in Nat
      /\ Cardinality(Outstanding) \in Nat /\ UNCHANGED Ceiling /\ UNCHANGED Worst
  BY GuardNumbers, OutstandingBound DEF GuardTypeOK, Ceiling, Worst
<1>1. /\ Cardinality(Outstanding') * Worst \in Nat /\ Cardinality(Outstanding) * Worst \in Nat
      /\ Cardinality(Outstanding') * Worst <= Cardinality(Outstanding) * Worst
  BY <1>0, NoMore
<1>2. ledger' + Cardinality(Outstanding') * Worst <= Ceiling
  BY <1>0, <1>1 DEF LedgerBounded
<1> QED BY <1>0, <1>2 DEF LedgerBounded, UsedIsKnown

\* Every step keeps the ledger and what is outstanding below the ceiling.
LEMMA SpendingStep ==
  ASSUME GuardTypeOK, GuardTypeOK', LedgerBounded, UsedIsKnown, [GuardNext]_guardVars
  PROVE  LedgerBounded' /\ UsedIsKnown'
<1>0. /\ call \in [Callers -> Calls] /\ call' \in [Callers -> Calls]
      /\ \A d \in Callers : call[d] \in Calls /\ Remaining(d) \in Nat
      /\ \A d \in Callers : call'[d] \in Calls /\ Remaining(d)' \in Nat
  <2>1. \A d \in Callers : call[d] \in Calls /\ Remaining(d) \in Nat
    BY RemainingTyped
  <2>2. ASSUME NEW d \in Callers
        PROVE  call'[d] \in Calls /\ Remaining(d)' \in Nat
    <3>1. call'[d] \in Calls /\ call'[d].attempt \in 0 .. LlmRetries
      BY DEF GuardTypeOK, Calls
    <3> QED BY <3>1, GuardNumbers DEF Remaining
  <2> QED BY <2>1, <2>2 DEF GuardTypeOK
<1>d. \A d \in Callers : call'[d] = call[d] => Remaining(d)' = Remaining(d)
  BY DEF Remaining
<1>t. \A a \in Complete : a.tokens \in Nat /\ a.tokens <= Worst
  BY GuardNumbers DEF Complete, Worst
<1>m. ASSUME NEW c \in Callers, NEW pc, Moves(c, pc)
      PROVE  /\ call'[c].pc = pc /\ call'[c].attempt = call[c].attempt
             /\ \A d \in Callers : d # c => call'[d] = call[d]
  BY <1>0, <1>m DEF Moves, Calls
<1>n. ASSUME NEW c \in Callers, Remaining(c)' <= Remaining(c), UNCHANGED <<ledger, used, lost>>,
             \A d \in Callers : d # c => call'[d] = call[d]
      PROVE  LedgerBounded' /\ UsedIsKnown'
  <2>1. \A d \in Callers : Remaining(d)' <= Remaining(d)
    BY <1>0, <1>d, <1>n
  <2> QED BY <1>0, <1>n, <2>1, OutstandingShrinks, NoSpending
<1>s. ASSUME NEW c \in Callers, Remaining(c)' < Remaining(c), Remaining(c) \in Tries,
             \A d \in Callers : d # c => call'[d] = call[d],
             \E a \in Complete : Settle(a.tokens)
      PROVE  LedgerBounded' /\ UsedIsKnown'
  <2>1. \A d \in Callers : Remaining(d)' <= Remaining(d)
    BY <1>0, <1>d, <1>s
  <2>2. /\ Cardinality(Outstanding') \in Nat
        /\ Cardinality(Outstanding') + 1 <= Cardinality(Outstanding)
    BY <1>0, <1>s, <2>1, OutstandingDrops
  <2>3. PICK t \in Nat : t <= Worst /\ Settle(t)
    BY <1>s, <1>t
  <2> QED BY <2>2, <2>3, SettleStep
<1>1. CASE ResetTimePasses \/ UNCHANGED guardVars
  <2>1. UNCHANGED <<call, ledger, used, lost>>
    BY <1>1 DEF ResetTimePasses, guardVars
  <2>2. Outstanding' = Outstanding
    BY <2>1 DEF Outstanding, Remaining
  <2> QED BY <2>1, <2>2, OutstandingBound, NoSpending
<1>2. ASSUME NEW c \in Callers, AnotherJob(c) \/ Ask(c)
      PROVE  LedgerBounded' /\ UsedIsKnown'
  <2>1. /\ call'[c].pc \in {"start", "budget", "fallback"} /\ UNCHANGED <<ledger, used, lost>>
        /\ \A d \in Callers : d # c => call'[d] = call[d]
    BY <1>0, <1>2 DEF AnotherJob, Ask, Gates, Calls
  <2>2. Remaining(c)' = 0
    BY <2>1 DEF Remaining
  <2> QED BY <1>0, <1>n, <2>1, <2>2
<1>3. ASSUME NEW c \in Callers, Acquire(c)
      PROVE  LedgerBounded' /\ UsedIsKnown'
  <2>1. call[c].pc = "breaker" /\ UNCHANGED <<ledger, used, lost>>
        /\ (Moves(c, "sent") \/ Moves(c, "fallback"))
    BY <1>3, GateOrder DEF Acquire
  <2>2. Remaining(c)' <= Remaining(c)
    <3>1. call'[c].attempt = call[c].attempt /\ call'[c].pc \in {"sent", "fallback"}
      BY <1>m, <2>1
    <3>2. CASE call'[c].pc = "sent"
      BY <1>0, <2>1, <3>1, <3>2 DEF Remaining
    <3>3. CASE call'[c].pc = "fallback"
      <4>1. Remaining(c)' = 0
        BY <3>3 DEF Remaining
      <4> QED BY <1>0, <4>1
    <3> QED BY <3>1, <3>2, <3>3
  <2> QED BY <1>m, <1>n, <2>1, <2>2
<1>4. ASSUME NEW c \in Callers, RequestFails(c)
      PROVE  LedgerBounded' /\ UsedIsKnown'
  <2>1. call[c].pc = "sent" /\ \E a \in Complete : Settle(a.tokens)
    BY <1>4 DEF RequestFails
  <2>2. Remaining(c) = LlmRetries + 1 - call[c].attempt /\ Remaining(c) \in Tries
    BY <2>1, RemainingTyped
  <2>3. CASE call[c].attempt < LlmRetries
    <3>1. /\ call'[c].pc = "sent" /\ call'[c].attempt = call[c].attempt + 1
          /\ \A d \in Callers : d # c => call'[d] = call[d]
      BY <1>0, <1>4, <2>1, <2>3 DEF RequestFails, Calls
    <3>2. Remaining(c)' = LlmRetries + 1 - (call[c].attempt + 1)
      BY <3>1 DEF Remaining
    <3>3. call[c].attempt \in Int /\ LlmRetries \in Int
      BY <1>0, GuardNumbers DEF Calls
    <3> QED BY <1>s, <2>1, <2>2, <3>1, <3>2, <3>3
  <2>4. CASE ~(call[c].attempt < LlmRetries)
    <3>1. Moves(c, "fallback")
      BY <1>4, <2>4 DEF RequestFails
    <3>2. Remaining(c)' = 0 /\ \A d \in Callers : d # c => call'[d] = call[d]
      BY <1>m, <3>1 DEF Remaining
    <3>3. Remaining(c)' < Remaining(c)
      BY <1>0, <2>2, <3>2 DEF Tries
    <3> QED BY <1>s, <2>1, <2>2, <3>2, <3>3
  <2> QED BY <2>3, <2>4
<1>5. ASSUME NEW c \in Callers, RequestAnswered(c)
      PROVE  LedgerBounded' /\ UsedIsKnown'
  <2>1. call[c].pc = "sent" /\ Moves(c, "settle") /\ UNCHANGED <<ledger, used, lost>>
    BY <1>5 DEF RequestAnswered
  <2>2. Remaining(c)' = Remaining(c)
    BY <1>m, <2>1 DEF Remaining
  <2> QED BY <1>0, <1>m, <1>n, <2>1, <2>2
<1>6. ASSUME NEW c \in Callers, NEW r \in BOOLEAN, CheckBudget(c, r)
      PROVE  LedgerBounded' /\ UsedIsKnown'
  <2>1. UNCHANGED <<ledger, used, lost>>
    BY <1>6 DEF CheckBudget
  <2>2. CASE Affordable
    <3>1. IsFiniteSet(Outstanding') /\ Cardinality(Outstanding') \in Nat
          /\ Cardinality(Outstanding') <= Cardinality(Callers) * (LlmRetries + 1)
      <4>1. IsFiniteSet(Tries) /\ Cardinality(Tries) = LlmRetries + 1
        <5>1. 1 \in Int /\ LlmRetries + 1 \in Int /\ ~(1 > LlmRetries + 1)
          BY GuardNumbers
        <5> QED BY <5>1, FS_Interval DEF Tries
      <4>2. /\ IsFiniteSet(Callers \X Tries)
            /\ Cardinality(Callers \X Tries) = Cardinality(Callers) * (LlmRetries + 1)
        BY <4>1, LlmGuardConstants, FS_Product
      <4>3. Outstanding' \subseteq Callers \X Tries
        BY DEF Outstanding
      <4> QED BY <4>2, <4>3, FS_Subset, FS_CardinalityType
    <3>2. /\ Cardinality(Outstanding') * Worst \in Nat
          /\ Cardinality(Outstanding') * Worst <= (Cardinality(Callers) * (LlmRetries + 1)) * Worst
      BY <3>1, GuardNumbers, NoMore
    <3>3. ledger <= Budget - Worst
      BY <2>2, GuardNumbers DEF Affordable, GuardTypeOK
    <3>4. ledger' + Cardinality(Outstanding') * Worst <= Ceiling
      <4>1. (Cardinality(Callers) * (LlmRetries + 1)) * Worst \in Nat
        BY GuardNumbers
      <4> QED BY <2>1, <3>2, <3>3, <4>1, GuardNumbers DEF Ceiling, GuardTypeOK
    <3> QED BY <2>1, <3>4 DEF LedgerBounded, UsedIsKnown, Ceiling, Worst
  <2>3. CASE ~Affordable
    <3>1. Moves(c, "fallback")
      BY <1>6, <2>3 DEF CheckBudget
    <3>2. Remaining(c)' = 0
      BY <1>m, <3>1 DEF Remaining
    <3> QED BY <1>0, <1>m, <1>n, <2>1, <3>1, <3>2
  <2> QED BY <2>2, <2>3
<1>7. ASSUME NEW c \in Callers, NEW reply \in Replies, Answer(c, reply)
      PROVE  LedgerBounded' /\ UsedIsKnown'
  <2>1. /\ call[c].pc = "settle" /\ \E a \in Complete : Settle(a.tokens)
        /\ Moves(c, "done") \/ Moves(c, "start")
    BY <1>7 DEF Answer
  <2>2. Remaining(c) \in Tries
    BY <2>1, RemainingTyped
  <2>3. Remaining(c)' = 0 /\ \A d \in Callers : d # c => call'[d] = call[d]
    BY <1>m, <2>1 DEF Remaining
  <2>4. Remaining(c)' < Remaining(c)
    BY <1>0, <2>2, <2>3 DEF Tries
  <2> QED BY <1>s, <2>1, <2>2, <2>3, <2>4
<1> QED BY <1>1, <1>2, <1>3, <1>4, <1>5, <1>6, <1>7 DEF GuardNext

\* For any number of callers, retries and lost rows, the circuit is half open only during a trial
\* and the budget is overshot by no more than the calls that were checked together.
THEOREM GuardAlwaysHolds == GuardSpec => []GuardHolds
<1>1. GuardInit => GuardInv
  <2> SUFFICES ASSUME GuardInit PROVE GuardInv
    OBVIOUS
  <2>1. GuardTypeOK /\ TrialIsUnderWay
    BY GuardNumbers DEF GuardInit, GuardTypeOK, TrialIsUnderWay, Calls, CallStates
  <2>2. Outstanding = {}
    <3>1. \A c \in Callers : Remaining(c) = 0
      BY DEF GuardInit, Remaining
    <3>2. \A o \in Callers \X Tries : o[1] \in Callers /\ o[2] \in Tries /\ ~(o[2] <= 0)
      BY GuardNumbers DEF Tries
    <3> QED BY <3>1, <3>2 DEF Outstanding
  <2>3. Cardinality(Outstanding) = 0
    BY <2>2, FS_EmptySet
  <2>4. LedgerBounded /\ UsedIsKnown
    BY <2>3, GuardNumbers DEF GuardInit, LedgerBounded, UsedIsKnown
  <2> QED BY <2>1, <2>4 DEF GuardInv
<1>2. GuardInv /\ [GuardNext]_guardVars => GuardInv'
  BY GuardTypes, TrialStep, SpendingStep DEF GuardInv
<1>3. GuardInv => GuardHolds
  <2> SUFFICES ASSUME GuardInv PROVE GuardHolds
    OBVIOUS
  <2>1. Cardinality(Outstanding) * Worst \in Nat /\ lost * Worst \in Nat
    BY GuardNumbers, OutstandingBound DEF GuardInv, GuardTypeOK
  <2>2. used <= Ceiling + lost * Worst
    BY <2>1, GuardNumbers DEF GuardInv, GuardTypeOK, LedgerBounded, UsedIsKnown
  <2> QED BY <2>2 DEF GuardInv, GuardHolds, OvershootIsBounded, Ceiling
<1> QED BY <1>1, <1>2, <1>3, PTL DEF GuardSpec
-----------------------------------------------------------------------------
(***************************************************************************)
(* Sums over rows.                                                         *)
(***************************************************************************)

\* Induction over the subsets of a finite set.
LEMMA EvSubsets ==
    ASSUME NEW S, IsFiniteSet(S), NEW T, {} \in T,
           \A s \in SUBSET S : s # {} /\ (\A x \in s : s \ {x} \in T) => s \in T
    PROVE  SUBSET S \subseteq T
<1> DEFINE Bad == {Cardinality(s) : s \in (SUBSET S) \ T}
<1>1. \A s \in SUBSET S : IsFiniteSet(s) /\ Cardinality(s) \in Nat
  BY FS_Subset, FS_CardinalityType
<1> SUFFICES ASSUME Bad # {} PROVE FALSE
  OBVIOUS
<1>2. PICK n \in Bad : \A k \in Bad : n <= k
  <2>1. Bad \subseteq Nat
    BY <1>1
  <2> HIDE DEF Bad
  <2> QED
    BY <2>1, LeastNat
<1>3. PICK s \in (SUBSET S) \ T : n = Cardinality(s)
  OBVIOUS
<1>4. ASSUME NEW x \in s PROVE s \ {x} \in T
  <2>1. Cardinality(s \ {x}) = n - 1 /\ n \in Nat
    BY <1>1, <1>3, FS_RemoveElement
  <2>2. s \ {x} \in SUBSET S
    OBVIOUS
  <2>3. Cardinality(s \ {x}) \notin Bad
    BY <1>2, <2>1
  <2> QED
    BY <2>2, <2>3
<1> QED
  BY <1>3, <1>4

\* The element a fold takes next.
EvAny(s) == CHOOSE x \in s : TRUE

LEMMA EvAnyIn == \A s : s # {} => EvAny(s) \in s
  BY DEF EvAny

\* A fold of the elements of a finite set: a function of its subsets, computed from smaller ones.
EvIsFold(g, S, base, F) ==
    g = [s \in SUBSET S |-> IF s = {} THEN base ELSE F[<<EvAny(s), g[s \ {EvAny(s)}]>>]]

LEMMA EvFoldExists ==
    ASSUME NEW S, IsFiniteSet(S), NEW V, NEW base \in V, NEW F \in [S \X V -> V]
    PROVE  \E g \in [SUBSET S -> V] : EvIsFold(g, S, base, F)
<1> DEFINE Up(n) == {s \in SUBSET S : Cardinality(s) <= n}
           Step(g, s) == IF s = {} THEN base ELSE F[<<EvAny(s), g[s \ {EvAny(s)}]>>]
           Has(n) == \E g \in [Up(n) -> V] : \A s \in Up(n) : g[s] = Step(g, s)
           Bad == {n \in Nat : ~Has(n)}
<1>3. \A s \in SUBSET S : IsFiniteSet(s) /\ Cardinality(s) \in Nat
  BY FS_Subset, FS_CardinalityType
<1>4. \A n \in Nat : \A s \in Up(n) : s # {} => s \ {EvAny(s)} \in Up(n) /\ (n > 0 => s \ {EvAny(s)} \in Up(n - 1))
  <2> SUFFICES ASSUME NEW n \in Nat, NEW s \in Up(n), s # {}
               PROVE  s \ {EvAny(s)} \in Up(n) /\ (n > 0 => s \ {EvAny(s)} \in Up(n - 1))
    OBVIOUS
  <2>1. Cardinality(s \ {EvAny(s)}) = Cardinality(s) - 1 /\ Cardinality(s) \in Nat
    BY <1>3, EvAnyIn, FS_RemoveElement
  <2> QED
    BY <2>1
<1>5. Has(0)
  <2>1. \A s \in Up(0) : s = {}
    BY <1>3, FS_EmptySet
  <2>2. [s \in Up(0) |-> base] \in [Up(0) -> V]
    OBVIOUS
  <2> QED
    BY <2>1, <2>2
<1>6. ASSUME NEW n \in Nat, n > 0, Has(n - 1) PROVE Has(n)
  <2>1. PICK g \in [Up(n - 1) -> V] : \A s \in Up(n - 1) : g[s] = Step(g, s)
    BY <1>6
  <2>2. PICK h : h = [s \in Up(n) |-> Step(g, s)]
    OBVIOUS
  <2>3. ASSUME NEW s \in Up(n) PROVE h[s] = Step(g, s) /\ h[s] \in V
    <3>1. s # {} => g[s \ {EvAny(s)}] \in V /\ EvAny(s) \in S
      BY <1>4, <1>6, EvAnyIn
    <3> QED
      BY <2>2, <3>1
  <2>4. \A s \in Up(n - 1) : s \in Up(n) /\ h[s] = g[s]
    <3>1. \A s \in Up(n - 1) : s \in Up(n)
      BY <1>3, <1>6
    <3> QED
      BY <2>1, <2>3, <3>1
  <2>5. \A s \in Up(n) : h[s] = Step(h, s)
    BY <1>4, <1>6, <2>3, <2>4
  <2>6. h \in [Up(n) -> V]
    BY <2>2, <2>3
  <2> QED
    BY <2>5, <2>6
<1>7. Has(Cardinality(S))
  <2> HIDE DEF Has
  <2> SUFFICES ASSUME Bad # {} PROVE FALSE
    BY <1>3
  <2>1. PICK n \in Bad : \A k \in Bad : n <= k
    BY LeastNat
  <2>2. n > 0
    BY <1>5
  <2>3. n - 1 \in Nat /\ n - 1 \notin Bad
    BY <2>1, <2>2
  <2> QED
    BY <1>6, <2>2, <2>3
<1>8. Up(Cardinality(S)) = SUBSET S
  BY FS_Subset
<1>9. PICK g \in [SUBSET S -> V] : \A s \in SUBSET S : g[s] = Step(g, s)
  BY <1>7, <1>8
<1>11. g = [s \in SUBSET S |-> g[s]]
  OBVIOUS
<1> QED
  BY <1>9, <1>11 DEF EvIsFold

\* A sum over a finite set, taken element by element.
EvIsSum(g, f) ==
    /\ g \in [SUBSET DOMAIN f -> Int] /\ g[{}] = 0 /\ SumFunction(f) = g[DOMAIN f]
    /\ \A s \in SUBSET DOMAIN f : s # {} => g[s] = f[EvAny(s)] + g[s \ {EvAny(s)}]

LEMMA EvSummed ==
    ASSUME NEW S, IsFiniteSet(S), NEW f \in [S -> Int]
    PROVE  \E g : EvIsSum(g, f)
<1>1. PICK F : F = [p \in S \X Int |-> f[p[1]] + p[2]]
  OBVIOUS
<1>2. F \in [S \X Int -> Int] /\ \A x \in S, v \in Int : F[<<x, v>>] = f[x] + v
  BY <1>1
<1>3. PICK g \in [SUBSET S -> Int] : EvIsFold(g, S, 0, F)
  <2>1. F \in [S \X Int -> Int] /\ 0 \in Int
    BY <1>2
  <2> QED
    BY <2>1, EvFoldExists, Zenon
<1> DEFINE Sums(h) == h = [s \in SUBSET S |-> IF s = {} THEN 0
                              ELSE f[EvAny(s)] + h[s \ {EvAny(s)}]]
<1>4. \A s \in SUBSET S : s # {} => EvAny(s) \in s
  BY EvAnyIn
<1>5. g = [s \in SUBSET S |-> g[s]]
  OBVIOUS
<1>6. \A s \in SUBSET S : g[s] = IF s = {} THEN 0
                              ELSE f[EvAny(s)] + g[s \ {EvAny(s)}]
  <2>1. \A s \in SUBSET S : g[s] = IF s = {} THEN 0
                              ELSE F[<<EvAny(s), g[s \ {EvAny(s)}]>>]
    BY <1>3 DEF EvIsFold
  <2>2. ASSUME NEW s \in SUBSET S, s # {}
        PROVE  F[<<EvAny(s), g[s \ {EvAny(s)}]>>] = f[EvAny(s)] + g[s \ {EvAny(s)}]
    <3>1. PICK x, t : x = EvAny(s) /\ t = s \ {x}
      OBVIOUS
    <3>2. x \in S /\ t \in SUBSET S /\ g[t] \in Int
      BY <1>4, <2>2, <3>1
    <3> QED
      BY <1>2, <3>1, <3>2
  <2> QED
    BY <2>1, <2>2
<1>7. Sums(g)
  BY <1>5, <1>6
<1>8. SumFunction(f) = (CHOOSE h : Sums(h))[S]
  <2>1. DOMAIN f = S
    OBVIOUS
  <2> QED
    BY <2>1 DEF SumFunction, SumFunctionOnSet, FoldFunctionOnSet, MapThenFoldSet, EvAny
<1>9. PICK h : h = CHOOSE k : Sums(k)
  OBVIOUS
<1>10. Sums(h)
  <2> HIDE DEF Sums
  <2> QED
    BY <1>7, <1>9
<1>11. \A s \in SUBSET S : h[s] = g[s]
  <2>1. PICK T : T = {s \in SUBSET S : h[s] = g[s]}
    OBVIOUS
  <2>2. \A s \in SUBSET S : h[s] = IF s = {} THEN 0
                              ELSE f[EvAny(s)] + h[s \ {EvAny(s)}]
    BY <1>10
  <2>3. {} \in T
    BY <1>6, <2>1, <2>2
  <2>4. ASSUME NEW s \in SUBSET S, s # {}, \A x \in s : s \ {x} \in T PROVE s \in T
    BY <1>4, <1>6, <2>1, <2>2, <2>4
  <2>5. SUBSET S \subseteq T
    BY <2>3, <2>4, EvSubsets
  <2> QED
    BY <2>1, <2>5
<1>12. SumFunction(f) = g[S]
  BY <1>8, <1>9, <1>11
<1>13. \A s \in SUBSET S : s # {} => g[s] = f[EvAny(s)] + g[s \ {EvAny(s)}]
  BY <1>4, <1>6
<1>14. DOMAIN f = S /\ g[{}] = 0
  BY <1>6
<1>15. EvIsSum(g, f)
  BY <1>3, <1>12, <1>13, <1>14 DEF EvIsSum
<1> QED
  BY <1>15

LEMMA EvSumMonotone ==
    ASSUME NEW S, IsFiniteSet(S), NEW f \in [S -> Int], NEW g \in [S -> Int],
           \A i \in S : f[i] <= g[i]
    PROVE  SumFunction(f) <= SumFunction(g)
<1>1. PICK h, k : EvIsSum(h, f) /\ EvIsSum(k, g)
  BY EvSummed
<1>2. /\ h \in [SUBSET S -> Int] /\ h[{}] = 0 /\ SumFunction(f) = h[S]
      /\ k \in [SUBSET S -> Int] /\ k[{}] = 0 /\ SumFunction(g) = k[S]
      /\ \A s \in SUBSET S : s # {} => /\ h[s] = f[EvAny(s)] + h[s \ {EvAny(s)}]
                                       /\ k[s] = g[EvAny(s)] + k[s \ {EvAny(s)}]
  BY <1>1 DEF EvIsSum
<1>3. PICK T : T = {s \in SUBSET S : h[s] <= k[s]}
  OBVIOUS
<1>4. ASSUME NEW s \in SUBSET S, s # {}, \A x \in s : s \ {x} \in T PROVE s \in T
  <2>1. PICK x \in s : x = EvAny(s)
    BY <1>4, EvAnyIn
  <2>2. h[s] = f[x] + h[s \ {x}] /\ k[s] = g[x] + k[s \ {x}]
    BY <1>2, <1>4, <2>1
  <2>3. h[s \ {x}] <= k[s \ {x}] /\ h[s \ {x}] \in Int /\ k[s \ {x}] \in Int
    BY <1>2, <1>3, <1>4
  <2>4. f[x] \in Int /\ g[x] \in Int /\ f[x] <= g[x]
    OBVIOUS
  <2>5. h[s] <= k[s]
    BY <2>2, <2>3, <2>4
  <2> QED
    BY <1>3, <2>5
<1>5. {} \in T
  BY <1>2, <1>3
<1>6. SUBSET S \subseteq T
  BY <1>4, <1>5, EvSubsets
<1> QED
  BY <1>2, <1>3, <1>6

LEMMA EvSumInt ==
    ASSUME NEW S, IsFiniteSet(S), NEW f \in [S -> Int]
    PROVE  /\ SumFunction(f) \in Int
           /\ (\A i \in S : f[i] >= 0) => SumFunction(f) >= 0
           /\ (\A i \in S : f[i] = 0) => SumFunction(f) = 0
<1>1. PICK h : EvIsSum(h, f)
  BY EvSummed
<1>2. /\ h \in [SUBSET S -> Int] /\ h[{}] = 0 /\ SumFunction(f) = h[S]
      /\ \A s \in SUBSET S : s # {} => h[s] = f[EvAny(s)] + h[s \ {EvAny(s)}]
  BY <1>1 DEF EvIsSum
<1>3. PICK T : T = {s \in SUBSET S : /\ (\A i \in S : f[i] >= 0) => h[s] >= 0
                                     /\ (\A i \in S : f[i] = 0) => h[s] = 0}
  OBVIOUS
<1>4. ASSUME NEW s \in SUBSET S, s # {}, \A x \in s : s \ {x} \in T PROVE s \in T
  <2>1. PICK x \in s : x = EvAny(s)
    BY <1>4, EvAnyIn
  <2>2. h[s] = f[x] + h[s \ {x}] /\ f[x] \in Int /\ h[s \ {x}] \in Int
    BY <1>2, <1>4, <2>1
  <2>3. s \ {x} \in T
    BY <1>4
  <2>4. (\A i \in S : f[i] >= 0) => h[s] >= 0
    BY <1>3, <2>2, <2>3
  <2>5. (\A i \in S : f[i] = 0) => h[s] = 0
    BY <1>3, <2>2, <2>3
  <2> QED
    BY <1>3, <2>4, <2>5
<1>5. {} \in T
  BY <1>2, <1>3
<1>6. SUBSET S \subseteq T
  BY <1>4, <1>5, EvSubsets
<1> QED
  BY <1>2, <1>3, <1>6

\* What is counted is a sum of ones.
LEMMA EvCounted ==
    ASSUME NEW S, IsFiniteSet(S), NEW b \in [S -> BOOLEAN]
    PROVE  EvCount(b) = SumFunction([i \in S |-> IF b[i] THEN 1 ELSE 0])
<1>1. PICK f : f = [i \in S |-> IF b[i] THEN 1 ELSE 0]
  OBVIOUS
<1>2. f \in [S -> Int] /\ \A i \in S : f[i] = IF b[i] THEN 1 ELSE 0
  BY <1>1
<1>3. PICK h : EvIsSum(h, f)
  BY <1>2, EvSummed
<1>4. /\ h \in [SUBSET S -> Int] /\ h[{}] = 0 /\ SumFunction(f) = h[S]
      /\ \A s \in SUBSET S : s # {} => h[s] = f[EvAny(s)] + h[s \ {EvAny(s)}]
  BY <1>2, <1>3 DEF EvIsSum
<1> DEFINE Of(s) == {i \in s : b[i]}
<1>5. PICK T : T = {s \in SUBSET S : Cardinality(Of(s)) = h[s]}
  OBVIOUS
<1>6. \A s \in SUBSET S : IsFiniteSet(Of(s)) /\ Cardinality(Of(s)) \in Nat
  <2>1. \A s \in SUBSET S : Of(s) \in SUBSET S
    OBVIOUS
  <2> QED
    BY <2>1, FS_Subset, FS_CardinalityType
<1> HIDE DEF Of
<1>7. ASSUME NEW s \in SUBSET S, s # {}, \A x \in s : s \ {x} \in T PROVE s \in T
  <2>1. PICK x \in s : x = EvAny(s)
    BY <1>7, EvAnyIn
  <2>2. PICK c, d : c = Cardinality(Of(s)) /\ d = Cardinality(Of(s \ {x}))
    OBVIOUS
  <2>3. h[s] = f[x] + d
    BY <1>4, <1>5, <1>7, <2>1, <2>2
  <2>4. Of(s \ {x}) = Of(s) \ {x}
    BY DEF Of
  <2>5. c \in Nat /\ d = IF x \in Of(s) THEN c - 1 ELSE c
    BY <1>6, <2>2, <2>4, FS_RemoveElement
  <2>6. f[x] = IF x \in Of(s) THEN 1 ELSE 0
    BY <1>2 DEF Of
  <2>7. c = h[s]
    BY <2>3, <2>5, <2>6
  <2> QED
    BY <1>5, <2>2, <2>7
<1>8. {} \in T
  <2>1. Of({}) = {}
    BY DEF Of
  <2>2. Cardinality(Of({})) = 0
    BY <2>1, FS_EmptySet
  <2> QED
    BY <1>4, <1>5, <2>2
<1>9. SUBSET S \subseteq T
  BY <1>7, <1>8, EvSubsets
<1>10. EvCount(b) = Cardinality(Of(S))
  BY DEF EvCount, Of
<1> QED
  BY <1>1, <1>4, <1>5, <1>9, <1>10

\* Whole numbers added as fractions.
LEMMA EvTotalOfInts ==
    ASSUME NEW S, IsFiniteSet(S), NEW v \in [S -> Int]
    PROVE  EvTotal([i \in S |-> <<v[i], 1>>]) = <<SumFunction(v), 1>>
<1>1. PICK f : f = [i \in S |-> <<v[i], 1>>]
  OBVIOUS
<1>2. DOMAIN f = S /\ \A i \in S : f[i] = <<v[i], 1>>
  BY <1>1
<1>3. PICK g : EvIsSum(g, v)
  BY EvSummed
<1>4. /\ g \in [SUBSET S -> Int] /\ g[{}] = 0 /\ SumFunction(v) = g[S]
      /\ \A s \in SUBSET S : s # {} => g[s] = v[EvAny(s)] + g[s \ {EvAny(s)}]
  BY <1>3 DEF EvIsSum
<1> DEFINE Totals(h) == h = [s \in SUBSET S |-> IF s = {} THEN <<0, 1>>
                                                ELSE EvAdd(f[EvAny(s)], h[s \ {EvAny(s)}])]
<1>5. EvTotal(f) = (CHOOSE h : Totals(h))[S]
  BY <1>2 DEF EvTotal, FoldFunction, FoldFunctionOnSet, MapThenFoldSet, EvAny
<1>6. PICK k : k = [s \in SUBSET S |-> <<g[s], 1>>]
  OBVIOUS
<1>7. ASSUME NEW s \in SUBSET S, s # {} PROVE EvAdd(f[EvAny(s)], <<g[s \ {EvAny(s)}], 1>>) = <<g[s], 1>>
  <2>1. EvAny(s) \in S
    BY <1>7, EvAnyIn
  <2>2. PICK x, y : x = v[EvAny(s)] /\ y = g[s \ {EvAny(s)}]
    OBVIOUS
  <2>3. x \in Int /\ y \in Int /\ f[EvAny(s)] = <<x, 1>> /\ g[s] = x + y
    BY <1>2, <1>4, <1>7, <2>1, <2>2
  <2>4. EvAdd(<<x, 1>>, <<y, 1>>) = <<x + y, 1>>
    BY <2>3 DEF EvAdd
  <2> QED
    BY <2>2, <2>3, <2>4
<1>8. Totals(k)
  <2>1. \A s \in SUBSET S : k[s] = IF s = {} THEN <<0, 1>> ELSE EvAdd(f[EvAny(s)], k[s \ {EvAny(s)}])
    BY <1>4, <1>6, <1>7
  <2>2. k = [s \in SUBSET S |-> k[s]]
    BY <1>6
  <2> QED
    BY <2>1, <2>2
<1>9. PICK h : h = CHOOSE j : Totals(j)
  OBVIOUS
<1>10. Totals(h)
  <2> HIDE DEF Totals
  <2> QED
    BY <1>8, <1>9
<1>11. PICK T : T = {s \in SUBSET S : h[s] = <<g[s], 1>>}
  OBVIOUS
<1>12. \A s \in SUBSET S : h[s] = IF s = {} THEN <<0, 1>> ELSE EvAdd(f[EvAny(s)], h[s \ {EvAny(s)}])
  BY <1>10
<1>13. {} \in T
  BY <1>4, <1>11, <1>12
<1>14. ASSUME NEW s \in SUBSET S, s # {}, \A x \in s : s \ {x} \in T PROVE s \in T
  <2>1. h[s \ {EvAny(s)}] = <<g[s \ {EvAny(s)}], 1>>
    BY <1>11, <1>14, EvAnyIn
  <2> QED
    BY <1>7, <1>11, <1>12, <1>14, <2>1
<1>15. SUBSET S \subseteq T
  BY <1>13, <1>14, EvSubsets
<1>16. h[S] = <<SumFunction(v), 1>>
  BY <1>4, <1>11, <1>15
<1> QED
  BY <1>1, <1>5, <1>9, <1>16

-----------------------------------------------------------------------------
(***************************************************************************)
(* The gate: a model that is nowhere worse is not worse in any sample.     *)
(***************************************************************************)

LEMMA EvScaled ==
    ASSUME NEW x \in Int, NEW y \in Int, NEW n \in Nat, x <= y
    PROVE  x * n <= y * n /\ n * x <= n * y
<1>1. (y - x) * n >= 0
  OBVIOUS
<1>2. (y - x) * n = y * n - x * n
  OBVIOUS
<1>3. n * x = x * n /\ n * y = y * n
  OBVIOUS
<1> QED
  BY <1>1, <1>2, <1>3

\* The sign of an improvement is that of the scores multiplied crosswise.
LEMMA EvCrosswise ==
    ASSUME NEW metric, NEW p \in Int, NEW q \in Int, NEW r \in Int, NEW s \in Int
    PROVE  EvImprovement(metric, <<p, q>>, <<r, s>>)[1]
               = IF EvHigherIsBetter(metric) THEN p * s - r * q ELSE r * q - p * s
<1>1. EvAdd(<<p, q>>, EvMinus(<<r, s>>)) = <<p * s + (0 - r) * q, q * s>>
  BY DEF EvAdd, EvMinus
<1>2. p * s + (0 - r) * q = p * s - r * q
  OBVIOUS
<1>3. 0 - (p * s - r * q) = r * q - p * s
  OBVIOUS
<1> QED
  BY <1>1, <1>2, <1>3 DEF EvImprovement, EvMinus

\* a is no worse a score than b.
EvAtLeast(metric, a, b) ==
    EvImprovement(metric, a, b)[1] >= 0 /\ ~(EvImprovement(metric, b, a)[1] > 0)

LEMMA EvCompared ==
    ASSUME NEW metric, NEW p \in Int, NEW q \in Int, NEW r \in Int, NEW s \in Int,
           IF EvHigherIsBetter(metric) THEN p * s >= r * q ELSE p * s <= r * q
    PROVE  EvAtLeast(metric, <<p, q>>, <<r, s>>)
<1>1. p * s \in Int /\ r * q \in Int
  OBVIOUS
<1>2. EvImprovement(metric, <<p, q>>, <<r, s>>)[1]
          = IF EvHigherIsBetter(metric) THEN p * s - r * q ELSE r * q - p * s
  BY EvCrosswise
<1>3. EvImprovement(metric, <<r, s>>, <<p, q>>)[1]
          = IF EvHigherIsBetter(metric) THEN r * q - p * s ELSE p * s - r * q
  BY EvCrosswise
<1> QED
  BY <1>1, <1>2, <1>3 DEF EvAtLeast

\* Hits over hits and misses: more hits and fewer misses are no worse; nor is no hit worse than none.
LEMMA EvRatios ==
    ASSUME NEW metric, EvHigherIsBetter(metric), NEW t \in Nat, NEW u \in Nat, NEW d \in Nat, NEW e \in Nat,
           (t >= u /\ d <= e) \/ (t = 0 /\ u = 0)
    PROVE  EvAtLeast(metric, EvRatio(t, t + d), EvRatio(u, u + e))
<1>1. PICK p, q : /\ EvRatio(t, t + d) = <<p, q>> /\ p \in Nat /\ q \in Nat
                  /\ \/ t + d = 0 /\ p = 0 /\ q = 1
                     \/ p = t /\ q = t + d
  BY DEF EvRatio
<1>2. PICK r, s : /\ EvRatio(u, u + e) = <<r, s>> /\ r \in Nat /\ s \in Nat
                  /\ \/ u + e = 0 /\ r = 0 /\ s = 1
                     \/ r = u /\ s = u + e
  BY DEF EvRatio
<1>3. p * s >= r * q
  <2>1. CASE r = 0
    <3>1. r * q = 0 /\ p * s >= 0
      BY <1>1, <1>2, <2>1
    <3> QED
      BY <3>1
  <2>2. CASE r # 0
    <3>1. r = u /\ s = u + e /\ t >= u /\ d <= e /\ p = t /\ q = t + d
      BY <1>1, <1>2, <2>2
    <3>2. u * e <= t * e /\ u * d <= u * e
      BY <3>1, EvScaled
    <3>3. t * (u + e) = u * t + t * e /\ u * (t + d) = u * t + u * d
      OBVIOUS
    <3>4. u * e \in Int /\ t * e \in Int /\ u * d \in Int /\ u * t \in Int
      OBVIOUS
    <3> QED
      BY <3>1, <3>2, <3>3, <3>4
  <2> QED
    BY <2>1, <2>2
<1> QED
  BY <1>1, <1>2, <1>3, EvCompared

\* What rows add to a metric, and that one model's rows are nowhere worse than another's.
EvRowsFit(metric, a) ==
    \A i \in EvIndex : IF metric = "f1" THEN a[i][1] \in Nat /\ a[i][2] \in Nat /\ a[i][3] \in Nat
                       ELSE a[i][1] \in Int

EvAhead(metric, a, b) ==
    CASE metric = "accuracy" -> \A i \in EvIndex : a[i][1] >= b[i][1]
      [] metric = "rmse" -> \A i \in EvIndex : a[i][1] <= b[i][1]
      [] metric = "f1" ->
            \/ \A i \in EvIndex : a[i][1] >= b[i][1] /\ a[i][2] <= b[i][2] /\ a[i][3] <= b[i][3]
            \/ \A i \in EvIndex : a[i][1] = 0 /\ b[i][1] = 0

LEMMA EvStatAhead ==
    ASSUME NEW metric \in {"accuracy", "rmse", "f1"}, NEW a, NEW b,
           EvRowsFit(metric, a), EvRowsFit(metric, b), EvAhead(metric, a, b),
           NEW D, IsFiniteSet(D), NEW pick \in [D -> EvIndex]
    PROVE  EvAtLeast(metric, EvStat(metric, a, pick), EvStat(metric, b, pick))
<1> DEFINE Part(r, k) == [i \in D |-> r[pick[i]][k]]
<1>1. DOMAIN pick = D /\ \A i \in D : pick[i] \in EvIndex
  OBVIOUS
<1>2. Cardinality(D) \in Nat
  BY FS_CardinalityType
<1>3. CASE metric # "f1"
  <2>1. PICK f, g : f = Part(a, 1) /\ g = Part(b, 1)
    OBVIOUS
  <2>2. f \in [D -> Int] /\ g \in [D -> Int]
    BY <1>1, <1>3, <2>1 DEF EvRowsFit
  <2>3. \A i \in D : IF metric = "accuracy" THEN f[i] >= g[i] ELSE f[i] <= g[i]
    BY <1>1, <1>3, <2>1 DEF EvAhead
  <2>4. PICK p, r : p = SumFunction(f) /\ r = SumFunction(g)
    OBVIOUS
  <2>5. p \in Int /\ r \in Int
    BY <2>2, <2>4, EvSumInt
  <2>6. PICK n \in Nat : n = Cardinality(D)
    BY <1>2
  <2>7. EvStat(metric, a, pick) = <<p, n>> /\ EvStat(metric, b, pick) = <<r, n>>
    BY <1>1, <1>3, <2>1, <2>4, <2>6 DEF EvStat
  <2>8. CASE metric = "accuracy"
    <3>1. r <= p
      <4>1. \A i \in D : g[i] <= f[i]
        BY <2>2, <2>3, <2>8
      <4> QED
        BY <2>2, <2>4, <4>1, EvSumMonotone
    <3>2. r * n <= p * n
      BY <2>5, <3>1, EvScaled
    <3>3. p * n >= r * n
      BY <2>5, <3>2
    <3> QED
      BY <2>5, <2>7, <2>8, <3>3, EvCompared DEF EvHigherIsBetter
  <2>9. CASE metric = "rmse"
    <3>1. p <= r
      <4>1. \A i \in D : f[i] <= g[i]
        BY <2>2, <2>3, <2>9
      <4> QED
        BY <2>2, <2>4, <4>1, EvSumMonotone
    <3>2. p * n <= r * n
      BY <2>5, <3>1, EvScaled
    <3> QED
      BY <2>5, <2>7, <2>9, <3>2, EvCompared DEF EvHigherIsBetter
  <2> QED
    BY <1>3, <2>8, <2>9
<1>4. CASE metric = "f1"
  <2>1. \A k \in {1, 2, 3} : /\ Part(a, k) \in [D -> Int] /\ \A i \in D : Part(a, k)[i] >= 0
                             /\ Part(b, k) \in [D -> Int] /\ \A i \in D : Part(b, k)[i] >= 0
    BY <1>1, <1>4 DEF EvRowsFit
  <2>2. PICK p : p = [k \in {1, 2, 3} |-> SumFunction(Part(a, k))]
    OBVIOUS
  <2>3. PICK r : r = [k \in {1, 2, 3} |-> SumFunction(Part(b, k))]
    OBVIOUS
  <2>4. ASSUME NEW k \in {1, 2, 3} PROVE p[k] \in Nat /\ r[k] \in Nat
    <3>1. PICK f, g : f = Part(a, k) /\ g = Part(b, k)
      OBVIOUS
    <3>2. /\ f \in [D -> Int] /\ \A i \in D : f[i] >= 0
          /\ g \in [D -> Int] /\ \A i \in D : g[i] >= 0
      BY <2>1, <3>1
    <3>3. SumFunction(f) \in Int /\ SumFunction(f) >= 0 /\ SumFunction(g) \in Int /\ SumFunction(g) >= 0
      BY <3>2, EvSumInt
    <3>4. p[k] = SumFunction(f) /\ r[k] = SumFunction(g)
      BY <2>2, <2>3, <3>1
    <3> QED
      BY <3>3, <3>4
  <2>5. \/ p[1] >= r[1] /\ p[2] <= r[2] /\ p[3] <= r[3]
        \/ p[1] = 0 /\ r[1] = 0
    <3>1. CASE \A i \in EvIndex : a[i][1] = 0 /\ b[i][1] = 0
      <4>1. \A i \in D : Part(a, 1)[i] = 0 /\ Part(b, 1)[i] = 0
        BY <1>1, <3>1
      <4>2. PICK f, g : f = Part(a, 1) /\ g = Part(b, 1)
        OBVIOUS
      <4>3. SumFunction(f) = 0 /\ SumFunction(g) = 0
        BY <2>1, <4>1, <4>2, EvSumInt
      <4> QED
        BY <2>2, <2>3, <4>2, <4>3
    <3>2. CASE \A i \in EvIndex : a[i][1] >= b[i][1] /\ a[i][2] <= b[i][2] /\ a[i][3] <= b[i][3]
      <4>1. ASSUME NEW k \in {1, 2, 3}, NEW f, NEW g, f \in {Part(a, k), Part(b, k)}, g \in {Part(a, k), Part(b, k)},
                   \A i \in D : f[i] <= g[i]
            PROVE  SumFunction(f) <= SumFunction(g)
        <5>1. f \in [D -> Int] /\ g \in [D -> Int]
          BY <2>1, <4>1
        <5> QED
          BY <4>1, <5>1, EvSumMonotone
      <4>2. \A i \in D : /\ Part(b, 1)[i] <= Part(a, 1)[i] /\ Part(a, 2)[i] <= Part(b, 2)[i]
                         /\ Part(a, 3)[i] <= Part(b, 3)[i]
        <5>1. ASSUME NEW i \in D PROVE /\ b[pick[i]][1] <= a[pick[i]][1] /\ a[pick[i]][2] <= b[pick[i]][2]
                                       /\ a[pick[i]][3] <= b[pick[i]][3]
          BY <1>1, <1>4, <3>2 DEF EvRowsFit
        <5> QED
          BY <5>1
      <4>3. SumFunction(Part(b, 1)) <= SumFunction(Part(a, 1))
        <5> HIDE DEF Part
        <5> QED
          BY <4>1, <4>2
      <4>4. SumFunction(Part(a, 2)) <= SumFunction(Part(b, 2))
        <5> HIDE DEF Part
        <5> QED
          BY <4>1, <4>2
      <4>5. SumFunction(Part(a, 3)) <= SumFunction(Part(b, 3))
        <5> HIDE DEF Part
        <5> QED
          BY <4>1, <4>2
      <4>6. p[1] >= r[1] /\ p[2] <= r[2] /\ p[3] <= r[3]
        BY <2>2, <2>3, <2>4, <4>3, <4>4, <4>5
      <4> QED
        BY <4>6
    <3> QED
      BY <1>4, <3>1, <3>2 DEF EvAhead
  <2>6. PICK t, u, d, e : t = 2 * p[1] /\ u = 2 * r[1] /\ d = p[2] + p[3] /\ e = r[2] + r[3]
    OBVIOUS
  <2>7. t \in Nat /\ u \in Nat /\ d \in Nat /\ e \in Nat
        /\ ((t >= u /\ d <= e) \/ (t = 0 /\ u = 0))
    BY <2>4, <2>5, <2>6
  <2>8. EvStat(metric, a, pick) = EvRatio(t, t + p[2] + p[3]) /\ EvStat(metric, b, pick) = EvRatio(u, u + r[2] + r[3])
    BY <1>1, <1>4, <2>2, <2>3, <2>6 DEF EvStat
  <2>9. t + p[2] + p[3] = t + d /\ u + r[2] + r[3] = u + e
    BY <2>4, <2>6, <2>7
  <2>10. EvHigherIsBetter(metric)
    BY <1>4 DEF EvHigherIsBetter
  <2> QED
    BY <2>7, <2>8, <2>9, <2>10, EvRatios
<1> QED
  BY <1>3, <1>4

\* What a model is scored with, recorded or not.
EvScored(task, y, p) == EvOver(EvEvidently(y, p, task), EvComputeMetrics(task, y, p))

LEMMA EvNothing == DOMAIN <<>> = {}
  OBVIOUS

LEMMA EvIndexFinite == IsFiniteSet(EvIndex) /\ Cardinality(EvIndex) = EvRowCount /\ EvRowCount \in Nat \ {0}
<1>1. EvRowCount \in Nat \ {0}
  BY EvAssumption
<1>2. IsFiniteSet(1..EvRowCount) /\ Cardinality(1..EvRowCount) = EvRowCount
  BY <1>1, FS_Interval
<1> QED
  BY <1>1, <1>2 DEF EvIndex

LEMMA EvVector ==
    ASSUME NEW v \in EvVectors
    PROVE  DOMAIN v = EvIndex /\ \A i \in EvIndex : v[i] \in EvValues /\ v[i] \in Int
  BY EvAssumption DEF EvVectors

\* The errors of a prediction.
EvErrors(y, p) == [i \in EvIndex |-> EvAbs(y[i] - p[i])]

LEMMA EvErrorsFit ==
    ASSUME NEW y \in EvVectors, NEW p \in EvVectors
    PROVE  /\ EvErrors(y, p) \in [EvIndex -> Int] /\ SumFunction(EvErrors(y, p)) \in Int
           /\ [i \in EvIndex |-> (y[i] - p[i]) * (y[i] - p[i])] \in [EvIndex -> Int]
           /\ EvSquared(y, p) \in Int /\ EvSpread(y) \in Int
<1>1. \A i \in EvIndex : y[i] \in Int /\ p[i] \in Int
  BY EvVector
<1>2. EvErrors(y, p) \in [EvIndex -> Int]
  BY <1>1 DEF EvErrors, EvAbs
<1>3. PICK f : f = [i \in EvIndex |-> (y[i] - p[i]) * (y[i] - p[i])]
  OBVIOUS
<1>4. PICK g, h : g = [i \in EvIndex |-> y[i]] /\ h = [i \in EvIndex |-> y[i] * y[i]]
  OBVIOUS
<1>5. f \in [EvIndex -> Int] /\ g \in [EvIndex -> Int] /\ h \in [EvIndex -> Int]
  BY <1>1, <1>3, <1>4
<1>6. /\ SumFunction(EvErrors(y, p)) \in Int /\ SumFunction(f) \in Int
      /\ SumFunction(g) \in Int /\ SumFunction(h) \in Int
  BY <1>2, <1>5, EvIndexFinite, EvSumInt
<1>7. EvSpread(y) \in Int
  <2>1. EvSpread(y) = EvRowCount * SumFunction(h) - SumFunction(g) * SumFunction(g)
    BY <1>4 DEF EvSpread
  <2> QED
    BY <1>6, <2>1, EvIndexFinite
<1> QED
  BY <1>2, <1>3, <1>5, <1>6, <1>7 DEF EvSquared

\* The scores of a regression that the gate guards.
LEMMA EvRegressionScores ==
    ASSUME NEW y \in EvVectors, NEW p \in EvVectors
    PROVE  /\ {"mae", "rmse"} \subseteq DOMAIN EvRegression(y, p)
           /\ EvRegression(y, p)["mae"] = <<SumFunction(EvErrors(y, p)), EvRowCount>>
           /\ "mase" \notin DOMAIN EvRegression(y, p)
           /\ "r2" \in DOMAIN EvRegression(y, p) =>
                 /\ EvSpread(y) > 0
                 /\ EvRegression(y, p)["r2"] = <<EvSpread(y) - EvRowCount * EvSquared(y, p), EvSpread(y)>>
<1>1. PICK always : always = [mae |-> <<SumFunction(EvErrors(y, p)), EvRowCount>>,
                              mse |-> <<EvSquared(y, p), EvRowCount>>,
                              rmse |-> <<EvSquared(y, p), EvRowCount>>]
  OBVIOUS
<1>2. PICK r2 : r2 = EvWhere(EvRowCount >= 2 /\ EvSpread(y) > 0,
                     [r2 |-> <<EvSpread(y) - EvRowCount * EvSquared(y, p), EvSpread(y)>>])
  OBVIOUS
<1>3. PICK mape : mape = EvWhere(\A i \in EvIndex : y[i] # 0,
             [mape |-> EvMean([i \in EvIndex |-> <<EvAbs(y[i] - p[i]), EvAbs(y[i])>>])])
  OBVIOUS
<1>4. EvRegression(y, p) = EvOver(r2, EvOver(mape, always))
  BY <1>1, <1>2, <1>3 DEF EvRegression, EvErrors
<1>5. /\ DOMAIN always = {"mae", "mse", "rmse"}
      /\ always["mae"] = <<SumFunction(EvErrors(y, p)), EvRowCount>>
  BY <1>1
<1>6. /\ DOMAIN r2 \subseteq {"r2"}
      /\ "r2" \in DOMAIN r2 =>
            /\ EvSpread(y) > 0
            /\ r2["r2"] = <<EvSpread(y) - EvRowCount * EvSquared(y, p), EvSpread(y)>>
  <2>1. PICK rec : rec = [r2 |-> <<EvSpread(y) - EvRowCount * EvSquared(y, p), EvSpread(y)>>]
    OBVIOUS
  <2>2. \/ r2 = rec /\ EvSpread(y) > 0
        \/ r2 = <<>>
    BY <1>2, <2>1 DEF EvWhere
  <2>3. DOMAIN rec = {"r2"} /\ rec["r2"] = <<EvSpread(y) - EvRowCount * EvSquared(y, p), EvSpread(y)>>
    BY <2>1
  <2> QED
    BY <2>2, <2>3, EvNothing
<1>7. DOMAIN mape \subseteq {"mape"}
  <2>1. PICK rec : rec = [mape |-> EvMean([i \in EvIndex |-> <<EvAbs(y[i] - p[i]), EvAbs(y[i])>>])]
    OBVIOUS
  <2>2. mape = rec \/ mape = <<>>
    BY <1>3, <2>1 DEF EvWhere
  <2>3. DOMAIN rec = {"mape"}
    BY <2>1
  <2> QED
    BY <2>2, <2>3, EvNothing
<1>8. PICK inner : inner = EvOver(mape, always)
  OBVIOUS
<1>9. DOMAIN inner = DOMAIN mape \cup DOMAIN always /\ inner["mae"] = always["mae"]
  BY <1>5, <1>7, <1>8 DEF EvOver
<1>10. /\ DOMAIN EvOver(r2, inner) = DOMAIN r2 \cup DOMAIN inner
       /\ EvOver(r2, inner)["mae"] = inner["mae"]
       /\ "r2" \in DOMAIN r2 => EvOver(r2, inner)["r2"] = r2["r2"]
  BY <1>5, <1>6, <1>9 DEF EvOver
<1> QED
  BY <1>4, <1>5, <1>6, <1>7, <1>8, <1>9, <1>10

\* The error of repeating the last value of the training series, and its length.
EvSteps == Len(EvTrain) - 1
EvNaive == SumFunction([i \in 1..EvSteps |-> EvAbs(EvTrain[i + 1] - EvTrain[i])])

LEMMA EvNaiveInt == EvSteps \in Int /\ EvNaive \in Int
<1>1. Len(EvTrain) \in Nat /\ EvSteps \in Int /\ \A i \in 1..Len(EvTrain) : EvTrain[i] \in Int
  BY EvAssumption DEF EvSteps
<1>2. PICK f : f = [i \in 1..EvSteps |-> EvAbs(EvTrain[i + 1] - EvTrain[i])]
  OBVIOUS
<1>3. \A i \in 1..EvSteps : EvTrain[i + 1] \in Int /\ EvTrain[i] \in Int
  BY <1>1 DEF EvSteps
<1>4. f \in [1..EvSteps -> Int]
  BY <1>2, <1>3 DEF EvAbs
<1>5. IsFiniteSet(1..EvSteps)
  BY <1>1, FS_Interval
<1> QED
  BY <1>1, <1>2, <1>4, <1>5, EvSumInt DEF EvNaive

LEMMA EvForecastingScores ==
    ASSUME NEW y \in EvVectors, NEW p \in EvVectors
    PROVE  /\ {"mae", "rmse"} \subseteq DOMAIN EvForecasting(y, p)
           /\ EvForecasting(y, p)["mae"] = <<SumFunction(EvErrors(y, p)), EvRowCount>>
           /\ "mase" \in DOMAIN EvForecasting(y, p) =>
                 /\ EvSteps > 0 /\ EvNaive > 0
                 /\ EvForecasting(y, p)["mase"]
                        = <<SumFunction(EvErrors(y, p)) * EvSteps, EvRowCount * EvNaive>>
<1>1. PICK r : r = EvRegression(y, p)
  OBVIOUS
<1>2. /\ {"mae", "rmse"} \subseteq DOMAIN r /\ r["mae"] = <<SumFunction(EvErrors(y, p)), EvRowCount>>
  BY <1>1, EvRegressionScores
<1>3. PICK kept : kept = [m \in DOMAIN r \cap {"mae", "rmse", "mape"} |-> r[m]]
  OBVIOUS
<1>4. PICK mase : mase = EvWhere(EvSteps > 0 /\ EvNaive > 0, [mase |-> EvTimes(r.mae, <<EvSteps, EvNaive>>)])
  OBVIOUS
<1>5. PICK some : some = {i \in EvIndex : EvAbs(y[i]) + EvAbs(p[i]) > 0}
  OBVIOUS
<1>6. PICK smape : smape = EvWhere(some # {}, [smape |-> EvMean([i \in some |->
             <<2 * EvAbs(p[i] - y[i]), EvAbs(y[i]) + EvAbs(p[i])>>])])
  OBVIOUS
<1>7. EvForecasting(y, p) = EvOver(smape, EvOver(mase, kept))
  BY <1>1, <1>3, <1>4, <1>5, <1>6 DEF EvForecasting, EvSteps, EvNaive
<1>8. {"mae", "rmse"} \subseteq DOMAIN kept /\ kept["mae"] = r["mae"] /\ "mase" \notin DOMAIN kept
  BY <1>2, <1>3
<1>9. DOMAIN smape \subseteq {"smape"}
  <2>1. PICK rec : rec = [smape |-> EvMean([i \in some |->
             <<2 * EvAbs(p[i] - y[i]), EvAbs(y[i]) + EvAbs(p[i])>>])]
    OBVIOUS
  <2>2. smape = rec \/ smape = <<>>
    BY <1>6, <2>1 DEF EvWhere
  <2>3. DOMAIN rec = {"smape"}
    BY <2>1
  <2> QED
    BY <2>2, <2>3, EvNothing
<1>10. /\ DOMAIN mase \subseteq {"mase"}
       /\ "mase" \in DOMAIN mase => /\ EvSteps > 0 /\ EvNaive > 0
                                    /\ mase["mase"] = EvTimes(r.mae, <<EvSteps, EvNaive>>)
  <2>1. PICK rec : rec = [mase |-> EvTimes(r.mae, <<EvSteps, EvNaive>>)]
    OBVIOUS
  <2>2. \/ mase = rec /\ EvSteps > 0 /\ EvNaive > 0
        \/ mase = <<>>
    BY <1>4, <2>1 DEF EvWhere
  <2>3. DOMAIN rec = {"mase"} /\ rec["mase"] = EvTimes(r.mae, <<EvSteps, EvNaive>>)
    BY <2>1
  <2> QED
    BY <2>2, <2>3, EvNothing
<1>11. PICK inner : inner = EvOver(mase, kept)
  OBVIOUS
<1>12. /\ DOMAIN inner = DOMAIN mase \cup DOMAIN kept /\ inner["mae"] = kept["mae"]
       /\ "mase" \in DOMAIN mase => inner["mase"] = mase["mase"]
  BY <1>8, <1>10, <1>11 DEF EvOver
<1>13. /\ DOMAIN EvOver(smape, inner) = DOMAIN smape \cup DOMAIN inner
       /\ EvOver(smape, inner)["mae"] = inner["mae"]
       /\ "mase" \in DOMAIN mase => EvOver(smape, inner)["mase"] = inner["mase"]
  BY <1>8, <1>9, <1>12 DEF EvOver
<1>14. EvTimes(r.mae, <<EvSteps, EvNaive>>) = <<SumFunction(EvErrors(y, p)) * EvSteps, EvRowCount * EvNaive>>
  BY <1>2 DEF EvTimes
<1> QED
  BY <1>2, <1>7, <1>8, <1>9, <1>10, <1>11, <1>12, <1>13, <1>14

\* A number's square grows with its distance from 0.
LEMMA EvSquares ==
    ASSUME NEW x \in Int, NEW z \in Int, EvAbs(x) <= EvAbs(z)
    PROVE  x * x <= z * z
<1>1. PICK a, b : a = EvAbs(x) /\ b = EvAbs(z)
  OBVIOUS
<1>2. a \in Nat /\ b \in Nat /\ a <= b /\ a * a = x * x /\ b * b = z * z
  BY <1>1 DEF EvAbs
<1>3. a * a <= b * a /\ b * a <= b * b
  BY <1>2, EvScaled
<1>4. a * a \in Int /\ b * a \in Int /\ b * b \in Int
  BY <1>2
<1> QED
  BY <1>2, <1>3, <1>4

\* What the fairness of the gate supposes of the data and of two models' predictions.
EvComparable(a, b) ==
    /\ evTask \in EvTasks \ {"CLUSTERING"}
    /\ evData \in EvVectors /\ evPred[a] \in EvVectors /\ evPred[b] \in EvVectors
    /\ evTask = "ANOMALY_DETECTION" =>
          \A i \in EvIndex : evData[i] \in {0, 1} /\ evPred[a][i] \in {-1, 1} /\ evPred[b][i] \in {-1, 1}

LEMMA EvFlagged ==
    ASSUME NEW v, \A i \in EvIndex : v[i] \in {-1, 1}
    PROVE  \A i \in EvIndex : EvAnomalyFlags(v)[i] = (v[i] = -1)
  BY DEF EvAnomalyFlags

\* The anomalies of the labels: those labelled 1, or none when every label is 1.
LEMMA EvLabelled ==
    ASSUME NEW v, \A i \in EvIndex : v[i] \in {0, 1}
    PROVE  \/ \A i \in EvIndex : EvAnomalyFlags(v)[i] = (v[i] = 1)
           \/ \A i \in EvIndex : EvAnomalyFlags(v)[i] = FALSE
<1>1. CASE \A i \in EvIndex : v[i] \in {-1, 1}
  <2>1. 0 # -1 /\ 1 # -1
    OBVIOUS
  <2>2. \A i \in EvIndex : v[i] = 1
    BY <1>1, <2>1
  <2>3. \A i \in EvIndex : EvAnomalyFlags(v)[i] = (v[i] = -1)
    BY <1>1, EvFlagged
  <2> QED
    BY <2>1, <2>2, <2>3
<1>2. CASE ~\A i \in EvIndex : v[i] \in {-1, 1}
  BY <1>2 DEF EvAnomalyFlags
<1> QED
  BY <1>1, <1>2

LEMMA EvFlags ==
    ASSUME NEW v
    PROVE  EvAnomalyFlags(v) \in [EvIndex -> BOOLEAN]
  BY DEF EvAnomalyFlags

\* What the flags of a model that is no worse than another say of each row.
LEMMA EvFlagsAhead ==
    ASSUME NEW a, NEW b, EvComparable(a, b), evTask = "ANOMALY_DETECTION", EvNoWorse(a, b),
           NEW t, t = EvAnomalyFlags(evData), NEW f, f = EvAnomalyFlags(evPred[a]),
           NEW g, g = EvAnomalyFlags(evPred[b])
    PROVE  \/ \A i \in EvIndex : /\ t[i] /\ g[i] => t[i] /\ f[i]
                                 /\ ~t[i] /\ f[i] => ~t[i] /\ g[i]
                                 /\ t[i] /\ ~f[i] => t[i] /\ ~g[i]
           \/ \A i \in EvIndex : t[i] = FALSE
<1>1. (\A i \in EvIndex : t[i] = (evData[i] = 1)) \/ (\A i \in EvIndex : t[i] = FALSE)
  BY EvLabelled DEF EvComparable
<1>2. \A i \in EvIndex : f[i] = (evPred[a][i] = -1) /\ g[i] = (evPred[b][i] = -1)
  BY EvFlagged DEF EvComparable
<1>3. \A i \in EvIndex : (evData[i] = 1) = (evPred[b][i] = -1) => (evData[i] = 1) = (evPred[a][i] = -1)
  BY DEF EvNoWorse, EvNoWorseOn, EvRight
<1> QED
  BY <1>1, <1>2, <1>3

\* The rows of a model are numbers, and nowhere worse than those of a model that is nowhere better.
LEMMA EvRowsAhead ==
    ASSUME NEW a, NEW b, EvComparable(a, b), EvNoWorse(a, b),
           NEW metric, metric = EvPrimary(evTask), NEW r, r = EvRowsOf(a), NEW s, s = EvRowsOf(b)
    PROVE  /\ metric \in {"accuracy", "rmse", "f1"}
           /\ EvRowsFit(metric, r) /\ EvRowsFit(metric, s) /\ EvAhead(metric, r, s)
<1> DEFINE y == evData
           p == evPred[a]
           q == evPred[b]
<1>1. \A i \in EvIndex : y[i] \in Int /\ p[i] \in Int /\ q[i] \in Int
  BY EvVector DEF EvComparable
<1>2. \A i \in EvIndex : r[i] = EvRows(metric, y, p, i) /\ s[i] = EvRows(metric, y, q, i)
  BY DEF EvRowsOf
<1>3. \A i \in EvIndex : EvNoWorseOn(a, b, i)
  BY DEF EvNoWorse
<1>4. evTask \in {"CLASSIFICATION", "REGRESSION", "FORECASTING", "ANOMALY_DETECTION"}
  BY DEF EvComparable, EvTasks
<1>5. CASE evTask = "CLASSIFICATION"
  <2>1. metric = "accuracy"
    BY <1>5 DEF EvPrimary
  <2>2. \A i \in EvIndex : /\ r[i] = <<IF y[i] = p[i] THEN 1 ELSE 0>>
                           /\ s[i] = <<IF y[i] = q[i] THEN 1 ELSE 0>>
    BY <1>2, <2>1 DEF EvRows
  <2>3. \A i \in EvIndex : y[i] = q[i] => y[i] = p[i]
    BY <1>3, <1>5 DEF EvNoWorseOn, EvRight
  <2>4. \A i \in EvIndex : r[i][1] \in Int /\ s[i][1] \in Int /\ r[i][1] >= s[i][1]
    BY <2>2, <2>3
  <2> QED
    BY <2>1, <2>4 DEF EvRowsFit, EvAhead
<1>6. CASE evTask \in {"REGRESSION", "FORECASTING"}
  <2>1. metric = "rmse"
    BY <1>6 DEF EvPrimary
  <2>2. \A i \in EvIndex : /\ r[i] = <<(y[i] - p[i]) * (y[i] - p[i])>>
                           /\ s[i] = <<(y[i] - q[i]) * (y[i] - q[i])>>
    BY <1>2, <2>1 DEF EvRows
  <2>3. SUFFICES ASSUME NEW i \in EvIndex
                 PROVE  r[i][1] \in Int /\ s[i][1] \in Int /\ r[i][1] <= s[i][1]
    BY <2>1 DEF EvRowsFit, EvAhead
  <2>4. PICK x, z : x = y[i] - p[i] /\ z = y[i] - q[i]
    OBVIOUS
  <2>5. x \in Int /\ z \in Int /\ EvAbs(x) <= EvAbs(z)
    BY <1>1, <1>3, <1>6, <2>4 DEF EvNoWorseOn
  <2>6. x * x <= z * z
    BY <2>5, EvSquares
  <2>7. r[i][1] = x * x /\ s[i][1] = z * z
    BY <2>2, <2>4
  <2> QED
    BY <2>5, <2>6, <2>7
<1>7. CASE evTask = "ANOMALY_DETECTION"
  <2>1. metric = "f1"
    BY <1>7 DEF EvPrimary
  <2>2. PICK t, f, g : t = EvAnomalyFlags(y) /\ f = EvAnomalyFlags(p) /\ g = EvAnomalyFlags(q)
    OBVIOUS
  <2>3. \A i \in EvIndex :
           /\ r[i] = <<IF t[i] /\ f[i] THEN 1 ELSE 0, IF ~t[i] /\ f[i] THEN 1 ELSE 0,
                       IF t[i] /\ ~f[i] THEN 1 ELSE 0>>
           /\ s[i] = <<IF t[i] /\ g[i] THEN 1 ELSE 0, IF ~t[i] /\ g[i] THEN 1 ELSE 0,
                       IF t[i] /\ ~g[i] THEN 1 ELSE 0>>
    BY <1>2, <2>1, <2>2 DEF EvRows
  <2>4. \/ \A i \in EvIndex : /\ t[i] /\ g[i] => t[i] /\ f[i]
                              /\ ~t[i] /\ f[i] => ~t[i] /\ g[i]
                              /\ t[i] /\ ~f[i] => t[i] /\ ~g[i]
        \/ \A i \in EvIndex : t[i] = FALSE
    BY <1>7, <2>2, EvFlagsAhead
  <2>5. \A i \in EvIndex : /\ r[i][1] = IF t[i] /\ f[i] THEN 1 ELSE 0
                           /\ r[i][2] = IF ~t[i] /\ f[i] THEN 1 ELSE 0
                           /\ r[i][3] = IF t[i] /\ ~f[i] THEN 1 ELSE 0
                           /\ s[i][1] = IF t[i] /\ g[i] THEN 1 ELSE 0
                           /\ s[i][2] = IF ~t[i] /\ g[i] THEN 1 ELSE 0
                           /\ s[i][3] = IF t[i] /\ ~g[i] THEN 1 ELSE 0
    BY <2>3
  <2>6. EvRowsFit("f1", r) /\ EvRowsFit("f1", s)
    BY <2>5 DEF EvRowsFit
  <2>7. EvAhead("f1", r, s)
    <3>1. CASE \A i \in EvIndex : /\ t[i] /\ g[i] => t[i] /\ f[i]
                                  /\ ~t[i] /\ f[i] => ~t[i] /\ g[i]
                                  /\ t[i] /\ ~f[i] => t[i] /\ ~g[i]
      <4>1. \A i \in EvIndex : r[i][1] >= s[i][1] /\ r[i][2] <= s[i][2] /\ r[i][3] <= s[i][3]
        BY <2>5, <3>1
      <4> QED
        BY <4>1 DEF EvAhead
    <3>2. CASE \A i \in EvIndex : t[i] = FALSE
      <4>1. \A i \in EvIndex : r[i][1] = 0 /\ s[i][1] = 0
        BY <2>5, <3>2
      <4> QED
        BY <4>1 DEF EvAhead
    <3> QED
      BY <2>4, <3>1, <3>2
  <2> QED
    BY <2>1, <2>6, <2>7
<1> QED
  BY <1>4, <1>5, <1>6, <1>7

\* The scores that the gate guards are the metrics', which Evidently does not compute again.
LEMMA EvScoreGuarded ==
    ASSUME NEW task \in {"REGRESSION", "FORECASTING", "ANOMALY_DETECTION"}, NEW y, NEW p,
           NEW metric, metric # "rmse", metric \in DOMAIN EvScored(task, y, p)
    PROVE  /\ metric \in DOMAIN EvComputeMetrics(task, y, p)
           /\ EvScored(task, y, p)[metric] = EvComputeMetrics(task, y, p)[metric]
<1>1. PICK e : e = EvEvidently(y, p, task)
  OBVIOUS
<1>2. DOMAIN e \subseteq {"rmse"}
  <2>1. PICK rec : rec = [rmse |-> EvMean([i \in EvIndex |-> <<(y[i] - p[i]) * (y[i] - p[i]), 1>>])]
    OBVIOUS
  <2>2. e = rec \/ e = <<>>
    BY <1>1, <2>1 DEF EvEvidently
  <2>3. DOMAIN rec = {"rmse"}
    BY <2>1
  <2> QED
    BY <2>2, <2>3, EvNothing
<1>3. PICK f : f = EvComputeMetrics(task, y, p)
  OBVIOUS
<1>4. EvScored(task, y, p) = EvOver(e, f)
  BY <1>1, <1>3 DEF EvScored
<1>5. metric \in DOMAIN f /\ EvOver(e, f)[metric] = f[metric]
  BY <1>2, <1>4 DEF EvOver
<1> QED
  BY <1>3, <1>4, <1>5

\* The errors of a model that is no worse are together no larger.
LEMMA EvErrorsAhead ==
    ASSUME NEW a, NEW b, EvComparable(a, b), EvNoWorse(a, b), evTask \in {"REGRESSION", "FORECASTING"}
    PROVE  /\ SumFunction(EvErrors(evData, evPred[a])) <= SumFunction(EvErrors(evData, evPred[b]))
           /\ EvSquared(evData, evPred[a]) <= EvSquared(evData, evPred[b])
<1> DEFINE y == evData
           p == evPred[a]
           q == evPred[b]
<1>1. y \in EvVectors /\ p \in EvVectors /\ q \in EvVectors
  BY DEF EvComparable
<1>2. \A i \in EvIndex : y[i] \in Int /\ p[i] \in Int /\ q[i] \in Int
  BY <1>1, EvVector
<1>3. \A i \in EvIndex : EvAbs(y[i] - p[i]) <= EvAbs(y[i] - q[i])
  BY DEF EvNoWorse, EvNoWorseOn
<1>4. PICK f, g : f = EvErrors(y, p) /\ g = EvErrors(y, q)
  OBVIOUS
<1>5. f \in [EvIndex -> Int] /\ g \in [EvIndex -> Int] /\ \A i \in EvIndex : f[i] <= g[i]
  <2>1. f \in [EvIndex -> Int] /\ g \in [EvIndex -> Int]
    BY <1>1, <1>4, EvErrorsFit
  <2>2. \A i \in EvIndex : f[i] = EvAbs(y[i] - p[i]) /\ g[i] = EvAbs(y[i] - q[i])
    BY <1>4 DEF EvErrors
  <2> QED
    BY <1>3, <2>1, <2>2
<1>6. SumFunction(f) <= SumFunction(g)
  BY <1>5, EvIndexFinite, EvSumMonotone
<1>7. PICK u, v : /\ u = [i \in EvIndex |-> (y[i] - p[i]) * (y[i] - p[i])]
                  /\ v = [i \in EvIndex |-> (y[i] - q[i]) * (y[i] - q[i])]
  OBVIOUS
<1>8. u \in [EvIndex -> Int] /\ v \in [EvIndex -> Int]
  BY <1>1, <1>7, EvErrorsFit
<1>9. \A i \in EvIndex : u[i] <= v[i]
  <2>1. SUFFICES ASSUME NEW i \in EvIndex PROVE u[i] <= v[i]
    OBVIOUS
  <2>2. PICK x, z : x = y[i] - p[i] /\ z = y[i] - q[i]
    OBVIOUS
  <2>3. x \in Int /\ z \in Int /\ EvAbs(x) <= EvAbs(z)
    BY <1>2, <1>3, <2>2
  <2>4. x * x <= z * z
    BY <2>3, EvSquares
  <2>5. u[i] = x * x /\ v[i] = z * z
    BY <1>7, <2>2
  <2> QED
    BY <2>4, <2>5
<1>10. SumFunction(u) <= SumFunction(v)
  BY <1>8, <1>9, EvIndexFinite, EvSumMonotone
<1>11. EvSquared(y, p) = SumFunction(u) /\ EvSquared(y, q) = SumFunction(v)
  BY <1>7 DEF EvSquared
<1> QED
  BY <1>4, <1>6, <1>10, <1>11

\* The mean error, and the error over the naive one, over the same number of rows.
LEMMA EvMeanAhead ==
    ASSUME NEW metric, ~EvHigherIsBetter(metric), NEW x \in Int, NEW z \in Int, x <= z,
           NEW k \in Nat, NEW n \in Nat
    PROVE  EvAtLeast(metric, <<x * k, n>>, <<z * k, n>>)
<1>1. PICK u, v : u = x * k /\ v = z * k
  OBVIOUS
<1>2. u \in Int /\ v \in Int /\ u <= v
  BY <1>1, EvScaled
<1>3. u * n <= v * n
  BY <1>2, EvScaled
<1> QED
  BY <1>1, <1>2, <1>3, EvCompared

LEMMA EvMaeAhead ==
    ASSUME NEW x \in Int, NEW z \in Int, x <= z, NEW n \in Nat
    PROVE  EvAtLeast("mae", <<x, n>>, <<z, n>>)
<1>1. x * n <= z * n
  BY EvScaled
<1>2. ~EvHigherIsBetter("mae")
  BY DEF EvHigherIsBetter
<1> QED
  BY <1>1, <1>2, EvCompared

LEMMA EvR2Ahead ==
    ASSUME NEW x \in Int, NEW z \in Int, x <= z, NEW n \in Nat, NEW s \in Nat
    PROVE  EvAtLeast("r2", <<s - n * x, s>>, <<s - n * z, s>>)
<1>1. PICK u, v : u = n * x /\ v = n * z
  OBVIOUS
<1>2. u \in Int /\ v \in Int /\ u <= v
  BY <1>1, EvScaled
<1>3. PICK c, d : c = s - u /\ d = s - v
  OBVIOUS
<1>4. c \in Int /\ d \in Int /\ d <= c
  BY <1>2, <1>3
<1>5. d * s <= c * s
  BY <1>4, EvScaled
<1>6. EvHigherIsBetter("r2")
  BY DEF EvHigherIsBetter
<1>7. c * s \in Int /\ d * s \in Int
  BY <1>4
<1>8. EvAtLeast("r2", <<c, s>>, <<d, s>>)
  BY <1>4, <1>5, <1>6, <1>7, EvCompared
<1> QED
  BY <1>1, <1>3, <1>8

\* Counting what holds: a number, larger where more holds, and 0 where nothing does.
LEMMA EvCountAhead ==
    ASSUME NEW b \in [EvIndex -> BOOLEAN], NEW c \in [EvIndex -> BOOLEAN],
           \A i \in EvIndex : b[i] => c[i]
    PROVE  EvCount(b) \in Nat /\ EvCount(c) \in Nat /\ EvCount(b) <= EvCount(c)
<1>1. PICK S, T : S = {i \in DOMAIN b : b[i]} /\ T = {i \in DOMAIN c : c[i]}
  OBVIOUS
<1>2. S \subseteq T /\ T \subseteq EvIndex
  BY <1>1
<1>3. IsFiniteSet(T) /\ IsFiniteSet(S)
  BY <1>2, EvIndexFinite, FS_Subset
<1>4. Cardinality(S) <= Cardinality(T) /\ Cardinality(S) \in Nat /\ Cardinality(T) \in Nat
  BY <1>2, <1>3, FS_Subset, FS_CardinalityType
<1> QED
  BY <1>1, <1>4 DEF EvCount

LEMMA EvCountNone ==
    ASSUME NEW b \in [EvIndex -> BOOLEAN], \A i \in EvIndex : ~b[i]
    PROVE  EvCount(b) = 0
<1>1. {i \in DOMAIN b : b[i]} = {}
  OBVIOUS
<1> QED
  BY <1>1, FS_EmptySet DEF EvCount

\* The three counts of a detector, as functions of the rows.
EvFound(t, f) == [i \in EvIndex |-> t[i] /\ f[i]]
EvFalse(t, f) == [i \in EvIndex |-> ~t[i] /\ f[i]]
EvMissed(t, f) == [i \in EvIndex |-> t[i] /\ ~f[i]]

LEMMA EvBinaryScores ==
    ASSUME NEW t, NEW f
    PROVE  LET tp == EvCount(EvFound(t, f))
               fp == EvCount(EvFalse(t, f))
               fn == EvCount(EvMissed(t, f))
           IN /\ DOMAIN EvBinary(t, f) = {"precision", "recall", "f1"}
              /\ EvBinary(t, f)["precision"] = EvRatio(tp, tp + fp)
              /\ EvBinary(t, f)["recall"] = EvRatio(tp, tp + fn)
              /\ EvBinary(t, f)["f1"] = EvRatio(2 * tp, 2 * tp + fp + fn)
  BY DEF EvBinary, EvFound, EvFalse, EvMissed

LEMMA EvDetectorAhead ==
    ASSUME NEW t \in [EvIndex -> BOOLEAN], NEW f \in [EvIndex -> BOOLEAN], NEW g \in [EvIndex -> BOOLEAN],
           \/ \A i \in EvIndex : /\ t[i] /\ g[i] => t[i] /\ f[i]
                                 /\ ~t[i] /\ f[i] => ~t[i] /\ g[i]
                                 /\ t[i] /\ ~f[i] => t[i] /\ ~g[i]
           \/ \A i \in EvIndex : t[i] = FALSE,
           NEW metric \in {"recall", "precision"}
    PROVE  EvAtLeast(metric, EvBinary(t, f)[metric], EvBinary(t, g)[metric])
<1>1. PICK tp, fp, fn : tp = EvFound(t, f) /\ fp = EvFalse(t, f) /\ fn = EvMissed(t, f)
  OBVIOUS
<1>2. PICK up, gp, gn : up = EvFound(t, g) /\ gp = EvFalse(t, g) /\ gn = EvMissed(t, g)
  OBVIOUS
<1>3. /\ tp \in [EvIndex -> BOOLEAN] /\ fp \in [EvIndex -> BOOLEAN] /\ fn \in [EvIndex -> BOOLEAN]
      /\ up \in [EvIndex -> BOOLEAN] /\ gp \in [EvIndex -> BOOLEAN] /\ gn \in [EvIndex -> BOOLEAN]
  BY <1>1, <1>2 DEF EvFound, EvFalse, EvMissed
<1>4. \A i \in EvIndex : /\ tp[i] = (t[i] /\ f[i]) /\ fp[i] = (~t[i] /\ f[i]) /\ fn[i] = (t[i] /\ ~f[i])
                         /\ up[i] = (t[i] /\ g[i]) /\ gp[i] = (~t[i] /\ g[i]) /\ gn[i] = (t[i] /\ ~g[i])
  BY <1>1, <1>2 DEF EvFound, EvFalse, EvMissed
<1>5. /\ EvCount(tp) \in Nat /\ EvCount(fp) \in Nat /\ EvCount(fn) \in Nat
      /\ EvCount(up) \in Nat /\ EvCount(gp) \in Nat /\ EvCount(gn) \in Nat
  BY <1>3, EvCountAhead
<1>6. \/ /\ EvCount(up) <= EvCount(tp) /\ EvCount(fp) <= EvCount(gp) /\ EvCount(fn) <= EvCount(gn)
      \/ EvCount(tp) = 0 /\ EvCount(up) = 0
  <2>1. CASE \A i \in EvIndex : /\ t[i] /\ g[i] => t[i] /\ f[i]
                                /\ ~t[i] /\ f[i] => ~t[i] /\ g[i]
                                /\ t[i] /\ ~f[i] => t[i] /\ ~g[i]
    <3>1. \A i \in EvIndex : (up[i] => tp[i]) /\ (fp[i] => gp[i]) /\ (fn[i] => gn[i])
      BY <1>4, <2>1
    <3>2. \A i \in EvIndex : up[i] => tp[i]
      BY <3>1
    <3>3. \A i \in EvIndex : fp[i] => gp[i]
      BY <3>1
    <3>4. \A i \in EvIndex : fn[i] => gn[i]
      BY <3>1
    <3> QED
      BY <1>3, <3>2, <3>3, <3>4, EvCountAhead
  <2>2. CASE \A i \in EvIndex : t[i] = FALSE
    <3>1. \A i \in EvIndex : ~tp[i]
      BY <1>4, <2>2
    <3>2. \A i \in EvIndex : ~up[i]
      BY <1>4, <2>2
    <3> QED
      BY <1>3, <3>1, <3>2, EvCountNone
  <2> QED
    BY <2>1, <2>2
<1>7. PICK a, b, c, u, v, w : /\ a = EvCount(tp) /\ b = EvCount(fp) /\ c = EvCount(fn)
                              /\ u = EvCount(up) /\ v = EvCount(gp) /\ w = EvCount(gn)
  OBVIOUS
<1>8. EvHigherIsBetter(metric)
  BY DEF EvHigherIsBetter
<1>9. /\ EvAtLeast(metric, EvRatio(a, a + b), EvRatio(u, u + v))
      /\ EvAtLeast(metric, EvRatio(a, a + c), EvRatio(u, u + w))
  BY <1>5, <1>6, <1>7, <1>8, EvRatios
<1>10. /\ EvBinary(t, f)["precision"] = EvRatio(a, a + b) /\ EvBinary(t, f)["recall"] = EvRatio(a, a + c)
       /\ EvBinary(t, g)["precision"] = EvRatio(u, u + v) /\ EvBinary(t, g)["recall"] = EvRatio(u, u + w)
  BY <1>1, <1>2, <1>7, EvBinaryScores
<1> QED
  BY <1>9, <1>10

\* A model that is no worse on any row has no worse a guarded metric.
LEMMA EvGuardsAhead ==
    ASSUME NEW a, NEW b, EvComparable(a, b), EvNoWorse(a, b), NEW metric \in EvGuarded,
           NEW r, r = EvScored(evTask, evData, evPred[a]), metric \in DOMAIN r,
           NEW s, s = EvScored(evTask, evData, evPred[b]), metric \in DOMAIN s
    PROVE  EvAtLeast(metric, r[metric], s[metric])
<1> DEFINE y == evData
           p == evPred[a]
           q == evPred[b]
<1>1. y \in EvVectors /\ p \in EvVectors /\ q \in EvVectors
  BY DEF EvComparable
<1>2. \/ evTask = "REGRESSION" /\ metric \in {"mae", "r2"}
      \/ evTask = "FORECASTING" /\ metric \in {"mae", "mase"}
      \/ evTask = "ANOMALY_DETECTION" /\ metric \in {"recall", "precision"}
  BY DEF EvGuarded
<1>3. metric # "rmse" /\ evTask \in {"REGRESSION", "FORECASTING", "ANOMALY_DETECTION"}
  BY <1>2
<1>4. /\ metric \in DOMAIN EvComputeMetrics(evTask, y, p)
      /\ r[metric] = EvComputeMetrics(evTask, y, p)[metric]
      /\ metric \in DOMAIN EvComputeMetrics(evTask, y, q)
      /\ s[metric] = EvComputeMetrics(evTask, y, q)[metric]
  BY <1>3, EvScoreGuarded
<1>5. PICK x, z : x = SumFunction(EvErrors(y, p)) /\ z = SumFunction(EvErrors(y, q))
  OBVIOUS
<1>6. PICK u, v : u = EvSquared(y, p) /\ v = EvSquared(y, q)
  OBVIOUS
<1>7. x \in Int /\ z \in Int /\ u \in Int /\ v \in Int /\ EvSpread(y) \in Int
  BY <1>1, <1>5, <1>6, EvErrorsFit
<1>8. EvRowCount \in Nat
  BY EvIndexFinite
<1>9. CASE evTask \in {"REGRESSION", "FORECASTING"} /\ metric = "mae"
  <2>1. x <= z
    BY <1>5, <1>9, EvErrorsAhead
  <2>2. r[metric] = <<x, EvRowCount>> /\ s[metric] = <<z, EvRowCount>>
    BY <1>1, <1>4, <1>5, <1>9, EvRegressionScores, EvForecastingScores DEF EvComputeMetrics
  <2> QED
    BY <1>7, <1>8, <1>9, <2>1, <2>2, EvMaeAhead
<1>10. CASE evTask = "REGRESSION" /\ metric = "r2"
  <2>1. u <= v
    BY <1>6, <1>10, EvErrorsAhead
  <2>2. /\ EvSpread(y) > 0
        /\ r[metric] = <<EvSpread(y) - EvRowCount * u, EvSpread(y)>>
        /\ s[metric] = <<EvSpread(y) - EvRowCount * v, EvSpread(y)>>
    BY <1>1, <1>4, <1>6, <1>10, EvRegressionScores DEF EvComputeMetrics
  <2>3. EvSpread(y) \in Nat
    BY <1>7, <2>2
  <2> QED
    BY <1>7, <1>8, <1>10, <2>1, <2>2, <2>3, EvR2Ahead
<1>11. CASE evTask = "FORECASTING" /\ metric = "mase"
  <2>1. x <= z
    BY <1>5, <1>11, EvErrorsAhead
  <2>2. /\ EvSteps > 0 /\ EvNaive > 0
        /\ r[metric] = <<x * EvSteps, EvRowCount * EvNaive>>
        /\ s[metric] = <<z * EvSteps, EvRowCount * EvNaive>>
    BY <1>1, <1>4, <1>5, <1>11, EvForecastingScores DEF EvComputeMetrics
  <2>3. EvSteps \in Nat /\ EvNaive \in Nat
    BY <2>2, EvNaiveInt
  <2>4. EvRowCount * EvNaive \in Nat
    BY <1>8, <2>3
  <2>5. ~EvHigherIsBetter(metric)
    BY <1>11 DEF EvHigherIsBetter
  <2>6. PICK n : n = EvRowCount * EvNaive
    OBVIOUS
  <2>7. EvAtLeast(metric, <<x * EvSteps, n>>, <<z * EvSteps, n>>)
    BY <1>7, <2>1, <2>3, <2>4, <2>5, <2>6, EvMeanAhead
  <2> QED
    BY <2>2, <2>6, <2>7
<1>12. CASE evTask = "ANOMALY_DETECTION"
  <2>1. PICK t, f, g : t = EvAnomalyFlags(y) /\ f = EvAnomalyFlags(p) /\ g = EvAnomalyFlags(q)
    OBVIOUS
  <2>2. t \in [EvIndex -> BOOLEAN] /\ f \in [EvIndex -> BOOLEAN] /\ g \in [EvIndex -> BOOLEAN]
    BY <2>1, EvFlags
  <2>3. \/ \A i \in EvIndex : /\ t[i] /\ g[i] => t[i] /\ f[i]
                              /\ ~t[i] /\ f[i] => ~t[i] /\ g[i]
                              /\ t[i] /\ ~f[i] => t[i] /\ ~g[i]
        \/ \A i \in EvIndex : t[i] = FALSE
    BY <1>12, <2>1, EvFlagsAhead
  <2>4. r[metric] = EvBinary(t, f)[metric] /\ s[metric] = EvBinary(t, g)[metric]
    BY <1>4, <1>12, <2>1 DEF EvComputeMetrics
  <2>5. metric \in {"recall", "precision"}
    BY <1>2, <1>12
  <2> QED
    BY <2>2, <2>3, <2>4, <2>5, EvDetectorAhead
<1> QED
  BY <1>2, <1>9, <1>10, <1>11, <1>12

\* The mean of whole numbers is their sum over their number.
LEMMA EvMeanOfInts ==
    ASSUME NEW v \in [EvIndex -> Int], NEW n, n = SumFunction(v)
    PROVE  n \in Int /\ EvMean([i \in EvIndex |-> <<v[i], 1>>]) = <<n * 1, 1 * EvRowCount>>
<1>1. PICK f : f = [i \in EvIndex |-> <<v[i], 1>>]
  OBVIOUS
<1>2. EvTotal(f) = <<n, 1>>
  BY <1>1, EvIndexFinite, EvTotalOfInts
<1>3. DOMAIN f = EvIndex /\ Cardinality(EvIndex) = EvRowCount
  BY <1>1, EvIndexFinite
<1>4. n \in Int
  BY EvIndexFinite, EvSumInt
<1>5. EvMean(f) = EvTimes(<<n, 1>>, <<1, EvRowCount>>)
  BY <1>2, <1>3 DEF EvMean
<1>6. EvMean(f) = <<n * 1, 1 * EvRowCount>>
  BY <1>5 DEF EvTimes
<1> QED
  BY <1>1, <1>4, <1>6

\* The point a model is tested with, over every row.
LEMMA EvPointSum ==
    ASSUME NEW m, NEW metric, metric = EvPrimary(evTask), metric \in {"accuracy", "rmse"},
           NEW v \in [EvIndex -> Int],
           \A i \in EvIndex : EvRows(metric, evData, evPred[m], i) = <<v[i]>>
    PROVE  EvPoint(m, EvIndex) = <<SumFunction(v), EvRowCount>>
<1>1. PICK pick : pick = [i \in EvIndex |-> i]
  OBVIOUS
<1>2. PICK table : table = EvRowsOf(m)
  OBVIOUS
<1>3. EvPoint(m, EvIndex) = EvStat(metric, table, pick)
  BY <1>1, <1>2 DEF EvPoint
<1>4. DOMAIN pick = EvIndex /\ \A i \in EvIndex : pick[i] = i
  BY <1>1
<1>5. \A i \in EvIndex : table[i] = <<v[i]>>
  BY <1>2 DEF EvRowsOf
<1>6. PICK w : w = [i \in DOMAIN pick |-> table[pick[i]][1]]
  OBVIOUS
<1>7. w = v
  BY <1>4, <1>5, <1>6
<1>8. EvStat(metric, table, pick) = <<SumFunction(w), Cardinality(DOMAIN pick)>>
  BY <1>6 DEF EvStat
<1> QED
  BY <1>3, <1>4, <1>7, <1>8, EvIndexFinite

LEMMA EvSameAccuracy ==
    ASSUME NEW m, evTask = "CLASSIFICATION"
    PROVE  EvEqual(EvScored(evTask, evData, evPred[m])["accuracy"], EvPoint(m, EvIndex))
<1> DEFINE y == evData
           p == evPred[m]
<1>1. PICK v : v = [i \in EvIndex |-> IF y[i] = p[i] THEN 1 ELSE 0]
  OBVIOUS
<1>2. v \in [EvIndex -> Int]
  BY <1>1
<1>3. PICK n : n = SumFunction(v)
  OBVIOUS
<1>4. n \in Int /\ EvMean([i \in EvIndex |-> <<v[i], 1>>]) = <<n * 1, 1 * EvRowCount>>
  BY <1>2, <1>3, EvMeanOfInts
<1>5. PICK f, g : f = [i \in EvIndex |-> <<v[i], 1>>]
                  /\ g = [i \in EvIndex |-> IF y[i] = p[i] THEN <<1, 1>> ELSE <<0, 1>>]
  OBVIOUS
<1>6. f = g
  <2>1. \A i \in EvIndex : <<v[i], 1>> = IF y[i] = p[i] THEN <<1, 1>> ELSE <<0, 1>>
    BY <1>1
  <2> QED
    BY <1>5, <2>1
<1>7. PICK e : e = EvEvidently(y, p, evTask)
  OBVIOUS
<1>8. e = [accuracy |-> EvMean(g)]
  BY <1>5, <1>7 DEF EvEvidently
<1>9. DOMAIN e = {"accuracy"} /\ e["accuracy"] = EvMean(g)
  BY <1>8
<1>10. PICK c : c = EvComputeMetrics(evTask, y, p)
  OBVIOUS
<1>11. EvScored(evTask, y, p) = EvOver(e, c)
  BY <1>7, <1>10 DEF EvScored
<1>12. EvScored(evTask, y, p)["accuracy"] = EvMean(g)
  BY <1>9, <1>11 DEF EvOver
<1>13. EvPrimary(evTask) = "accuracy"
  BY DEF EvPrimary
<1>14. \A i \in EvIndex : EvRows("accuracy", y, p, i) = <<v[i]>>
  BY <1>1 DEF EvRows
<1>15. EvPoint(m, EvIndex) = <<n, EvRowCount>>
  BY <1>2, <1>3, <1>13, <1>14, EvPointSum
<1>16. EvScored(evTask, y, p)["accuracy"] = <<n * 1, 1 * EvRowCount>>
  BY <1>4, <1>5, <1>6, <1>12
<1> QED
  BY <1>4, <1>15, <1>16, EvIndexFinite DEF EvEqual

LEMMA EvSameError ==
    ASSUME NEW m, evTask \in {"REGRESSION", "FORECASTING"}, evData \in EvVectors, evPred[m] \in EvVectors
    PROVE  EvEqual(EvScored(evTask, evData, evPred[m])["rmse"], EvPoint(m, EvIndex))
<1> DEFINE y == evData
           p == evPred[m]
<1>1. PICK v : v = [i \in EvIndex |-> (y[i] - p[i]) * (y[i] - p[i])]
  OBVIOUS
<1>2. v \in [EvIndex -> Int]
  BY <1>1, EvErrorsFit
<1>3. PICK n : n = SumFunction(v)
  OBVIOUS
<1>4. n \in Int /\ EvMean([i \in EvIndex |-> <<v[i], 1>>]) = <<n * 1, 1 * EvRowCount>>
  BY <1>2, <1>3, EvMeanOfInts
<1>5. PICK f, g : f = [i \in EvIndex |-> <<v[i], 1>>]
                  /\ g = [i \in EvIndex |-> <<(y[i] - p[i]) * (y[i] - p[i]), 1>>]
  OBVIOUS
<1>6. f = g
  BY <1>1, <1>5
<1>7. PICK e : e = EvEvidently(y, p, evTask)
  OBVIOUS
<1>8. e = [rmse |-> EvMean(g)]
  BY <1>5, <1>7 DEF EvEvidently
<1>9. DOMAIN e = {"rmse"} /\ e["rmse"] = EvMean(g)
  BY <1>8
<1>10. PICK c : c = EvComputeMetrics(evTask, y, p)
  OBVIOUS
<1>11. EvScored(evTask, y, p) = EvOver(e, c)
  BY <1>7, <1>10 DEF EvScored
<1>12. EvScored(evTask, y, p)["rmse"] = EvMean(g)
  BY <1>9, <1>11 DEF EvOver
<1>13. EvPrimary(evTask) = "rmse"
  BY DEF EvPrimary
<1>14. \A i \in EvIndex : EvRows("rmse", y, p, i) = <<v[i]>>
  BY <1>1 DEF EvRows
<1>15. EvPoint(m, EvIndex) = <<n, EvRowCount>>
  BY <1>2, <1>3, <1>13, <1>14, EvPointSum
<1>16. EvScored(evTask, y, p)["rmse"] = <<n * 1, 1 * EvRowCount>>
  BY <1>4, <1>5, <1>6, <1>12
<1> QED
  BY <1>4, <1>15, <1>16, EvIndexFinite DEF EvEqual

LEMMA EvSameF1 ==
    ASSUME NEW m, evTask = "ANOMALY_DETECTION"
    PROVE  EvEqual(EvScored(evTask, evData, evPred[m])["f1"], EvPoint(m, EvIndex))
<1> DEFINE y == evData
           p == evPred[m]
<1>1. PICK t, f : t = EvAnomalyFlags(y) /\ f = EvAnomalyFlags(p)
  OBVIOUS
<1>2. PICK tp, fp, fn : tp = EvFound(t, f) /\ fp = EvFalse(t, f) /\ fn = EvMissed(t, f)
  OBVIOUS
<1>3. tp \in [EvIndex -> BOOLEAN] /\ fp \in [EvIndex -> BOOLEAN] /\ fn \in [EvIndex -> BOOLEAN]
  BY <1>2 DEF EvFound, EvFalse, EvMissed
<1>4. \A i \in EvIndex : tp[i] = (t[i] /\ f[i]) /\ fp[i] = (~t[i] /\ f[i]) /\ fn[i] = (t[i] /\ ~f[i])
  BY <1>2 DEF EvFound, EvFalse, EvMissed
<1>5. PICK u, v, w : /\ u = [i \in EvIndex |-> IF tp[i] THEN 1 ELSE 0]
                     /\ v = [i \in EvIndex |-> IF fp[i] THEN 1 ELSE 0]
                     /\ w = [i \in EvIndex |-> IF fn[i] THEN 1 ELSE 0]
  OBVIOUS
<1>6. EvCount(tp) = SumFunction(u) /\ EvCount(fp) = SumFunction(v) /\ EvCount(fn) = SumFunction(w)
  BY <1>3, <1>5, EvIndexFinite, EvCounted
<1>7. PICK c : c = EvBinary(t, f)
  OBVIOUS
<1>8. PICK a, b, d : a = EvCount(tp) /\ b = EvCount(fp) /\ d = EvCount(fn)
  OBVIOUS
<1>9. DOMAIN c = {"precision", "recall", "f1"} /\ c["f1"] = EvRatio(2 * a, 2 * a + b + d)
  BY <1>2, <1>7, <1>8, EvBinaryScores
<1>10. EvScored(evTask, y, p) = EvOver(<<>>, c)
  BY <1>1, <1>7 DEF EvScored, EvEvidently, EvComputeMetrics
<1>11. EvScored(evTask, y, p)["f1"] = c["f1"]
  BY <1>9, <1>10, EvNothing DEF EvOver
<1>12. PICK pick, table : pick = [i \in EvIndex |-> i] /\ table = EvRowsOf(m)
  OBVIOUS
<1>13. EvPrimary(evTask) = "f1"
  BY DEF EvPrimary
<1>14. EvPoint(m, EvIndex) = EvStat("f1", table, pick)
  BY <1>12, <1>13 DEF EvPoint
<1>15. DOMAIN pick = EvIndex /\ \A i \in EvIndex : pick[i] = i
  BY <1>12
<1>16. \A i \in EvIndex : table[i] = <<IF t[i] /\ f[i] THEN 1 ELSE 0, IF ~t[i] /\ f[i] THEN 1 ELSE 0,
                                      IF t[i] /\ ~f[i] THEN 1 ELSE 0>>
  <2>1. \A i \in EvIndex : table[i] = EvRows("f1", y, p, i)
    BY <1>12, <1>13 DEF EvRowsOf
  <2> QED
    BY <1>1, <2>1 DEF EvRows
<1>17. \A i \in EvIndex : table[i][1] = u[i] /\ table[i][2] = v[i] /\ table[i][3] = w[i]
  <2>1. \A i \in EvIndex : /\ table[i][1] = IF t[i] /\ f[i] THEN 1 ELSE 0
                           /\ table[i][2] = IF ~t[i] /\ f[i] THEN 1 ELSE 0
                           /\ table[i][3] = IF t[i] /\ ~f[i] THEN 1 ELSE 0
    BY <1>16
  <2>2. \A i \in EvIndex : /\ u[i] = IF tp[i] THEN 1 ELSE 0
                           /\ v[i] = IF fp[i] THEN 1 ELSE 0
                           /\ w[i] = IF fn[i] THEN 1 ELSE 0
    BY <1>5
  <2> QED
    BY <1>4, <2>1, <2>2
<1>18. PICK h, j, k : /\ h = [i \in DOMAIN pick |-> table[pick[i]][1]]
                      /\ j = [i \in DOMAIN pick |-> table[pick[i]][2]]
                      /\ k = [i \in DOMAIN pick |-> table[pick[i]][3]]
  OBVIOUS
<1>19. h = u /\ j = v /\ k = w
  BY <1>5, <1>15, <1>17, <1>18
<1>20. EvStat("f1", table, pick)
           = EvRatio(2 * SumFunction(h), 2 * SumFunction(h) + SumFunction(j) + SumFunction(k))
  BY <1>18 DEF EvStat
<1>21. EvPoint(m, EvIndex) = EvRatio(2 * a, 2 * a + b + d)
  BY <1>6, <1>8, <1>14, <1>19, <1>20
<1> QED
  BY <1>9, <1>11, <1>21 DEF EvEqual

LEMMA EvSameSilhouette ==
    ASSUME NEW m, evTask = "CLUSTERING", NEW r, r = EvScored(evTask, evData, evPred[m]),
           "silhouette" \in DOMAIN r
    PROVE  EvEqual(r["silhouette"], EvPoint(m, EvIndex))
<1> DEFINE y == evData
           p == evPred[m]
<1>1. PICK f, g : f = [i \in EvIndex |-> EvSilhouette(y, p, i)] /\ g = [silhouette |-> EvMean(f)]
  OBVIOUS
<1>2. PICK c : c = EvClustering(y, p)
  OBVIOUS
<1>3. c = g \/ c = <<>>
  BY <1>1, <1>2 DEF EvClustering, EvWhere
<1>4. r = EvOver(<<>>, c)
  BY <1>2 DEF EvScored, EvEvidently, EvComputeMetrics
<1>5. "silhouette" \in DOMAIN c /\ r["silhouette"] = c["silhouette"]
  BY <1>4, EvNothing DEF EvOver
<1>6. c["silhouette"] = EvMean(f)
  BY <1>1, <1>3, <1>5, EvNothing
<1>7. EvPrimary(evTask) = "silhouette"
  BY DEF EvPrimary
<1>8. PICK pick, table : pick = [i \in EvIndex |-> i] /\ table = EvRowsOf(m)
  OBVIOUS
<1>9. DOMAIN pick = EvIndex /\ \A i \in EvIndex : pick[i] = i
  BY <1>8
<1>10. \A i \in EvIndex : table[i] = f[i]
  BY <1>1, <1>7, <1>8 DEF EvRowsOf, EvRows
<1>11. PICK h : h = [i \in DOMAIN pick |-> table[pick[i]]]
  OBVIOUS
<1>12. h = f
  BY <1>1, <1>9, <1>10, <1>11
<1>13. EvPoint(m, EvIndex) = EvMean(h)
  BY <1>7, <1>8, <1>11 DEF EvPoint, EvStat
<1> QED
  BY <1>5, <1>6, <1>12, <1>13 DEF EvEqual

\* The number that is recorded is the number that is tested.
LEMMA EvSameScore ==
    ASSUME NEW m, evTask \in EvTasks, evData \in EvVectors, evPred[m] \in EvVectors,
           NEW r, r = EvScored(evTask, evData, evPred[m]), EvPrimary(evTask) \in DOMAIN r
    PROVE  EvEqual(r[EvPrimary(evTask)], EvPoint(m, EvIndex))
<1>1. CASE evTask = "CLASSIFICATION"
  BY <1>1, EvSameAccuracy DEF EvPrimary
<1>2. CASE evTask \in {"REGRESSION", "FORECASTING"}
  BY <1>2, EvSameError DEF EvPrimary
<1>3. CASE evTask = "ANOMALY_DETECTION"
  BY <1>3, EvSameF1 DEF EvPrimary
<1>4. CASE evTask = "CLUSTERING"
  BY <1>4, EvSameSilhouette DEF EvPrimary
<1> QED
  BY <1>1, <1>2, <1>3, <1>4 DEF EvTasks

\* What the gate may not decide of two models that are compared.
EvJudged(v) ==
    EvComparable("candidate", "current") =>
        /\ v = [mode |-> "non-inferiority", accept |-> FALSE] => ~EvNoWorse("candidate", "current")
        /\ v = [mode |-> "superiority", accept |-> TRUE] => ~EvNoWorse("current", "candidate")

\* Any rows the bootstrap draws, and any slice, favour a model that is no worse on any row.
LEMMA EvDrawnAhead ==
    ASSUME NEW a, NEW b, EvComparable(a, b), EvNoWorse(a, b), NEW metric, metric = EvPrimary(evTask),
           NEW D, D \subseteq EvIndex, NEW pick \in [D -> EvIndex]
    PROVE  EvAtLeast(metric, EvStat(metric, EvRowsOf(a), pick), EvStat(metric, EvRowsOf(b), pick))
<1>1. IsFiniteSet(D)
  BY EvIndexFinite, FS_Subset
<1>2. PICK r, s : r = EvRowsOf(a) /\ s = EvRowsOf(b)
  OBVIOUS
<1>3. /\ metric \in {"accuracy", "rmse", "f1"}
      /\ EvRowsFit(metric, r) /\ EvRowsFit(metric, s) /\ EvAhead(metric, r, s)
  BY <1>2, EvRowsAhead
<1>4. EvAtLeast(metric, EvStat(metric, r, pick), EvStat(metric, s, pick))
  BY <1>1, <1>3, EvStatAhead
<1> QED
  BY <1>2, <1>4

LEMMA EvSlicesAhead ==
    ASSUME EvComparable("candidate", "current"), EvNoWorse("candidate", "current")
    PROVE  EvSlicesPass
<1>1. SUFFICES ASSUME NEW s \in EvSlices
               PROVE  EvImprovement(EvPrimary(evTask), EvPoint("candidate", s), EvPoint("current", s))[1] >= 0
  BY DEF EvSlicesPass
<1>2. PICK pick : pick = [i \in s |-> i]
  OBVIOUS
<1>3. s \subseteq EvIndex /\ pick \in [s -> EvIndex]
  BY <1>2, EvAssumption DEF EvIndex
<1>4. PICK metric : metric = EvPrimary(evTask)
  OBVIOUS
<1>5. EvAtLeast(metric, EvStat(metric, EvRowsOf("candidate"), pick), EvStat(metric, EvRowsOf("current"), pick))
  BY <1>3, <1>4, EvDrawnAhead
<1>6. /\ EvPoint("candidate", s) = EvStat(metric, EvRowsOf("candidate"), pick)
      /\ EvPoint("current", s) = EvStat(metric, EvRowsOf("current"), pick)
  BY <1>2, <1>4 DEF EvPoint
<1> QED
  BY <1>4, <1>5, <1>6 DEF EvAtLeast

\* How each task is scored, and that a recorded score is what its prediction earns.
EvRecorded ==
    /\ evTask # EvNone => evTask \in EvTasks /\ evData \in EvVectors
    /\ \A m \in EvModels :
          /\ evPred[m] # EvNone => evPred[m] \in EvVectors /\ evTask # EvNone
          /\ evScores[m] # EvNone => /\ evPred[m] # EvNone
                                     /\ evScores[m] = EvScored(evTask, evData, evPred[m])
                                     /\ EvPrimary(evTask) \in DOMAIN evScores[m]
    /\ evPred["candidate"] # EvNone => evScores["current"] # EvNone

EvInv ==
    /\ DOMAIN evPred = EvModels /\ DOMAIN evScores = EvModels
    /\ EvRecorded
    /\ \/ evVerdict \in {EvNone, EvFailed}
       \/ evScores["candidate"] # EvNone /\ EvJudged(evVerdict)

LEMMA EvGuardsPass ==
    ASSUME EvRecorded, evScores["candidate"] # EvNone, evScores["current"] # EvNone,
           EvComparable("candidate", "current"), EvNoWorse("candidate", "current")
    PROVE  EvMetricGuards
<1>1. SUFFICES ASSUME NEW g \in EvGuarded, g \in DOMAIN evScores["current"], g \in DOMAIN evScores["candidate"]
               PROVE  EvImprovement(g, evScores["candidate"][g], evScores["current"][g])[1] >= 0
  BY DEF EvMetricGuards
<1>2. /\ evScores["candidate"] = EvScored(evTask, evData, evPred["candidate"])
      /\ evScores["current"] = EvScored(evTask, evData, evPred["current"])
  BY DEF EvRecorded, EvModels
<1>3. EvAtLeast(g, evScores["candidate"][g], evScores["current"][g])
  BY <1>1, <1>2, EvGuardsAhead
<1> QED
  BY <1>3 DEF EvAtLeast

LEMMA EvDecidesFairly ==
    ASSUME EvInv, EvDecide
    PROVE  EvJudged(evVerdict')
<1>1. evScores["candidate"] # EvNone /\ evScores["current"] # EvNone
  BY DEF EvDecide, EvInv, EvRecorded, EvModels
<1>2. PICK low \in EvBootstrap, mode \in {"superiority", "non-inferiority"} :
          evVerdict' = [mode |-> mode,
                        accept |-> /\ IF mode = "superiority" THEN low[1] > 0 ELSE low[1] >= 0
                                   /\ EvSlicesPass /\ EvMetricGuards]
  BY DEF EvDecide
<1>3. PICK metric, r, s : metric = EvPrimary(evTask) /\ r = EvRowsOf("candidate") /\ s = EvRowsOf("current")
  OBVIOUS
<1>4. PICK pick \in [EvIndex -> EvIndex] :
          low = EvImprovement(metric, EvStat(metric, r, pick), EvStat(metric, s, pick))
  BY <1>2, <1>3 DEF EvBootstrap
<1>5. SUFFICES ASSUME EvComparable("candidate", "current")
               PROVE  /\ evVerdict' = [mode |-> "non-inferiority", accept |-> FALSE] =>
                            ~EvNoWorse("candidate", "current")
                      /\ evVerdict' = [mode |-> "superiority", accept |-> TRUE] =>
                            ~EvNoWorse("current", "candidate")
  BY DEF EvJudged
<1>6. evVerdict'.mode = mode
      /\ evVerdict'.accept = /\ IF mode = "superiority" THEN low[1] > 0 ELSE low[1] >= 0
                             /\ EvSlicesPass /\ EvMetricGuards
  BY <1>2
<1>7. ASSUME EvNoWorse("candidate", "current"), evVerdict' = [mode |-> "non-inferiority", accept |-> FALSE]
      PROVE  FALSE
  <2>1. EvAtLeast(metric, EvStat(metric, r, pick), EvStat(metric, s, pick))
    BY <1>3, <1>5, <1>7, EvDrawnAhead
  <2>2. low[1] >= 0
    BY <1>4, <2>1 DEF EvAtLeast
  <2>3. EvSlicesPass
    BY <1>5, <1>7, EvSlicesAhead
  <2>4. EvMetricGuards
    BY <1>1, <1>5, <1>7, EvGuardsPass DEF EvInv
  <2>5. mode = "non-inferiority" /\ evVerdict'.accept = FALSE
    BY <1>6, <1>7
  <2> QED
    BY <1>6, <2>2, <2>3, <2>4, <2>5
<1>8. ASSUME EvNoWorse("current", "candidate"), evVerdict' = [mode |-> "superiority", accept |-> TRUE]
      PROVE  FALSE
  <2>1. EvComparable("current", "candidate")
    BY <1>5 DEF EvComparable
  <2>2. EvAtLeast(metric, EvStat(metric, s, pick), EvStat(metric, r, pick))
    BY <1>3, <1>8, <2>1, EvDrawnAhead
  <2>3. ~(low[1] > 0)
    BY <1>4, <2>2 DEF EvAtLeast
  <2>4. mode = "superiority" /\ evVerdict'.accept = TRUE
    BY <1>6, <1>8
  <2> QED
    BY <1>6, <2>3, <2>4
<1> QED
  BY <1>7, <1>8

\* A verdict stays what it was while the rows and the predictions stay.
LEMMA EvJudgedStays ==
    ASSUME NEW v, EvJudged(v), evVerdict' = v, UNCHANGED <<evTask, evData, evPred>>
    PROVE  EvJudged(evVerdict)'
<1>1. EvComparable("candidate", "current")' => EvComparable("candidate", "current")
  BY DEF EvComparable
<1>2. EvNoWorse("candidate", "current")' => EvNoWorse("candidate", "current")
  BY DEF EvNoWorse, EvNoWorseOn, EvRight
<1>3. EvNoWorse("current", "candidate")' => EvNoWorse("current", "candidate")
  BY DEF EvNoWorse, EvNoWorseOn, EvRight
<1> QED
  BY <1>1, <1>2, <1>3 DEF EvJudged

LEMMA EvInvInit == EvInit => EvInv
  BY DEF EvInit, EvInv, EvRecorded, EvModels

LEMMA EvResolved ==
    ASSUME NEW d \in EvTasks \cup {EvNone}, NEW e, EvResolveTask(d, e) # EvNone
    PROVE  EvResolveTask(d, e) \in EvTasks
  BY DEF EvResolveTask, EvTasks

LEMMA EvInvTaskOf ==
    ASSUME EvInv, evDeclared \in EvTasks \cup {EvNone}, EvTaskOf
    PROVE  EvInv'
<1>1. evTask = EvNone /\ evVerdict = EvNone /\ UNCHANGED <<evPred, evScores>>
  BY DEF EvTaskOf
<1>2. \A m \in EvModels : evPred[m] = EvNone /\ evScores[m] = EvNone
  BY <1>1 DEF EvInv, EvRecorded
<1>3. evTask' # EvNone => evTask' \in EvTasks /\ evData' \in EvVectors
  BY EvResolved DEF EvTaskOf
<1>4. evVerdict' \in {EvNone, EvFailed}
  BY <1>1 DEF EvTaskOf
<1>5. EvRecorded'
  BY <1>1, <1>2, <1>3 DEF EvRecorded, EvModels
<1> QED
  BY <1>1, <1>4, <1>5 DEF EvInv

LEMMA EvInvPredict ==
    ASSUME EvInv, NEW m \in EvModels, NEW p \in EvVectors \cup {EvNone}, EvPredict(m, p)
    PROVE  EvInv'
<1>1. UNCHANGED <<evTask, evData, evScores>> /\ evTask # EvNone /\ evVerdict = EvNone /\ evPred[m] = EvNone
  BY DEF EvPredict
<1>2. CASE p = EvNone
  BY <1>1, <1>2 DEF EvPredict, EvInv, EvRecorded
<1>3. CASE p # EvNone
  <2>1. evPred' = [evPred EXCEPT ![m] = p] /\ evVerdict' = EvNone /\ p \in EvVectors
    BY <1>1, <1>3 DEF EvPredict
  <2>2. DOMAIN evPred' = EvModels /\ evPred'[m] = p /\ \A n \in EvModels \ {m} : evPred'[n] = evPred[n]
    BY <2>1 DEF EvInv
  <2>3. evScores[m] = EvNone
    BY <1>1 DEF EvInv, EvRecorded
  <2>4. ASSUME NEW n \in EvModels
        PROVE  /\ evPred'[n] # EvNone => evPred'[n] \in EvVectors /\ evTask' # EvNone
               /\ evScores'[n] # EvNone => /\ evPred'[n] # EvNone
                                           /\ evScores'[n] = EvScored(evTask, evData, evPred[n])
                                           /\ EvPrimary(evTask') \in DOMAIN evScores'[n]
                                           /\ n # m
    BY <1>1, <2>1, <2>2, <2>3 DEF EvInv, EvRecorded
  <2>5. \A n \in EvModels : evScores'[n] # EvNone =>
            EvScored(evTask, evData, evPred[n]) = EvScored(evTask', evData', evPred'[n])
    BY <1>1, <2>2, <2>4
  <2>6. evPred'["candidate"] # EvNone => evScores'["current"] # EvNone
    BY <1>1, <2>2 DEF EvPredict, EvInv, EvRecorded, EvModels
  <2>7. EvRecorded'
    <3>1. evTask' # EvNone => evTask' \in EvTasks /\ evData' \in EvVectors
      BY <1>1 DEF EvInv, EvRecorded
    <3>2. \A n \in EvModels : evScores'[n] # EvNone => evScores'[n] = EvScored(evTask', evData', evPred'[n])
      BY <2>4, <2>5
    <3> QED
      BY <2>4, <2>6, <3>1, <3>2 DEF EvRecorded
  <2> QED
    BY <1>1, <2>1, <2>2, <2>7 DEF EvInv
<1> QED
  BY <1>2, <1>3

LEMMA EvInvScore ==
    ASSUME EvInv, NEW m \in EvModels, EvScorePredictions(m)
    PROVE  EvInv'
<1>1. UNCHANGED <<evTask, evData, evPred>> /\ evPred[m] # EvNone /\ evScores[m] = EvNone
  BY DEF EvScorePredictions
<1>2. evVerdict \in {EvNone, EvFailed}
  BY <1>1 DEF EvInv, EvRecorded, EvModels
<1>3. PICK r : r = EvScored(evTask, evData, evPred[m])
  OBVIOUS
<1>4. \/ EvPrimary(evTask) \in DOMAIN r /\ evScores' = [evScores EXCEPT ![m] = r] /\ UNCHANGED evVerdict
      \/ evVerdict' = EvFailed /\ UNCHANGED evScores
  BY <1>3 DEF EvScorePredictions, EvScored
<1>5. \/ /\ EvPrimary(evTask) \in DOMAIN r /\ DOMAIN evScores' = EvModels /\ evScores'[m] = r
         /\ \A n \in EvModels \ {m} : evScores'[n] = evScores[n]
      \/ evScores' = evScores
  BY <1>4 DEF EvInv
<1>6. DOMAIN evScores' = EvModels
  BY <1>5 DEF EvInv
<1>7. evVerdict' \in {EvNone, EvFailed}
  BY <1>2, <1>4
<1>8. \A n \in EvModels : evScores'[n] # EvNone =>
          /\ evPred[n] # EvNone
          /\ evScores'[n] = EvScored(evTask, evData, evPred[n])
          /\ EvPrimary(evTask) \in DOMAIN evScores'[n]
  BY <1>1, <1>3, <1>5 DEF EvInv, EvRecorded
<1>9. \A n \in EvModels : EvScored(evTask', evData', evPred'[n]) = EvScored(evTask, evData, evPred[n])
  BY <1>1
<1>10. evPred'["candidate"] # EvNone => evScores'["current"] # EvNone
  BY <1>1, <1>5 DEF EvInv, EvRecorded, EvModels
<1>11. EvRecorded'
  <2>1. evTask' # EvNone => evTask' \in EvTasks /\ evData' \in EvVectors
    BY <1>1 DEF EvInv, EvRecorded
  <2>2. \A n \in EvModels : evPred'[n] # EvNone => evPred'[n] \in EvVectors /\ evTask' # EvNone
    BY <1>1 DEF EvInv, EvRecorded
  <2>3. \A n \in EvModels : evScores'[n] # EvNone =>
            /\ evPred'[n] # EvNone
            /\ evScores'[n] = EvScored(evTask', evData', evPred'[n])
            /\ EvPrimary(evTask') \in DOMAIN evScores'[n]
    BY <1>1, <1>8, <1>9
  <2> QED
    BY <1>10, <2>1, <2>2, <2>3 DEF EvRecorded
<1> QED
  BY <1>1, <1>6, <1>7, <1>11 DEF EvInv

LEMMA EvRecordedStays ==
    ASSUME EvRecorded, UNCHANGED <<evTask, evData, evPred, evScores>>
    PROVE  EvRecorded'
<1>1. \A n \in EvModels : EvScored(evTask', evData', evPred'[n]) = EvScored(evTask, evData, evPred[n])
  OBVIOUS
<1> QED
  BY <1>1 DEF EvRecorded

LEMMA EvInvDecide ==
    ASSUME EvInv, EvDecide
    PROVE  EvInv'
<1>1. UNCHANGED <<evTask, evData, evPred, evScores>> /\ evScores["candidate"] # EvNone
  BY DEF EvDecide
<1>2. EvJudged(evVerdict)'
  <2>1. PICK v : v = evVerdict'
    OBVIOUS
  <2>2. EvJudged(v)
    BY <2>1, EvDecidesFairly
  <2> QED
    BY <1>1, <2>1, <2>2, EvJudgedStays
<1>3. EvRecorded'
  BY <1>1, EvRecordedStays DEF EvInv
<1> QED
  BY <1>1, <1>2, <1>3 DEF EvInv

\* The declared task is one of the tasks, or is not read again.
EvFullInv == EvInv /\ evDeclared \in EvTasks \cup {EvNone}

LEMMA EvInvNext == EvFullInv /\ [EvNext]_evVars => EvFullInv'
<1> SUFFICES ASSUME EvFullInv, [EvNext]_evVars
             PROVE  EvFullInv'
  OBVIOUS
<1>1. evDeclared' \in EvTasks \cup {EvNone}
  BY DEF EvFullInv, EvNext, evVars, EvTaskOf, EvDecide, EvScorePredictions, EvPredict
<1>2. CASE EvTaskOf
  BY <1>1, <1>2, EvInvTaskOf DEF EvFullInv
<1>3. CASE EvDecide
  BY <1>1, <1>3, EvInvDecide DEF EvFullInv
<1>4. ASSUME NEW m \in EvModels, EvScorePredictions(m)
      PROVE  EvFullInv'
  BY <1>1, <1>4, EvInvScore DEF EvFullInv
<1>5. ASSUME NEW m \in EvModels, NEW p \in EvVectors \cup {EvNone}, EvPredict(m, p)
      PROVE  EvFullInv'
  BY <1>1, <1>5, EvInvPredict DEF EvFullInv
<1>6. CASE UNCHANGED evVars
  <2>1. UNCHANGED <<evTask, evData, evPred, evScores, evVerdict>>
    BY <1>6 DEF evVars
  <2>2. EvRecorded'
    BY <2>1, EvRecordedStays DEF EvFullInv, EvInv
  <2>3. EvJudged(evVerdict) => EvJudged(evVerdict)'
    <3>1. PICK v : v = evVerdict
      OBVIOUS
    <3>2. EvJudged(v) => EvJudged(evVerdict)'
      BY <2>1, <3>1, EvJudgedStays
    <3> QED
      BY <3>1, <3>2
  <2> QED
    BY <1>1, <2>1, <2>2, <2>3 DEF EvFullInv, EvInv
<1> QED
  BY <1>2, <1>3, <1>4, <1>5, <1>6 DEF EvNext

LEMMA EvInvMeasures == EvFullInv => EvMeasures
<1> SUFFICES ASSUME EvFullInv
             PROVE  EvMeasures
  OBVIOUS
<1>1. EvSameMeasure
  <2>1. SUFFICES ASSUME NEW m \in EvModels, evScores[m] # EvNone
                 PROVE  EvEqual(evScores[m][EvPrimary(evTask)], EvPoint(m, EvIndex))
    BY DEF EvSameMeasure
  <2>2. /\ evTask \in EvTasks /\ evData \in EvVectors /\ evPred[m] \in EvVectors
        /\ evScores[m] = EvScored(evTask, evData, evPred[m])
        /\ EvPrimary(evTask) \in DOMAIN evScores[m]
    BY <2>1 DEF EvFullInv, EvInv, EvRecorded
  <2> QED
    BY <2>2, EvSameScore
<1>2. EvGateIsFair
  <2>1. SUFFICES ASSUME evTask # "CLUSTERING",
                        evTask = "ANOMALY_DETECTION" =>
                            /\ \A i \in EvIndex : evData[i] \in {0, 1}
                            /\ \A m \in EvModels, i \in EvIndex : evPred[m] # EvNone => evPred[m][i] \in {-1, 1}
                 PROVE  /\ evVerdict = [mode |-> "non-inferiority", accept |-> FALSE] =>
                              ~EvNoWorse("candidate", "current")
                        /\ evVerdict = [mode |-> "superiority", accept |-> TRUE] =>
                              ~EvNoWorse("current", "candidate")
    BY DEF EvGateIsFair
  <2>2. CASE evVerdict \in {EvNone, EvFailed}
    <3>1. /\ [mode |-> "non-inferiority", accept |-> FALSE] \in [mode : {"superiority", "non-inferiority"}, accept : BOOLEAN]
          /\ [mode |-> "superiority", accept |-> TRUE] \in [mode : {"superiority", "non-inferiority"}, accept : BOOLEAN]
      OBVIOUS
    <3>2. evVerdict # [mode |-> "non-inferiority", accept |-> FALSE]
      <4>1. EvFailed.mode # [mode |-> "non-inferiority", accept |-> FALSE].mode
        BY DEF EvFailed
      <4> QED
        BY <2>2, <3>1, <4>1, EvAssumption
    <3>3. evVerdict # [mode |-> "superiority", accept |-> TRUE]
      <4>1. EvFailed.mode # [mode |-> "superiority", accept |-> TRUE].mode
        BY DEF EvFailed
      <4> QED
        BY <2>2, <3>1, <4>1, EvAssumption
    <3> QED
      BY <3>2, <3>3
  <2>3. CASE evScores["candidate"] # EvNone /\ EvJudged(evVerdict)
    <3>1. evPred["candidate"] # EvNone /\ evPred["current"] # EvNone
      BY <2>3 DEF EvFullInv, EvInv, EvRecorded, EvModels
    <3>2. /\ evTask \in EvTasks /\ evData \in EvVectors
          /\ evPred["candidate"] \in EvVectors /\ evPred["current"] \in EvVectors
      BY <3>1 DEF EvFullInv, EvInv, EvRecorded, EvModels
    <3>3. EvComparable("candidate", "current")
      BY <2>1, <3>1, <3>2 DEF EvComparable, EvModels
    <3> QED
      BY <2>3, <3>3 DEF EvJudged
  <2> QED
    BY <2>2, <2>3 DEF EvFullInv, EvInv
<1> QED
  BY <1>1, <1>2 DEF EvMeasures

\* Models are judged by what they predict: over any number of rows, the number
\* the gate tests is the one that is recorded, and whichever rows the bootstrap
\* draws it neither rejects a candidate that is no worse on any row nor takes one
\* that is better on none for superior (metrics.py compute_metrics; evaluate.py
\* score_predictions; gate.py decide).
THEOREM EvAlwaysMeasures == EvSpec => []EvMeasures
<1>1. EvInit => EvFullInv
  BY EvInvInit DEF EvInit, EvFullInv
<1> QED
  BY <1>1, EvInvNext, EvInvMeasures, PTL DEF EvSpec
=============================================================================
