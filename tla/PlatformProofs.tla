--------------------------- MODULE PlatformProofs ---------------------------
(***************************************************************************)
(* Safety of the platform around a job, for any number of attempts, tries, *)
(* versions, addresses and keys: the job executors with the sandbox, the   *)
(* deployer over the deployment adapters, and the checks of the API.       *)
(***************************************************************************)
EXTENDS Execution, Serving, Access, FiniteSetTheorems, TLAPS

-----------------------------------------------------------------------------
(***************************************************************************)
(* Execution: ExAttemptsApart.  An attempt that was stopped has no process  *)
(* left that could start another one; and unless something of an earlier    *)
(* attempt was alive when this one started, only this attempt's own runs    *)
(* write to the directories it reads, so that what it finds in one is its   *)
(* own as soon as the run of that try has written anything.                *)
(***************************************************************************)

ExTyped ==
    /\ exMode \in {"process", "thread"} /\ exTries \in 1..ExTries /\ exNow \in 0..ExAttempts
    /\ exProc = [a \in 1..ExAttempts |-> exProc[a]] /\ exEnd = [a \in 1..ExAttempts |-> exEnd[a]]
    /\ exAt = [a \in 1..ExAttempts |-> exAt[a]]
    /\ \A a \in 1..ExAttempts : exAt[a] = [pc |-> exAt[a].pc, try |-> exAt[a].try]
                                /\ exAt[a].try \in 1..exTries
    /\ exCode = [r \in ExRuns |-> exCode[r]] /\ exCli = [r \in ExRuns |-> exCli[r]]
    /\ exFiles = [t \in 1..ExTries |-> exFiles[t]]
    /\ \A t \in 1..ExTries :
          /\ exFiles[t] = [artifact |-> exFiles[t].artifact, manifest |-> exFiles[t].manifest]
          /\ exFiles[t].artifact # ExNobody => exFiles[t].artifact[2] = t
    /\ exLoaded = [a \in 1..ExAttempts |-> exLoaded[a]]
    /\ exSnap = [a \in 1..ExAttempts |-> exSnap[a]]
    /\ \A a \in 1..ExAttempts : exSnap[a] \subseteq {r \in ExRuns : r[1] = a}

\* Attempts that have not been started, and the one that is under way.
ExOrder ==
    /\ \A a \in 1..ExAttempts : a > exNow =>
          /\ exProc[a] = "none" /\ exEnd[a] = "none" /\ exAt[a] = ExFirst /\ exLoaded[a] = ExNobody
          /\ \A r \in ExRuns : r[1] = a => exCode[r] = "none" /\ exCli[r] = "none"
    /\ exSuper # "idle" => exNow >= 1 /\ exEnd[exNow] = "none"
    /\ exSuper \in {"kill", "group"} => exMode = "process"

ExQuiet(a) == exProc[a] \notin {"run", "leaving"} /\ ExAliveOf(a) = {}

\* Nothing of an earlier attempt runs, and the current attempt's output is its own, where
\* the code of the try has written one.
ExAlone ==
    ~exStray =>
        /\ \A b \in 1..ExAttempts : b < exNow => ExQuiet(b)
        /\ \A r \in ExRuns :
              r[1] = exNow /\ exCode[r] \in {"artifact", "manifest", "ok"} /\ r \notin exEarly =>
                  exFiles[r[2]].artifact = r
        /\ \A a \in 1..ExAttempts :
              a = exNow /\ exAt[a].pc = "load" /\ <<a, exAt[a].try>> \notin exEarly =>
                  exFiles[exAt[a].try].artifact = <<a, exAt[a].try>>

ExInv == ExTyped /\ ExOrder /\ ExAlone /\ ExAttemptsApart

\* The runs of an attempt are its own, try by try.
LEMMA ExRunsOf ==
    ASSUME ExInv
    PROVE  /\ ExAttempts \in Nat /\ ExTries \in Nat /\ exNow \in 0..ExAttempts
           /\ \A a \in 1..ExAttempts, t \in 1..exTries :
                 <<a, t>> \in ExRuns /\ <<a, t>>[1] = a /\ <<a, t>>[2] = t
           /\ \A r \in ExRuns : r[1] \in 1..ExAttempts /\ r[2] \in 1..ExTries /\ r = <<r[1], r[2]>>
  BY ExAssumption DEF ExInv, ExTyped, ExRuns

\* Steps of one attempt, its worker, its generated code or its supervisor.
LEMMA ExOnly ==
    ASSUME ExInv, NEW a \in 1..ExAttempts, a <= exNow,
           NEW p, NEW t, NEW e, NEW l, NEW s,
           UNCHANGED <<exConfig, exNow, exFiles, exStray, exEarly>>,
           exProc' = [exProc EXCEPT ![a] = p], exAt' = [exAt EXCEPT ![a] = t],
           exEnd' = [exEnd EXCEPT ![a] = e], exLoaded' = [exLoaded EXCEPT ![a] = l],
           exSnap' = [exSnap EXCEPT ![a] = s],
           t = [pc |-> t.pc, try |-> t.try], t.try \in 1..exTries,
           s \subseteq {r \in ExRuns : r[1] = a},
           exCode' = [r \in ExRuns |-> exCode'[r]], exCli' = [r \in ExRuns |-> exCli'[r]],
           \A r \in ExRuns : r[1] # a => exCode'[r] = exCode[r] /\ exCli'[r] = exCli[r],
           \A r \in ExRuns : r[1] = a /\ exCode'[r] \in {"artifact", "manifest", "ok"} =>
               exCode'[r] = exCode[r],
           exSuper' # "idle" => exNow >= 1 /\ exEnd'[exNow] = "none",
           exSuper' \in {"kill", "group"} => exMode = "process",
           exMode = "process" /\ e = "stopped" => p = "dead" /\ ExDescendants(a)' = {},
           ~exStray /\ a < exNow => ExQuiet(a)',
           ~exStray /\ a = exNow /\ t.pc = "load" /\ <<a, t.try>> \notin exEarly =>
               exFiles[t.try].artifact = <<a, t.try>>,
           ~exStray /\ l # ExNobody /\ <<a, l[2]>> \notin exEarly => l[1] = a
    PROVE  ExInv'
<1>1. /\ exProc'[a] = p /\ exAt'[a] = t /\ exEnd'[a] = e /\ exLoaded'[a] = l /\ exSnap'[a] = s
      /\ \A b \in 1..ExAttempts : b # a =>
            /\ exProc'[b] = exProc[b] /\ exAt'[b] = exAt[b] /\ exEnd'[b] = exEnd[b]
            /\ exLoaded'[b] = exLoaded[b] /\ exSnap'[b] = exSnap[b]
  BY DEF ExInv, ExTyped
<1>2. /\ exTries' = exTries /\ exMode' = exMode /\ exBackend' = exBackend
      /\ exNow' = exNow /\ exFiles' = exFiles /\ exStray' = exStray /\ exEarly' = exEarly
  BY DEF exConfig
<1>3. ExTyped'
  <2>1. /\ exProc' = [b \in 1..ExAttempts |-> exProc'[b]] /\ exEnd' = [b \in 1..ExAttempts |-> exEnd'[b]]
        /\ exAt' = [b \in 1..ExAttempts |-> exAt'[b]] /\ exLoaded' = [b \in 1..ExAttempts |-> exLoaded'[b]]
        /\ exSnap' = [b \in 1..ExAttempts |-> exSnap'[b]]
    BY DEF ExInv, ExTyped
  <2>2. \A b \in 1..ExAttempts : exAt'[b] = [pc |-> exAt'[b].pc, try |-> exAt'[b].try]
                                 /\ exAt'[b].try \in 1..exTries
    BY <1>1 DEF ExInv, ExTyped
  <2>3. \A b \in 1..ExAttempts : exSnap'[b] \subseteq {r \in ExRuns : r[1] = b}
    BY <1>1 DEF ExInv, ExTyped
  <2> QED
    BY <1>2, <2>1, <2>2, <2>3 DEF ExInv, ExTyped
<1>4. \A b \in 1..ExAttempts : b # a =>
         /\ ExAliveOf(b)' = ExAliveOf(b) /\ ExCliOf(b)' = ExCliOf(b)
  BY DEF ExAliveOf, ExCliOf
<1>5. \A b \in 1..ExAttempts : b # a => ExDescendants(b)' = ExDescendants(b) /\ ExQuiet(b)' = ExQuiet(b)
  BY <1>1, <1>2, <1>4 DEF ExDescendants, ExQuiet
<1>6. ExOrder'
  <2>1. ASSUME NEW b \in 1..ExAttempts, b > exNow
        PROVE  /\ exProc'[b] = "none" /\ exEnd'[b] = "none" /\ exAt'[b] = ExFirst /\ exLoaded'[b] = ExNobody
               /\ \A r \in ExRuns : r[1] = b => exCode'[r] = "none" /\ exCli'[r] = "none"
    <3>1. b # a
      BY <2>1, ExRunsOf
    <3> QED
      BY <1>1, <2>1, <3>1 DEF ExInv, ExOrder
  <2> QED
    BY <1>2, <2>1 DEF ExOrder
<1>7. ASSUME ~exStray PROVE ExAlone'
  <2>1. \A b \in 1..ExAttempts : b < exNow => ExQuiet(b)'
    BY <1>5, <1>7 DEF ExInv, ExAlone
  <2>2. ASSUME NEW r \in ExRuns, r[1] = exNow, exCode'[r] \in {"artifact", "manifest", "ok"},
               r \notin exEarly
        PROVE  exFiles[r[2]].artifact = r
    <3>1. exCode'[r] = exCode[r]
      BY <2>2
    <3> QED
      BY <1>7, <2>2, <3>1 DEF ExInv, ExAlone
  <2>3. ASSUME NEW b \in 1..ExAttempts, b = exNow, exAt'[b].pc = "load",
               <<b, exAt'[b].try>> \notin exEarly
        PROVE  exFiles[exAt'[b].try].artifact = <<b, exAt'[b].try>>
    <3>1. CASE b = a
      <4>1. exAt'[b] = t /\ a = exNow
        BY <1>1, <2>3, <3>1
      <4>2. exFiles[t.try].artifact = <<a, t.try>>
        BY <1>7, <2>3, <4>1
      <4> QED
        BY <3>1, <4>1, <4>2
    <3>2. CASE b # a
      <4>1. exAt'[b] = exAt[b]
        BY <1>1, <3>2
      <4>2. exFiles[exAt[b].try].artifact = <<b, exAt[b].try>>
        BY <1>7, <2>3, <4>1 DEF ExInv, ExAlone
      <4> QED
        BY <4>1, <4>2
    <3> QED
      BY <3>1, <3>2
  <2> QED
    BY <1>2, <2>1, <2>2, <2>3 DEF ExAlone
<1>8. ExAlone'
  BY <1>2, <1>7 DEF ExAlone
<1>9. ExAttemptsApart'
  <2>1. ExNothingRunsOn'
    BY <1>1, <1>2, <1>5 DEF ExInv, ExAttemptsApart, ExNothingRunsOn
  <2>2. ExOwnOutput'
    BY <1>1, <1>2 DEF ExInv, ExAttemptsApart, ExOwnOutput
  <2> QED
    BY <2>1, <2>2 DEF ExAttemptsApart
<1> QED
  BY <1>3, <1>6, <1>8, <1>9 DEF ExInv

\* What a worker that is alive says of the attempt.
LEMMA ExWorking ==
    ASSUME ExInv, NEW a \in 1..ExAttempts, exProc[a] \in {"run", "leaving"}
    PROVE  /\ a <= exNow /\ a \in Nat
           /\ ~(exMode = "process" /\ exEnd[a] = "stopped")
           /\ ~exStray => a = exNow
<1>1. a \in Nat /\ exNow \in Nat
  BY ExRunsOf
<1>2. a <= exNow
  BY <1>1 DEF ExInv, ExOrder
<1>3. ~(exMode = "process" /\ exEnd[a] = "stopped")
  BY DEF ExInv, ExAttemptsApart, ExNothingRunsOn
<1>4. ~exStray => ~(a < exNow)
  BY DEF ExInv, ExAlone, ExQuiet
<1> QED
  BY <1>1, <1>2, <1>3, <1>4

\* A step of a worker, which puts p, t, l and s for what is kept of the attempt.
ExStep(a, p, t, l, s) ==
    /\ UNCHANGED <<exConfig, exNow, exSuper, exEnd, exFiles, exStray, exEarly>>
    /\ exProc' = [exProc EXCEPT ![a] = p] /\ exAt' = [exAt EXCEPT ![a] = t]
    /\ exLoaded' = [exLoaded EXCEPT ![a] = l] /\ exSnap' = [exSnap EXCEPT ![a] = s]
    /\ t = [pc |-> t.pc, try |-> t.try] /\ t.try \in 1..exTries
    /\ s \subseteq {r \in ExRuns : r[1] = a}
    /\ ~exStray /\ a = exNow /\ t.pc = "load" /\ <<a, t.try>> \notin exEarly =>
           exFiles[t.try].artifact = <<a, t.try>>
    /\ ~exStray /\ l # ExNobody /\ <<a, l[2]>> \notin exEarly => l[1] = a

\* What it may do to the runs.
ExRunsKept(a) ==
    /\ exCode' = [r \in ExRuns |-> exCode'[r]] /\ exCli' = [r \in ExRuns |-> exCli'[r]]
    /\ \A r \in ExRuns : r[1] # a => exCode'[r] = exCode[r] /\ exCli'[r] = exCli[r]
    /\ \A r \in ExRuns : r[1] = a /\ exCode'[r] \in {"artifact", "manifest", "ok"} =>
          exCode'[r] = exCode[r]

LEMMA ExWorker ==
    ASSUME ExInv, NEW a \in 1..ExAttempts, exProc[a] \in {"run", "leaving"},
           NEW p, NEW t, NEW l, NEW s, ExStep(a, p, t, l, s), ExRunsKept(a)
    PROVE  ExInv'
<1>1. PICK e : e = exEnd[a]
  OBVIOUS
<1>2. exEnd' = [exEnd EXCEPT ![a] = e]
  BY <1>1 DEF ExStep, ExInv, ExTyped
<1>3. /\ a <= exNow /\ a \in Nat
      /\ ~(exMode = "process" /\ e = "stopped")
      /\ ~exStray => a = exNow
  BY <1>1, ExWorking
<1>4. ~(~exStray /\ a < exNow)
  BY <1>3
<1>5. exSuper' # "idle" => exNow >= 1 /\ exEnd'[exNow] = "none"
  BY DEF ExStep, ExInv, ExOrder
<1>6. exSuper' \in {"kill", "group"} => exMode = "process"
  BY DEF ExStep, ExInv, ExOrder
<1> QED
  BY <1>2, <1>3, <1>4, <1>5, <1>6, ExOnly DEF ExStep, ExRunsKept

LEMMA ExRunsStay ==
    ASSUME ExInv, UNCHANGED <<exCode, exCli>>, NEW a
    PROVE  ExRunsKept(a)
  BY DEF ExRunsKept, ExInv, ExTyped

\* What stays of an attempt.
LEMMA ExOfAttempt ==
    ASSUME ExInv, NEW a \in 1..ExAttempts
    PROVE  /\ exProc = [exProc EXCEPT ![a] = exProc[a]]
           /\ exAt = [exAt EXCEPT ![a] = exAt[a]]
           /\ exLoaded = [exLoaded EXCEPT ![a] = exLoaded[a]]
           /\ exSnap = [exSnap EXCEPT ![a] = exSnap[a]]
           /\ exAt[a] = [pc |-> exAt[a].pc, try |-> exAt[a].try] /\ exAt[a].try \in 1..exTries
           /\ exSnap[a] \subseteq {r \in ExRuns : r[1] = a}
           /\ ~exStray /\ a = exNow /\ exAt[a].pc = "load" /\ <<a, exAt[a].try>> \notin exEarly =>
                 exFiles[exAt[a].try].artifact = <<a, exAt[a].try>>
           /\ ~exStray /\ exLoaded[a] # ExNobody /\ <<a, exLoaded[a][2]>> \notin exEarly => exLoaded[a][1] = a
           /\ exTries \in Nat /\ exTries >= 1
<1>1. /\ exProc = [exProc EXCEPT ![a] = exProc[a]]
      /\ exAt = [exAt EXCEPT ![a] = exAt[a]]
      /\ exLoaded = [exLoaded EXCEPT ![a] = exLoaded[a]]
      /\ exSnap = [exSnap EXCEPT ![a] = exSnap[a]]
  BY DEF ExInv, ExTyped
<1>2. /\ exAt[a] = [pc |-> exAt[a].pc, try |-> exAt[a].try] /\ exAt[a].try \in 1..exTries
      /\ exSnap[a] \subseteq {r \in ExRuns : r[1] = a}
      /\ exTries \in Nat /\ exTries >= 1
  BY ExRunsOf DEF ExInv, ExTyped
<1>3. ~exStray /\ a = exNow /\ exAt[a].pc = "load" /\ <<a, exAt[a].try>> \notin exEarly =>
         exFiles[exAt[a].try].artifact = <<a, exAt[a].try>>
  BY DEF ExInv, ExAlone
<1>4. ~exStray /\ exLoaded[a] # ExNobody /\ <<a, exLoaded[a][2]>> \notin exEarly => exLoaded[a][1] = a
  BY DEF ExInv, ExAttemptsApart, ExOwnOutput
<1> QED
  BY <1>1, <1>2, <1>3, <1>4

\* Where the worker goes when it has nothing to load yet.
ExTo(a, t) ==
    /\ exAt' = [exAt EXCEPT ![a] = t]
    /\ t = [pc |-> t.pc, try |-> t.try] /\ t.try \in 1..exTries /\ t.pc # "load"

LEMMA ExMoves ==
    ASSUME ExInv, NEW a \in 1..ExAttempts, NEW pc, ExMove(a, pc)
    PROVE  exAt' = [exAt EXCEPT ![a] = [pc |-> pc, try |-> exAt[a].try]]
<1>1. PICK o : o = exAt[a]
  OBVIOUS
<1>2. o = [pc |-> o.pc, try |-> o.try]
  BY <1>1, ExOfAttempt
<1>3. [o EXCEPT !.pc = pc] = [pc |-> pc, try |-> o.try]
  BY <1>2
<1>4. exAt' = [exAt EXCEPT ![a] = [o EXCEPT !.pc = pc]]
  BY <1>1 DEF ExMove, ExInv, ExTyped
<1> QED
  BY <1>1, <1>3, <1>4

LEMMA ExGoes ==
    ASSUME ExInv, NEW a \in 1..ExAttempts,
           ExNextTry(a) \/ ExGone(a) \/ ExMove(a, "raised") \/ ExMove(a, "start")
                        \/ ExMove(a, "wait") \/ ExMove(a, "done")
    PROVE  \E t : ExTo(a, t)
<1>1. PICK o : o = exAt[a]
  OBVIOUS
<1>2. o = [pc |-> o.pc, try |-> o.try] /\ o.try \in 1..exTries /\ exTries \in Nat /\ exTries >= 1
  BY <1>1, ExOfAttempt
<1>3. ASSUME NEW pc, pc # "load", ExMove(a, pc) PROVE \E t : ExTo(a, t)
  <2>1. PICK t : t = [pc |-> pc, try |-> o.try]
    OBVIOUS
  <2>2. exAt' = [exAt EXCEPT ![a] = t]
    BY <1>1, <1>3, <2>1, ExMoves
  <2>3. ExTo(a, t)
    BY <1>2, <1>3, <2>1, <2>2 DEF ExTo
  <2> QED
    BY <2>3
<1>4. CASE ExNextTry(a)
  <2>1. PICK t : t = IF o.try < exTries THEN [pc |-> "ask", try |-> o.try + 1]
                     ELSE [o EXCEPT !.pc = "raised"]
    OBVIOUS
  <2>2. exAt' = [exAt EXCEPT ![a] = t]
    BY <1>1, <1>4, <2>1 DEF ExNextTry, ExInv, ExTyped
  <2>3. t = [pc |-> t.pc, try |-> t.try] /\ t.pc # "load" /\ t.try \in 1..exTries
    <3>1. CASE o.try < exTries
      BY <1>2, <2>1, <3>1
    <3>2. CASE ~(o.try < exTries)
      <4>1. t = [pc |-> "raised", try |-> o.try]
        BY <1>2, <2>1, <3>2
      <4> QED
        BY <1>2, <4>1
    <3> QED
      BY <3>1, <3>2
  <2>4. ExTo(a, t)
    BY <2>2, <2>3 DEF ExTo
  <2> QED
    BY <2>4
<1>5. CASE ExGone(a)
  <2>1. PICK t : t = ExFirst
    OBVIOUS
  <2>2. ExTo(a, t)
    BY <1>2, <1>5, <2>1 DEF ExGone, ExFirst, ExTo
  <2> QED
    BY <2>2
<1> QED
  BY <1>3, <1>4, <1>5

\* The LLM answers, or does not.
LEMMA ExOfAsk ==
    ASSUME ExInv, NEW a \in 1..ExAttempts, ExAsk(a)
    PROVE  ExInv'
<1>1. /\ exProc[a] \in {"run", "leaving"}
      /\ UNCHANGED <<exConfig, exNow, exSuper, exEnd, exFiles, exStray, exEarly, exCode, exCli, exProc, exLoaded, exSnap>>
  BY DEF ExAsk, ExWorks
<1>2. PICK t : ExTo(a, t)
  BY ExGoes DEF ExAsk
<1>3. ExStep(a, exProc[a], t, exLoaded[a], exSnap[a])
  BY <1>1, <1>2, ExOfAttempt DEF ExStep, ExTo
<1> QED
  BY <1>1, <1>3, ExRunsStay, ExWorker

\* The code of a run starts.
LEMMA ExSpawned ==
    ASSUME ExInv, NEW a \in 1..ExAttempts, exProc[a] \in {"run", "leaving"},
           exCode' = [exCode EXCEPT ![ExRun(a)] = "run"],
           exCli' = [exCli EXCEPT ![ExRun(a)] = IF exBackend = "docker" THEN "run" ELSE "none"],
           ExMove(a, "wait"),
           UNCHANGED <<exConfig, exNow, exSuper, exEnd, exProc, exSnap, exFiles, exLoaded, exStray, exEarly>>
    PROVE  ExInv'
<1>1. PICK t : ExTo(a, t)
  BY ExGoes
<1>2. PICK q : q = ExRun(a)
  OBVIOUS
<1>3. q \in ExRuns /\ q[1] = a
  BY <1>2, ExRunsOf, ExOfAttempt DEF ExRun
<1>4. /\ exCode' = [r \in ExRuns |-> exCode'[r]] /\ exCli' = [r \in ExRuns |-> exCli'[r]]
      /\ \A r \in ExRuns : r # q => exCode'[r] = exCode[r] /\ exCli'[r] = exCli[r]
      /\ exCode'[q] = "run"
  BY <1>2, <1>3 DEF ExInv, ExTyped
<1>5. ExRunsKept(a)
  BY <1>3, <1>4 DEF ExRunsKept
<1>6. ExStep(a, exProc[a], t, exLoaded[a], exSnap[a])
  BY <1>1, ExOfAttempt DEF ExStep, ExTo
<1> QED
  BY <1>5, <1>6, ExWorker

\* A run of the worker ends, or what it leaves is removed.
LEMMA ExRunEnds ==
    ASSUME ExInv, NEW a \in 1..ExAttempts, NEW x,
           exCode' = [exCode EXCEPT ![ExRun(a)] = x],
           x \in {"none", exCode[ExRun(a)]},
           exCli' = exCli \/ exCli' = [exCli EXCEPT ![ExRun(a)] = "none"]
    PROVE  ExRunsKept(a)
<1>1. PICK q : q = ExRun(a)
  OBVIOUS
<1>2. q \in ExRuns /\ q[1] = a
  BY <1>1, ExRunsOf, ExOfAttempt DEF ExRun
<1>3. /\ exCode' = [r \in ExRuns |-> exCode'[r]] /\ exCli' = [r \in ExRuns |-> exCli'[r]]
      /\ \A r \in ExRuns : r # q => exCode'[r] = exCode[r] /\ exCli'[r] = exCli[r]
      /\ exCode'[q] \in {"none", exCode[q]}
  BY <1>1, <1>2 DEF ExInv, ExTyped
<1> QED
  BY <1>2, <1>3 DEF ExRunsKept

LEMMA ExOfWait ==
    ASSUME ExInv, NEW a \in 1..ExAttempts, ExWait(a)
    PROVE  ExInv'
<1>1. /\ exProc[a] \in {"run", "leaving"}
      /\ UNCHANGED <<exConfig, exNow, exSuper, exEnd, exFiles, exStray, exEarly, exProc, exLoaded, exSnap>>
      /\ exCli' = [exCli EXCEPT ![ExRun(a)] = "none"]
  BY DEF ExWait, ExWorks
<1>2. PICK q, c : q = ExRun(a) /\ c = exCode[q]
  OBVIOUS
<1>3. q \in ExRuns /\ q = <<a, exAt[a].try>> /\ q[1] = a /\ q[2] = exAt[a].try
  BY <1>2, ExRunsOf, ExOfAttempt DEF ExRun
<1>4. PICK x : x = IF c \in ExRunning THEN c ELSE "none"
  OBVIOUS
<1>5. exCode' = [exCode EXCEPT ![ExRun(a)] = x] /\ x \in {"none", exCode[ExRun(a)]}
  BY <1>2, <1>3, <1>4 DEF ExWait, ExInv, ExTyped
<1>6. ExRunsKept(a)
  BY <1>1, <1>5, ExRunEnds
<1>7. CASE ExExitOk(ExRun(a))
  <2>1. PICK t : t = [pc |-> "load", try |-> exAt[a].try]
    OBVIOUS
  <2>2. exAt' = [exAt EXCEPT ![a] = t]
    BY <1>7, <2>1, ExMoves DEF ExWait
  <2>3. exCode[q] = "ok"
    BY <1>2, <1>7 DEF ExExitOk
  <2>4. ~exStray /\ a = exNow /\ q \notin exEarly => exFiles[q[2]].artifact = q
    BY <1>3, <2>3 DEF ExInv, ExAlone
  <2>5. t = [pc |-> t.pc, try |-> t.try] /\ t.try \in 1..exTries /\ t.try = q[2] /\ <<a, t.try>> = q
    BY <1>3, <2>1, ExOfAttempt
  <2>6. ExStep(a, exProc[a], t, exLoaded[a], exSnap[a])
    BY <1>1, <2>2, <2>4, <2>5, ExOfAttempt DEF ExStep
  <2> QED
    BY <1>1, <1>6, <2>6, ExWorker
<1>8. CASE ~ExExitOk(ExRun(a))
  <2>1. PICK t : ExTo(a, t)
    BY <1>8, ExGoes DEF ExWait
  <2>2. ExStep(a, exProc[a], t, exLoaded[a], exSnap[a])
    BY <1>1, <2>1, ExOfAttempt DEF ExStep, ExTo
  <2> QED
    BY <1>1, <1>6, <2>2, ExWorker
<1> QED
  BY <1>7, <1>8

LEMMA ExOfTimeout ==
    ASSUME ExInv, NEW a \in 1..ExAttempts, NEW b \in BOOLEAN, ExDockerTimeout(a, b)
    PROVE  ExInv'
<1>1. /\ exProc[a] \in {"run", "leaving"}
      /\ UNCHANGED <<exConfig, exNow, exSuper, exEnd, exFiles, exStray, exEarly, exProc, exLoaded, exSnap>>
      /\ exCli' = [exCli EXCEPT ![ExRun(a)] = "none"]
  BY DEF ExDockerTimeout, ExWorks
<1>2. PICK q, c : q = ExRun(a) /\ c = exCode[q]
  OBVIOUS
<1>3. q \in ExRuns
  BY <1>2, ExRunsOf, ExOfAttempt DEF ExRun
<1>4. PICK x : x = IF b \/ c \notin ExRunning THEN "none" ELSE c
  OBVIOUS
<1>5. exCode' = [exCode EXCEPT ![ExRun(a)] = x] /\ x \in {"none", exCode[ExRun(a)]}
  BY <1>2, <1>3, <1>4 DEF ExDockerTimeout, ExInv, ExTyped
<1>6. PICK t : ExTo(a, t)
  BY ExGoes DEF ExDockerTimeout
<1>7. ExStep(a, exProc[a], t, exLoaded[a], exSnap[a])
  BY <1>1, <1>6, ExOfAttempt DEF ExStep, ExTo
<1> QED
  BY <1>1, <1>5, <1>7, ExRunEnds, ExWorker

LEMMA ExOfKillTree ==
    ASSUME ExInv, NEW a \in 1..ExAttempts, ExKillTree(a)
    PROVE  ExInv'
<1>1. /\ exProc[a] \in {"run", "leaving"} /\ exCli' = exCli
      /\ UNCHANGED <<exConfig, exNow, exSuper, exEnd, exFiles, exStray, exEarly, exProc, exLoaded, exSnap>>
      /\ exCode' = [exCode EXCEPT ![ExRun(a)] = "none"]
  BY DEF ExKillTree, ExWorks
<1>2. PICK t : ExTo(a, t)
  BY ExGoes DEF ExKillTree
<1>3. ExStep(a, exProc[a], t, exLoaded[a], exSnap[a])
  BY <1>1, <1>2, ExOfAttempt DEF ExStep, ExTo
<1>4. ExRunsKept(a)
  BY <1>1, ExRunEnds
<1> QED
  BY <1>1, <1>3, <1>4, ExWorker

\* The output is read: this attempt's own run of the try wrote it, if it wrote any.
LEMMA ExOfLoad ==
    ASSUME ExInv, NEW a \in 1..ExAttempts, NEW b \in BOOLEAN, ExLoad(a, b)
    PROVE  ExInv'
<1>1. /\ exProc[a] \in {"run", "leaving"} /\ exAt[a].pc = "load"
      /\ UNCHANGED <<exConfig, exNow, exSuper, exEnd, exFiles, exStray, exEarly, exCode, exCli, exProc, exSnap>>
  BY DEF ExLoad, ExWorks
<1>2. PICK t : ExTo(a, t)
  BY ExGoes DEF ExLoad
<1>3. PICK l : l \in {exLoaded[a], exFiles[exAt[a].try].artifact} /\ exLoaded' = [exLoaded EXCEPT ![a] = l]
  <2>1. exLoaded' = exLoaded \/ exLoaded' = [exLoaded EXCEPT ![a] = exFiles[exAt[a].try].artifact]
    BY DEF ExLoad
  <2> QED
    BY <2>1, ExOfAttempt
<1>4. ~exStray /\ l # ExNobody /\ <<a, l[2]>> \notin exEarly => l[1] = a
  <2>1. PICK t0 : t0 = exAt[a].try
    OBVIOUS
  <2>2. t0 \in 1..ExTries
    BY <2>1, ExOfAttempt, ExAssumption DEF ExInv, ExTyped
  <2>3. ~exStray /\ <<a, t0>> \notin exEarly => exFiles[t0].artifact = <<a, t0>>
    BY <1>1, <2>1, ExWorking, ExOfAttempt
  <2>4. exFiles[t0].artifact # ExNobody => exFiles[t0].artifact[2] = t0
    BY <2>2 DEF ExInv, ExTyped
  <2>5. <<a, t0>>[1] = a
    OBVIOUS
  <2>6. CASE l = exFiles[t0].artifact
    BY <2>3, <2>4, <2>5, <2>6
  <2>7. CASE l = exLoaded[a]
    BY <2>7, ExOfAttempt
  <2> QED
    BY <1>3, <2>1, <2>6, <2>7
<1>5. ExStep(a, exProc[a], t, l, exSnap[a])
  BY <1>1, <1>2, <1>3, <1>4, ExOfAttempt DEF ExStep, ExTo
<1> QED
  BY <1>1, <1>5, ExRunsStay, ExWorker

\* The worker reports, dies, or sees that its parent is gone.
LEMMA ExOfEnd ==
    ASSUME ExInv, NEW a \in 1..ExAttempts, ExReport(a) \/ ExDies(a) \/ ExParentGone(a)
    PROVE  ExInv'
<1>1. /\ exProc[a] \in {"run", "leaving"}
      /\ UNCHANGED <<exConfig, exNow, exSuper, exEnd, exFiles, exStray, exEarly, exCode, exCli, exLoaded>>
  BY DEF ExReport, ExDies, ExParentGone, ExWorks
<1>2. CASE ExReport(a)
  <2>1. ExStep(a, "sent", exAt[a], exLoaded[a], exSnap[a])
    BY <1>1, <1>2, ExOfAttempt DEF ExStep, ExReport
  <2> QED
    BY <1>1, <2>1, ExRunsStay, ExWorker
<1>3. CASE ExDies(a)
  <2>1. PICK t : ExTo(a, t)
    BY <1>3, ExGoes DEF ExDies
  <2>2. ExStep(a, "dead", t, exLoaded[a], exSnap[a])
    BY <1>1, <1>3, <2>1, ExOfAttempt DEF ExStep, ExDies, ExGone, ExTo
  <2> QED
    BY <1>1, <2>2, ExRunsStay, ExWorker
<1>4. CASE ExParentGone(a)
  <2>1. ExDescendants(a) \subseteq {r \in ExRuns : r[1] = a}
    BY DEF ExDescendants, ExCliOf, ExAliveOf
  <2>2. ExStep(a, "leaving", exAt[a], exLoaded[a], ExDescendants(a))
    BY <1>1, <1>4, <2>1, ExOfAttempt DEF ExStep, ExParentGone
  <2> QED
    BY <1>1, <2>2, ExRunsStay, ExWorker
<1> QED
  BY <1>2, <1>3, <1>4

\* terminate(): of the runs listed, in the code or in the client, no more than that.
LEMMA ExTerminated ==
    ASSUME ExInv, NEW a \in 1..ExAttempts, NEW runs, runs \subseteq {r \in ExRuns : r[1] = a},
           ExTerminate(runs), UNCHANGED exConfig
    PROVE  /\ exCode' = [r \in ExRuns |-> exCode'[r]] /\ exCli' = [r \in ExRuns |-> exCli'[r]]
           /\ \A r \in ExRuns : r[1] # a => exCode'[r] = exCode[r] /\ exCli'[r] = exCli[r]
           /\ \A r \in ExRuns : exCode'[r] \in {exCode[r], "failed"} /\ exCli'[r] \in {exCli[r], "dead"}
           /\ ExAliveOf(a)' \subseteq ExAliveOf(a)
           /\ runs = ExDescendants(a) => ExDescendants(a)' = {}
<1>1. CASE exBackend = "docker"
  <2>1. /\ exCli' = [r \in ExRuns |-> IF r \in runs THEN "dead" ELSE exCli[r]] /\ exCode' = exCode
        /\ exBackend' = "docker"
    BY <1>1 DEF ExTerminate, exConfig
  <2>2. /\ exCode' = [r \in ExRuns |-> exCode'[r]] /\ exCli' = [r \in ExRuns |-> exCli'[r]]
    BY <2>1 DEF ExInv, ExTyped
  <2>3. ExAliveOf(a)' = ExAliveOf(a)
    BY <2>1 DEF ExAliveOf
  <2>4. runs = ExDescendants(a) => ExDescendants(a)' = {}
    BY <1>1, <2>1 DEF ExDescendants, ExCliOf
  <2> QED
    BY <2>1, <2>2, <2>3, <2>4
<1>2. CASE exBackend # "docker"
  <2>1. /\ exCode' = [r \in ExRuns |-> IF r \in runs /\ exCode[r] \in ExRunning THEN "failed" ELSE exCode[r]]
        /\ exCli' = exCli /\ exBackend' # "docker"
    BY <1>2 DEF ExTerminate, exConfig
  <2>2. /\ exCode' = [r \in ExRuns |-> exCode'[r]] /\ exCli' = [r \in ExRuns |-> exCli'[r]]
    BY <2>1 DEF ExInv, ExTyped
  <2>3. ExAliveOf(a)' \subseteq ExAliveOf(a)
    BY <2>1 DEF ExAliveOf, ExRunning
  <2>4. runs = ExDescendants(a) => ExDescendants(a)' = {}
    BY <1>2, <2>1 DEF ExDescendants, ExAliveOf, ExRunning
  <2> QED
    BY <2>1, <2>2, <2>3, <2>4
<1> QED
  BY <1>1, <1>2

LEMMA ExOfLeave ==
    ASSUME ExInv, NEW a \in 1..ExAttempts, ExLeave(a)
    PROVE  ExInv'
<1>1. /\ exProc[a] \in {"run", "leaving"} /\ ExTerminate(exSnap[a])
      /\ UNCHANGED <<exConfig, exNow, exSuper, exEnd, exFiles, exLoaded, exStray, exEarly>>
      /\ exSnap' = [exSnap EXCEPT ![a] = {}] /\ ExGone(a)
  BY DEF ExLeave
<1>2. /\ exCode' = [r \in ExRuns |-> exCode'[r]] /\ exCli' = [r \in ExRuns |-> exCli'[r]]
      /\ \A r \in ExRuns : r[1] # a => exCode'[r] = exCode[r] /\ exCli'[r] = exCli[r]
      /\ \A r \in ExRuns : exCode'[r] \in {exCode[r], "failed"}
  BY <1>1, ExTerminated, ExOfAttempt
<1>3. ExRunsKept(a)
  BY <1>2 DEF ExRunsKept
<1>4. PICK t : ExTo(a, t)
  BY <1>1, ExGoes
<1>5. ExStep(a, "dead", t, exLoaded[a], {})
  BY <1>1, <1>4, ExOfAttempt DEF ExStep, ExTo, ExGone
<1> QED
  BY <1>1, <1>3, <1>5, ExWorker

\* A step of the supervisor: it ends the attempt with e, or goes on with super.
ExHandled(p, t, e, s, super) ==
    /\ exSuper # "idle" /\ exSuper' = super
    /\ UNCHANGED <<exConfig, exNow, exFiles, exLoaded, exStray, exEarly>>
    /\ exProc' = [exProc EXCEPT ![exNow] = p] /\ exAt' = [exAt EXCEPT ![exNow] = t]
    /\ exEnd' = [exEnd EXCEPT ![exNow] = e] /\ exSnap' = [exSnap EXCEPT ![exNow] = s]
    /\ s \subseteq {r \in ExRuns : r[1] = exNow}
    /\ t \in {exAt[exNow], ExFirst}
    /\ super # "idle" => e = "none"
    /\ super \in {"kill", "group"} => exMode = "process"
    /\ exMode = "process" /\ e = "stopped" => p = "dead" /\ ExDescendants(exNow)' = {}

LEMMA ExSupervised ==
    ASSUME ExInv, NEW p, NEW t, NEW e, NEW s, NEW super, ExHandled(p, t, e, s, super),
           ExRunsKept(exNow)
    PROVE  ExInv'
<1>1. PICK a : a = exNow
  OBVIOUS
<1>2. a \in 1..ExAttempts /\ a <= exNow /\ a >= 1 /\ ~(a < exNow)
  BY <1>1, ExRunsOf DEF ExHandled, ExInv, ExOrder
<1>3. PICK l : l = exLoaded[a]
  OBVIOUS
<1>4. /\ UNCHANGED <<exConfig, exNow, exFiles, exStray, exEarly>>
      /\ exProc' = [exProc EXCEPT ![a] = p] /\ exAt' = [exAt EXCEPT ![a] = t]
      /\ exEnd' = [exEnd EXCEPT ![a] = e] /\ exSnap' = [exSnap EXCEPT ![a] = s]
      /\ s \subseteq {r \in ExRuns : r[1] = a}
      /\ exMode = "process" /\ e = "stopped" => p = "dead" /\ ExDescendants(exNow)' = {}
  BY <1>1 DEF ExHandled
<1>5. exLoaded' = [exLoaded EXCEPT ![a] = l]
  BY <1>2, <1>3, ExOfAttempt DEF ExHandled
<1>6. ~exStray /\ l # ExNobody /\ <<a, l[2]>> \notin exEarly => l[1] = a
  BY <1>2, <1>3, ExOfAttempt
<1>7. /\ t = [pc |-> t.pc, try |-> t.try] /\ t.try \in 1..exTries
      /\ ~exStray /\ a = exNow /\ t.pc = "load" /\ <<a, t.try>> \notin exEarly =>
             exFiles[t.try].artifact = <<a, t.try>>
  <2>1. CASE t = exAt[a]
    BY <1>2, <2>1, ExOfAttempt
  <2>2. CASE t = ExFirst
    <3>1. t.pc = "ask" /\ t.try = 1 /\ t = [pc |-> t.pc, try |-> t.try]
      BY <2>2 DEF ExFirst
    <3>2. exTries \in Nat /\ exTries >= 1
      BY <1>2, ExOfAttempt
    <3>3. 1 \in 1..exTries
      BY <3>2
    <3> QED
      BY <3>1, <3>3
  <2> QED
    BY <1>1, <2>1, <2>2 DEF ExHandled
<1>8. exSuper' # "idle" => exNow >= 1 /\ exEnd'[exNow] = "none"
  BY <1>1, <1>2 DEF ExHandled, ExInv, ExTyped
<1>9. exSuper' \in {"kill", "group"} => exMode = "process"
  BY DEF ExHandled
<1>10. ExDescendants(a)' = ExDescendants(exNow)'
  BY <1>1 DEF ExDescendants, ExAliveOf, ExCliOf, ExHandled
<1>11. ExRunsKept(a)
  BY <1>1
<1>12. /\ exCode' = [r \in ExRuns |-> exCode'[r]] /\ exCli' = [r \in ExRuns |-> exCli'[r]]
       /\ \A r \in ExRuns : r[1] # a => exCode'[r] = exCode[r] /\ exCli'[r] = exCli[r]
       /\ \A r \in ExRuns : r[1] = a /\ exCode'[r] \in {"artifact", "manifest", "ok"} =>
             exCode'[r] = exCode[r]
  BY <1>11 DEF ExRunsKept
<1>13. ~exStray /\ a < exNow => ExQuiet(a)'
  BY <1>2
<1>14. exMode = "process" /\ e = "stopped" => p = "dead" /\ ExDescendants(a)' = {}
  BY <1>4, <1>10
<1>15. a \in 1..ExAttempts /\ a <= exNow
  BY <1>2
<1> QED
  BY <1>4, <1>5, <1>6, <1>7, <1>8, <1>9, <1>12, <1>13, <1>14, <1>15, ExOnly

\* What stays of the attempt that is under way.
LEMMA ExOfCurrent ==
    ASSUME ExInv, exSuper # "idle"
    PROVE  /\ exNow \in 1..ExAttempts
           /\ exEnd[exNow] = "none" /\ exEnd = [exEnd EXCEPT ![exNow] = "none"]
           /\ exProc = [exProc EXCEPT ![exNow] = exProc[exNow]]
           /\ exAt = [exAt EXCEPT ![exNow] = exAt[exNow]]
           /\ exSnap = [exSnap EXCEPT ![exNow] = exSnap[exNow]]
           /\ exSnap[exNow] \subseteq {r \in ExRuns : r[1] = exNow}
           /\ ExDescendants(exNow) \subseteq {r \in ExRuns : r[1] = exNow}
<1>1. exNow \in 1..ExAttempts /\ exEnd[exNow] = "none"
  BY ExRunsOf DEF ExInv, ExOrder
<1>2. exEnd = [exEnd EXCEPT ![exNow] = "none"]
  BY <1>1 DEF ExInv, ExTyped
<1>3. ExDescendants(exNow) \subseteq {r \in ExRuns : r[1] = exNow}
  BY DEF ExDescendants, ExAliveOf, ExCliOf
<1> QED
  BY <1>1, <1>2, <1>3, ExOfAttempt

LEMMA ExOfSupervisor ==
    ASSUME ExInv, ExCollect \/ ExStop \/ ExWorkerKilled
    PROVE  ExInv'
<1>1. exSuper # "idle"
  BY DEF ExCollect, ExStop, ExWorkerKilled
<1>2. ExRunsKept(exNow)
  BY ExRunsStay DEF ExCollect, ExStop, ExWorkerKilled
<1>3. CASE ExCollect
  <2>1. PICK e : e = IF exProc[exNow] = "dead" THEN "lost"
                     ELSE IF exAt[exNow].pc = "done" THEN "ok" ELSE "error"
    OBVIOUS
  <2>2. e # "stopped"
    BY <2>1
  <2>3. ExHandled("dead", ExFirst, e, exSnap[exNow], "idle")
    BY <1>1, <1>3, <2>1, <2>2, ExOfCurrent DEF ExHandled, ExCollect, ExReturn, ExGone
  <2> QED
    BY <1>2, <2>3, ExSupervised
<1>4. CASE ExStop /\ exMode = "thread"
  <2>1. ExHandled(exProc[exNow], exAt[exNow], "stopped", exSnap[exNow], "idle")
    BY <1>1, <1>4, ExOfCurrent DEF ExHandled, ExStop, ExReturn
  <2> QED
    BY <1>2, <2>1, ExSupervised
<1>5. CASE ExStop /\ exMode # "thread"
  <2>1. exMode = "process"
    BY <1>5 DEF ExInv, ExTyped
  <2>2. ExHandled(exProc[exNow], exAt[exNow], "none", ExDescendants(exNow), "kill")
    BY <1>1, <1>5, <2>1, ExOfCurrent DEF ExHandled, ExStop
  <2> QED
    BY <1>2, <2>2, ExSupervised
<1>6. CASE ExWorkerKilled
  <2>1. CASE ExGone(exNow)
    <3>1. ExHandled("dead", ExFirst, "killed", {}, "idle")
      BY <1>1, <1>6, <2>1, ExOfCurrent DEF ExHandled, ExWorkerKilled, ExGone
    <3> QED
      BY <1>2, <3>1, ExSupervised
  <2>2. CASE UNCHANGED <<exProc, exAt>>
    <3>1. ExHandled(exProc[exNow], exAt[exNow], "killed", {}, "idle")
      BY <1>1, <1>6, <2>2, ExOfCurrent DEF ExHandled, ExWorkerKilled
    <3> QED
      BY <1>2, <3>1, ExSupervised
  <2> QED
    BY <1>6, <2>1, <2>2 DEF ExWorkerKilled
<1> QED
  BY <1>3, <1>4, <1>5, <1>6

\* What was listed is terminated, then the group with what was started since.
LEMMA ExOfKill ==
    ASSUME ExInv, ExKillListed \/ ExKillGroup
    PROVE  ExInv'
<1>1. exSuper \in {"kill", "group"} /\ exSuper # "idle" /\ exMode = "process"
  BY DEF ExKillListed, ExKillGroup, ExInv, ExOrder
<1>2. PICK a : a = exNow
  OBVIOUS
<1>3. a \in 1..ExAttempts
  BY <1>1, <1>2, ExOfCurrent
<1>4. PICK runs : /\ runs = exSnap[exNow] \/ runs = ExDescendants(exNow)
                  /\ ExKillGroup => runs = ExDescendants(exNow)
                  /\ ExTerminate(runs)
  BY DEF ExKillListed, ExKillGroup, ExGroup
<1>5. runs \subseteq {r \in ExRuns : r[1] = exNow} /\ UNCHANGED exConfig
  BY <1>1, <1>4, ExOfCurrent DEF ExKillListed, ExKillGroup
<1>6. /\ ExRunsKept(exNow)
      /\ runs = ExDescendants(exNow) => ExDescendants(a)' = {}
  <2>1. /\ exCode' = [r \in ExRuns |-> exCode'[r]] /\ exCli' = [r \in ExRuns |-> exCli'[r]]
        /\ \A r \in ExRuns : r[1] # a => exCode'[r] = exCode[r] /\ exCli'[r] = exCli[r]
        /\ \A r \in ExRuns : exCode'[r] \in {exCode[r], "failed"}
        /\ runs = ExDescendants(a) => ExDescendants(a)' = {}
    BY <1>2, <1>3, <1>4, <1>5, ExTerminated
  <2> QED
    BY <1>2, <2>1 DEF ExRunsKept
<1>7. exNow' = exNow
  BY DEF ExKillListed, ExKillGroup
<1>8. runs = ExDescendants(exNow) => ExDescendants(exNow)' = {}
  <2>1. ExDescendants(exNow)' = ExDescendants(a)'
    BY <1>2, <1>7 DEF ExDescendants, ExAliveOf, ExCliOf
  <2> QED
    BY <1>6, <2>1
<1>9. CASE ExKillListed
  <2>1. ExHandled(exProc[exNow], exAt[exNow], "none", {}, "group")
    BY <1>1, <1>9, ExOfCurrent DEF ExHandled, ExKillListed
  <2> QED
    BY <1>6, <2>1, ExSupervised
<1>10. CASE ExKillGroup
  <2>1. ExHandled("dead", ExFirst, "stopped", exSnap[exNow], "idle")
    BY <1>1, <1>4, <1>8, <1>10, ExOfCurrent DEF ExHandled, ExKillGroup, ExGone
  <2> QED
    BY <1>6, <2>1, ExSupervised
<1> QED
  BY <1>9, <1>10

\* The next attempt starts.
LEMMA ExOfExecute ==
    ASSUME ExInv, ExExecute
    PROVE  ExInv'
<1>1. PICK a : a = exNow + 1
  OBVIOUS
<1>2. /\ a \in 1..ExAttempts /\ a > exNow /\ a \in Nat /\ exNow \in Nat /\ exNow \in 0..ExAttempts
  BY <1>1, ExRunsOf DEF ExExecute
<1>3. /\ exNow' = a /\ exProc' = [exProc EXCEPT ![a] = "run"] /\ exSuper' = "watch"
      /\ exStray' = (exStray \/ \E b \in 1..exNow : ExAlive(b))
      /\ UNCHANGED <<exMode, exBackend, exTries, exEnd, exAt, exSnap, exCode, exCli, exFiles, exLoaded, exEarly>>
  BY <1>1 DEF ExExecute, exConfig
<1>4. /\ exProc[a] = "none" /\ exEnd[a] = "none" /\ exAt[a] = ExFirst
      /\ \A r \in ExRuns : r[1] = a => exCode[r] = "none"
  BY <1>2 DEF ExInv, ExOrder
<1>5. exProc' = [b \in 1..ExAttempts |-> exProc'[b]]
      /\ \A b \in 1..ExAttempts : b # a => exProc'[b] = exProc[b]
  BY <1>3 DEF ExInv, ExTyped
<1>6. ExTyped'
  BY <1>2, <1>3, <1>5 DEF ExInv, ExTyped
<1>7. ExOrder'
  <2>1. \A b \in 1..ExAttempts : b > a => b > exNow /\ b # a
    BY <1>2
  <2>2. \A b \in 1..ExAttempts : b > a =>
           /\ exProc'[b] = "none" /\ exEnd'[b] = "none" /\ exAt'[b] = ExFirst /\ exLoaded'[b] = ExNobody
           /\ \A r \in ExRuns : r[1] = b => exCode'[r] = "none" /\ exCli'[r] = "none"
    BY <1>3, <1>5, <2>1 DEF ExInv, ExOrder
  <2>3. exNow' >= 1 /\ exEnd'[exNow'] = "none"
    BY <1>2, <1>3, <1>4
  <2> QED
    BY <1>3, <2>2, <2>3 DEF ExOrder
<1>8. ASSUME ~exStray' PROVE ExAlone'
  <2>1. \A b \in 1..exNow : ~ExAlive(b)
    BY <1>3, <1>8
  <2>2. ASSUME NEW b \in 1..ExAttempts, b < a PROVE ExQuiet(b)'
    <3>1. b \in 1..exNow /\ b # a
      BY <1>1, <1>2, <2>2
    <3>2. ~ExAlive(b)
      BY <2>1, <3>1
    <3>3. exProc'[b] = exProc[b] /\ ExAliveOf(b)' = ExAliveOf(b)
      BY <1>3, <1>5, <3>1 DEF ExAliveOf
    <3> QED
      BY <3>2, <3>3 DEF ExQuiet, ExAlive
  <2>3. \A r \in ExRuns : r[1] = a => exCode'[r] = "none"
    BY <1>3, <1>4
  <2>4. exAt'[a].pc # "load"
    BY <1>3, <1>4 DEF ExFirst
  <2> QED
    BY <1>3, <2>2, <2>3, <2>4 DEF ExAlone
<1>9. ExAlone'
  BY <1>8 DEF ExAlone
<1>10. ExAttemptsApart'
  <2>1. \A b \in 1..ExAttempts : ExDescendants(b)' = ExDescendants(b)
    BY <1>3 DEF ExDescendants, ExAliveOf, ExCliOf
  <2>2. ExNothingRunsOn'
    BY <1>3, <1>4, <1>5, <2>1 DEF ExInv, ExAttemptsApart, ExNothingRunsOn
  <2>3. ExOwnOutput'
    BY <1>3 DEF ExInv, ExAttemptsApart, ExOwnOutput
  <2> QED
    BY <2>2, <2>3 DEF ExAttemptsApart
<1> QED
  BY <1>6, <1>7, <1>9, <1>10 DEF ExInv

\* The generated code of a run goes on, in the directory of its try.
LEMMA ExOfScript ==
    ASSUME ExInv, NEW q \in ExRuns, ExScript(q) \/ ExScriptLeaves(q) \/ ExScriptFails(q)
    PROVE  ExInv'
<1>1. PICK x : /\ exCode' = [exCode EXCEPT ![q] = x]
               /\ \/ x = "artifact" /\ exFiles' = [exFiles EXCEPT ![q[2]].artifact = q] /\ exEarly' = exEarly
                  \/ x \in {"manifest", "ok"} /\ exCode[q] \in {"artifact", "manifest"} /\ exEarly' = exEarly
                     /\ (exFiles' = [exFiles EXCEPT ![q[2]].manifest = q] \/ exFiles' = exFiles)
                  \/ x = "ok" /\ exFiles' = exFiles /\ exEarly' = exEarly \cup {q}
                  \/ x = "failed" /\ exFiles' = exFiles /\ exEarly' = exEarly
               /\ exCode[q] \in ExRunning
  BY DEF ExScript, ExScriptLeaves, ExScriptFails, ExRunning
<1>2. UNCHANGED <<exMode, exBackend, exTries, exNow, exSuper, exEnd, exProc, exAt, exSnap, exCli, exLoaded, exStray>>
  BY DEF ExScript, ExScriptLeaves, ExScriptFails, exConfig
<1>20. exEarly \subseteq exEarly'
  BY <1>1
<1>3. q[2] \in 1..ExTries /\ q[1] \in 1..ExAttempts
  BY ExRunsOf
<1>4. /\ exCode' = [r \in ExRuns |-> exCode'[r]] /\ exCode'[q] = x
      /\ \A r \in ExRuns : r # q => exCode'[r] = exCode[r]
  BY <1>1 DEF ExInv, ExTyped
<1>5. PICK f : f = exFiles[q[2]]
  OBVIOUS
<1>6. f = [artifact |-> f.artifact, manifest |-> f.manifest]
  BY <1>3, <1>5 DEF ExInv, ExTyped
<1>7. \E g : /\ exFiles' = [exFiles EXCEPT ![q[2]] = g]
             /\ g = [artifact |-> g.artifact, manifest |-> g.manifest]
             /\ g.artifact \in {q, f.artifact}
             /\ x = "artifact" => g.artifact = q
  <2>1. CASE x = "artifact" /\ exFiles' = [exFiles EXCEPT ![q[2]].artifact = q]
    <3>1. PICK g : g = [artifact |-> q, manifest |-> f.manifest]
      OBVIOUS
    <3>2. [f EXCEPT !.artifact = q] = g
      BY <1>6, <3>1
    <3>3. exFiles' = [exFiles EXCEPT ![q[2]] = g]
      BY <1>3, <1>5, <2>1, <3>2 DEF ExInv, ExTyped
    <3>4. g = [artifact |-> g.artifact, manifest |-> g.manifest] /\ g.artifact = q
      BY <3>1
    <3> QED
      BY <3>3, <3>4
  <2>2. CASE x # "artifact" /\ exFiles' = [exFiles EXCEPT ![q[2]].manifest = q]
    <3>1. PICK g : g = [artifact |-> f.artifact, manifest |-> q]
      OBVIOUS
    <3>2. [f EXCEPT !.manifest = q] = g
      BY <1>6, <3>1
    <3>3. exFiles' = [exFiles EXCEPT ![q[2]] = g]
      BY <1>3, <1>5, <2>2, <3>2 DEF ExInv, ExTyped
    <3>4. g = [artifact |-> g.artifact, manifest |-> g.manifest] /\ g.artifact = f.artifact
      BY <3>1
    <3> QED
      BY <2>2, <3>3, <3>4
  <2>3. CASE x # "artifact" /\ exFiles' = exFiles
    <3>1. exFiles' = [exFiles EXCEPT ![q[2]] = f]
      BY <1>3, <1>5, <2>3 DEF ExInv, ExTyped
    <3> QED
      BY <1>6, <2>3, <3>1
  <2> QED
    BY <1>1, <2>1, <2>2, <2>3
<1>8. PICK g : /\ exFiles' = [exFiles EXCEPT ![q[2]] = g]
               /\ g = [artifact |-> g.artifact, manifest |-> g.manifest]
               /\ g.artifact \in {q, f.artifact}
               /\ x = "artifact" => g.artifact = q
  BY <1>7
<1>9. /\ exFiles' = [t \in 1..ExTries |-> exFiles'[t]] /\ exFiles'[q[2]] = g
      /\ \A t \in 1..ExTries : t # q[2] => exFiles'[t] = exFiles[t]
  BY <1>3, <1>8 DEF ExInv, ExTyped
<1>10. ExTyped'
  <2>1. \A t \in 1..ExTries :
           exFiles'[t] = [artifact |-> exFiles'[t].artifact, manifest |-> exFiles'[t].manifest]
    BY <1>8, <1>9 DEF ExInv, ExTyped
  <2>2. \A t \in 1..ExTries : exFiles'[t].artifact # ExNobody => exFiles'[t].artifact[2] = t
    BY <1>5, <1>8, <1>9 DEF ExInv, ExTyped
  <2> QED
    BY <1>2, <1>4, <1>9, <2>1, <2>2 DEF ExInv, ExTyped
<1>11. q[1] <= exNow
  <2>1. ~(q[1] > exNow)
    BY <1>1, <1>3 DEF ExInv, ExOrder, ExRunning
  <2> QED
    BY <1>3, <2>1, ExRunsOf
<1>12. ExOrder'
  <2>1. \A b \in 1..ExAttempts : b > exNow => \A r \in ExRuns : r[1] = b => exCode'[r] = exCode[r]
    <3>1. \A b \in 1..ExAttempts : b > exNow => b # q[1]
      BY <1>3, <1>11, ExRunsOf
    <3> QED
      BY <1>4, <3>1
  <2> QED
    BY <1>2, <2>1 DEF ExInv, ExOrder
<1>13. \A b \in 1..ExAttempts : ExAliveOf(b)' \subseteq ExAliveOf(b) /\ ExCliOf(b)' = ExCliOf(b)
  BY <1>1, <1>2, <1>4 DEF ExAliveOf, ExCliOf
<1>14. ASSUME ~exStray PROVE ExAlone'
  <2>1. q[1] = exNow
    <3>1. ~(q[1] < exNow)
      BY <1>1, <1>3, <1>14 DEF ExInv, ExAlone, ExQuiet, ExAliveOf
    <3> QED
      BY <1>3, <1>11, <3>1, ExRunsOf
  <2>2. \A b \in 1..ExAttempts : b < exNow => ExQuiet(b)'
    BY <1>2, <1>13, <1>14 DEF ExInv, ExAlone, ExQuiet
  <2>3. ASSUME NEW r \in ExRuns, r[1] = exNow, r[2] = q[2] PROVE r = q
    BY <2>1, <2>3, ExRunsOf
  <2>4. \A t \in 1..ExTries : exFiles[t].artifact = <<exNow, t>> =>
           exFiles'[t].artifact = <<exNow, t>>
    <3>1. q = <<exNow, q[2]>>
      BY <2>1, ExRunsOf
    <3> QED
      BY <1>5, <1>8, <1>9, <3>1
  <2>5. ASSUME NEW r \in ExRuns, r[1] = exNow, exCode'[r] \in {"artifact", "manifest", "ok"},
               r \notin exEarly'
        PROVE  exFiles'[r[2]].artifact = r
    <3>1. r[2] \in 1..ExTries /\ r = <<exNow, r[2]>>
      BY <2>5, ExRunsOf
    <3>2. CASE r = q /\ x = "artifact"
      BY <1>8, <1>9, <3>2
    <3>3. CASE ~(r = q /\ x = "artifact")
      <4>1. exCode[r] \in {"artifact", "manifest", "ok"} /\ r \notin exEarly
        BY <1>1, <1>4, <1>20, <2>5, <3>3
      <4>2. exFiles[r[2]].artifact = r
        BY <1>14, <2>5, <4>1 DEF ExInv, ExAlone
      <4> QED
        BY <2>4, <3>1, <4>2
    <3> QED
      BY <3>2, <3>3
  <2>6. ASSUME NEW a \in 1..ExAttempts, a = exNow, exAt[a].pc = "load",
               <<a, exAt[a].try>> \notin exEarly'
        PROVE  exFiles'[exAt[a].try].artifact = <<a, exAt[a].try>>
    <3>1. exFiles[exAt[a].try].artifact = <<a, exAt[a].try>>
      BY <1>14, <1>20, <2>6 DEF ExInv, ExAlone
    <3>2. exAt[a].try \in 1..ExTries
      BY ExAssumption DEF ExInv, ExTyped
    <3> QED
      BY <2>4, <2>6, <3>1, <3>2
  <2> QED
    BY <1>2, <2>2, <2>5, <2>6 DEF ExAlone
<1>15. ExAlone'
  BY <1>2, <1>14 DEF ExAlone
<1>16. ExAttemptsApart'
  <2>1. \A b \in 1..ExAttempts : ExDescendants(b)' \subseteq ExDescendants(b)
    BY <1>2, <1>13 DEF ExDescendants
  <2>2. ExNothingRunsOn'
    BY <1>2, <2>1 DEF ExInv, ExAttemptsApart, ExNothingRunsOn
  <2>3. ExOwnOutput'
    BY <1>2, <1>20 DEF ExInv, ExAttemptsApart, ExOwnOutput
  <2> QED
    BY <2>2, <2>3 DEF ExAttemptsApart
<1> QED
  BY <1>10, <1>12, <1>15, <1>16 DEF ExInv

LEMMA ExInitial == ExInit => ExInv
<1> SUFFICES ASSUME ExInit PROVE ExInv
  OBVIOUS
<1>1. ExTyped
  <2>1. exTries \in Nat /\ exTries >= 1
    BY ExAssumption DEF ExInit
  <2>2. exTries \in 1..ExTries /\ exNow \in 0..ExAttempts
    BY ExAssumption DEF ExInit
  <2>3. \A a \in 1..ExAttempts : exAt[a] = [pc |-> exAt[a].pc, try |-> exAt[a].try]
                                 /\ exAt[a].try \in 1..exTries
    BY <2>1 DEF ExInit, ExFirst
  <2> QED
    BY <2>2, <2>3 DEF ExInit, ExTyped
<1>2. ExOrder
  BY DEF ExInit, ExOrder
<1>3. ExAlone
  <2>1. \A b \in 1..ExAttempts : ~(b < exNow) /\ exAt[b].pc # "load"
    BY DEF ExInit, ExFirst
  <2>2. \A r \in ExRuns : exCode[r] = "none"
    BY DEF ExInit
  <2> QED
    BY <2>1, <2>2 DEF ExAlone
<1>4. ExAttemptsApart
  BY DEF ExInit, ExAttemptsApart, ExNothingRunsOn, ExOwnOutput
<1> QED
  BY <1>1, <1>2, <1>3, <1>4 DEF ExInv

LEMMA ExKept == ExInv /\ [ExNext]_exVars => ExInv'
<1> SUFFICES ASSUME ExInv, [ExNext]_exVars PROVE ExInv'
  OBVIOUS
<1>1. CASE UNCHANGED exVars
  <2>1. UNCHANGED <<exMode, exBackend, exTries, exNow, exSuper, exEnd, exProc, exAt, exSnap, exCode,
                    exCli, exFiles, exLoaded, exStray, exEarly>>
    BY <1>1 DEF exVars
  <2>2. ExTyped'
    BY <2>1 DEF ExInv, ExTyped
  <2>3. ExOrder'
    BY <2>1 DEF ExInv, ExOrder
  <2>4. \A a \in 1..ExAttempts : ExQuiet(a)' = ExQuiet(a) /\ ExDescendants(a)' = ExDescendants(a)
    BY <2>1 DEF ExQuiet, ExDescendants, ExAliveOf, ExCliOf
  <2>5. ExAlone'
    BY <2>1, <2>4 DEF ExInv, ExAlone
  <2>6. ExNothingRunsOn' /\ ExOwnOutput'
    BY <2>1, <2>4 DEF ExInv, ExAttemptsApart, ExNothingRunsOn, ExOwnOutput
  <2> QED
    BY <2>2, <2>3, <2>5, <2>6 DEF ExInv, ExAttemptsApart
<1>2. CASE \E a \in 1..ExAttempts : ExSpawn(a) \/ ExLateSpawn(a)
  BY <1>2, ExSpawned DEF ExSpawn, ExLateSpawn, ExWorks
<1> QED
  BY <1>1, <1>2, ExOfExecute, ExOfSupervisor, ExOfKill, ExOfScript, ExOfAsk, ExOfWait, ExOfTimeout,
     ExOfKillTree, ExOfLoad, ExOfEnd, ExOfLeave DEF ExNext

\* For any number of attempts and tries, in both sandboxes: an attempt that was stopped has
\* left nothing running, and no attempt takes another's output for its own unless something
\* of an earlier one was alive when it started or the code of the try itself ended with
\* status 0 before it wrote one (job_executors.py _stop, sandbox/runner.py _load_output,
\* run_in_sandbox, run_in_docker).
THEOREM ExAlwaysApart == ExSpec => []ExAttemptsApart
<1>1. ExSpec => []ExInv
  BY ExInitial, ExKept, PTL DEF ExSpec
<1>2. ExInv => ExAttemptsApart
  BY DEF ExInv
<1> QED
  BY <1>1, <1>2, PTL

-----------------------------------------------------------------------------
(***************************************************************************)
(* Serving: SvDeploysHold.  What the system of each adapter reports as     *)
(* settled is what it serves, and nothing in it is under way that would    *)
(* change that; a deploy, restore or split writes the object as it was     *)
(* read, or is refused.                                                    *)
(***************************************************************************)

SvSystems == {"kube", "k8s", "vertex", "sagemaker", "gitops", "webhook", "triton", "alias"}

SvObjTyped ==
    /\ svObj = [ver |-> svObj.ver, cand |-> svObj.cand, share |-> svObj.share, gen |-> svObj.gen,
                extra |-> svObj.extra, live |-> svObj.live, deleting |-> svObj.deleting]
    /\ svSeen = [gen |-> svSeen.gen, ready |-> svSeen.ready, failed |-> svSeen.failed]
    /\ svRun = [main |-> svRun.main, cand |-> svRun.cand, share |-> svRun.share]
    /\ svObj.gen \in Nat /\ svSeen.gen \in Nat /\ svSeen.gen <= svObj.gen
    /\ svBackend \in SvSystems /\ svOps \subseteq SvVersions
    /\ svObj.live \in BOOLEAN /\ svObj.deleting \in BOOLEAN

\* What a status that is up to date says is so.
SvWorld ==
    /\ svObj.deleting => svBackend = "kube" /\ svObj.live
    /\ SvKube /\ ~svObj.live => svRun = SvWhole(SvNone)
    /\ SvKube /\ svObj.live /\ svSeen.gen = svObj.gen /\ svSeen.ready => svRun = SvWanted
    /\ svBackend = "k8s" => svObj.live
    /\ svBackend = "sagemaker" /\ svSeen.ready => svOps = {}
    /\ svBackend = "alias" => svRun.main = svObj.ver

SvJobTyped ==
    /\ svJob = [at |-> svJob.at, target |-> svJob.target, prev |-> svJob.prev,
                share |-> svJob.share, extra |-> svJob.extra]
    /\ svOut = [kind |-> svOut.kind, run |-> svOut.run]
    /\ svLive \in SvVersions \cup {SvNone}
    /\ svJob.at # "idle" => svJob.prev = svLive
    /\ svJob.at \in {"deploy", "put", "wait"} => svJob.target \in SvVersions
    /\ svJob.at \in {"split", "share", "split_read"} => svLive # SvNone /\ SvSplitting
    /\ svBackend = "kube" /\ svLive # SvNone => svObj.live /\ ~svObj.deleting

\* Others' changes are in the object, and in what was read of it while it is still that.
SvExtras ==
    /\ svObj.extra = svForeign
    /\ svFresh => svJob.at \in {"put", "back", "share", "restore"} /\ svJob.extra = svObj.extra

\* What was asked for, adapter by adapter.
SvAskedFor ==
    /\ SvKube /\ svJob.at = "wait" =>
          svObj.ver = svJob.target /\ svObj.cand = SvNone /\ svObj.share = 0
    /\ SvKube /\ svJob.at = "waitback" =>
          IF svBackend = "kube" /\ svJob.prev = SvNone THEN ~svObj.live \/ svObj.deleting
          ELSE svObj.ver = svJob.prev /\ svObj.cand = SvNone /\ svObj.share = 0
    /\ svBackend = "vertex" /\ svJob.at \in {"idle", "deploy", "put"} => svPending = SvNone
    /\ svBackend = "vertex" /\ svJob.at \in {"deploy", "put"} /\ ~svLoose => svOps = {}
    /\ svBackend = "vertex" /\ svJob.at \in {"wait", "waitback"} /\ ~svLoose => svOps \subseteq {svPending}
    /\ svBackend = "gitops" /\ svJob.at \in {"deploy", "put"} /\ ~svLoose => svHead = svObj.ver
    /\ svBackend = "gitops" /\ svJob.at = "wait" /\ ~svLoose => svObj.ver = svJob.target
    /\ svBackend = "gitops" /\ svJob.at = "waitback" /\ ~svLoose => svObj.ver = svJob.prev

\* Nothing is under way that would change what serves.
SvStays ==
    /\ SvKube => ~svObj.deleting /\ (svObj.live => svRun = SvWanted)
    /\ svBackend \in {"vertex", "sagemaker"} => svOps = {}
    /\ svBackend = "gitops" => svObj.ver = svRun.main
    /\ svBackend = "webhook" => svSeen.ready

SvServes ==
    svJob.at = "idle" /\ ~svLoose =>
        /\ svOut.kind \in {"ok", "restored"} => svRun.main = svOut.run.main /\ SvStays
        /\ svOut.kind = "split" => svRun = svOut.run /\ SvStays /\ svBackend # "gitops"

SvInv == SvObjTyped /\ SvWorld /\ SvJobTyped /\ SvExtras /\ SvAskedFor /\ SvServes

\* The deployer goes to another place.
LEMMA SvMoves ==
    ASSUME SvInv, NEW place, SvTo(place)
    PROVE  /\ svJob' = [at |-> svJob'.at, target |-> svJob'.target, prev |-> svJob'.prev,
                        share |-> svJob'.share, extra |-> svJob'.extra]
           /\ svJob'.at = place /\ svJob'.target = svJob.target /\ svJob'.prev = svJob.prev
           /\ svJob'.share = svJob.share /\ svJob'.extra = svJob.extra
<1>1. svJob' = [at |-> place, target |-> svJob.target, prev |-> svJob.prev,
                share |-> svJob.share, extra |-> svJob.extra]
  BY DEF SvInv, SvJobTyped, SvTo
<1> QED
  BY <1>1

LEMMA SvRests ==
    ASSUME SvInv, NEW kind, NEW run, SvEnd(kind, run)
    PROVE  /\ svJob' = [at |-> svJob'.at, target |-> svJob'.target, prev |-> svJob'.prev,
                        share |-> svJob'.share, extra |-> svJob'.extra]
           /\ svJob'.at = "idle"
           /\ svOut' = [kind |-> svOut'.kind, run |-> svOut'.run]
           /\ svOut'.kind = kind /\ svOut'.run = run
  BY DEF SvEnd, SvIdle

\* A step of the deployer that asks for nothing.
LEMMA SvUnasked ==
    ASSUME SvInv, UNCHANGED <<svBackend, SvSystem>>
    PROVE  /\ SvObjTyped' /\ SvWorld'
           /\ svObj' = svObj /\ svSeen' = svSeen /\ svRun' = svRun /\ svOps' = svOps
           /\ svHead' = svHead /\ svBackend' = svBackend
<1>1. /\ svObj' = svObj /\ svSeen' = svSeen /\ svRun' = svRun /\ svOps' = svOps
      /\ svHead' = svHead /\ svBackend' = svBackend
  BY DEF SvSystem
<1>2. SvObjTyped'
  BY <1>1 DEF SvInv, SvObjTyped
<1>3. SvWorld'
  BY <1>1 DEF SvInv, SvWorld, SvKube, SvWanted
<1> QED
  BY <1>1, <1>2, <1>3

LEMMA SvOfRollout ==
    ASSUME SvInv, NEW v \in SvVersions, SvRollout(v)
    PROVE  SvInv'
<1>1. /\ SvObjTyped' /\ SvWorld'
      /\ svObj' = svObj /\ svSeen' = svSeen /\ svRun' = svRun /\ svOps' = svOps
      /\ svHead' = svHead /\ svBackend' = svBackend
  BY SvUnasked DEF SvRollout
<1>2. svJob' = [at |-> "deploy", target |-> v, prev |-> svLive, share |-> 0, extra |-> 0]
  BY DEF SvRollout, SvIdle
<1>3. /\ svJob'.at = "deploy" /\ svJob'.target = v /\ svJob'.prev = svLive
      /\ svJob' = [at |-> svJob'.at, target |-> svJob'.target, prev |-> svJob'.prev,
                   share |-> svJob'.share, extra |-> svJob'.extra]
  BY <1>2
<1>4. /\ svLive' = svLive /\ svFresh' = svFresh /\ svForeign' = svForeign /\ svPending' = svPending
      /\ svJob.at = "idle" /\ svOut' = [svOut EXCEPT !.kind = "none"] /\ svLoose' = SvUnwatched
  BY DEF SvRollout
<1>5. SvJobTyped'
  <2>1. svOut' = [kind |-> "none", run |-> svOut.run]
    BY <1>4 DEF SvInv, SvJobTyped
  <2>2. svOut' = [kind |-> svOut'.kind, run |-> svOut'.run]
    BY <2>1
  <2> QED
    BY <1>1, <1>3, <1>4, <2>2 DEF SvInv, SvJobTyped, SvSplitting
<1>6. SvExtras'
  BY <1>1, <1>3, <1>4 DEF SvInv, SvExtras
<1>7. SvAskedFor'
  <2>1. svBackend = "vertex" => svPending = SvNone
    BY <1>4 DEF SvInv, SvAskedFor
  <2>2. svBackend = "vertex" /\ ~svLoose' => svOps = {}
    <3>1. SvNone \notin svOps
      BY SvAssumption DEF SvInv, SvObjTyped
    <3>2. svBackend = "vertex" /\ ~svLoose' => svOps \ {SvNone} = {}
      BY <1>4, <2>1 DEF SvUnwatched
    <3> QED
      BY <3>1, <3>2
  <2>3. svBackend = "gitops" /\ ~svLoose' => svHead = svObj.ver
    BY <1>4 DEF SvUnwatched
  <2> QED
    BY <1>1, <1>3, <1>4, <2>1, <2>2, <2>3 DEF SvAskedFor
<1>8. SvServes'
  BY <1>3 DEF SvServes
<1> QED
  BY <1>1, <1>5, <1>6, <1>7, <1>8 DEF SvInv

LEMMA SvOfRead ==
    ASSUME SvInv, SvRead
    PROVE  SvInv'
<1>1. /\ SvObjTyped' /\ SvWorld'
      /\ svObj' = svObj /\ svSeen' = svSeen /\ svRun' = svRun /\ svOps' = svOps
      /\ svHead' = svHead /\ svBackend' = svBackend
  BY SvUnasked DEF SvRead
<1>2. PICK place : /\ place = CASE svJob.at = "deploy" -> "put" [] svJob.at = "restore" -> "back"
                                [] svJob.at = "split" -> "share"
                   /\ svJob' = [svJob EXCEPT !.extra = svObj.extra, !.at = place]
  BY DEF SvRead
<1>3. svJob' = [at |-> place, target |-> svJob.target, prev |-> svJob.prev,
                share |-> svJob.share, extra |-> svObj.extra]
  BY <1>2 DEF SvInv, SvJobTyped
<1>4. /\ svJob'.at = place /\ svJob'.target = svJob.target /\ svJob'.prev = svJob.prev
      /\ svJob'.extra = svObj.extra
      /\ svJob' = [at |-> svJob'.at, target |-> svJob'.target, prev |-> svJob'.prev,
                   share |-> svJob'.share, extra |-> svJob'.extra]
  BY <1>3
<1>5. /\ svLive' = svLive /\ svForeign' = svForeign /\ svPending' = svPending /\ svOut' = svOut
      /\ svLoose' = svLoose
  BY DEF SvRead
<1>6. \/ svJob.at = "deploy" /\ place = "put"
      \/ svJob.at = "restore" /\ place = "back"
      \/ svJob.at = "split" /\ place = "share"
  BY <1>2 DEF SvRead
<1>7. SvJobTyped'
  BY <1>1, <1>4, <1>5, <1>6 DEF SvInv, SvJobTyped, SvSplitting
<1>8. SvExtras'
  BY <1>1, <1>4, <1>5, <1>6 DEF SvInv, SvExtras
<1>9. SvAskedFor'
  BY <1>1, <1>4, <1>5, <1>6 DEF SvInv, SvAskedFor
<1>10. SvServes'
  BY <1>4, <1>6 DEF SvServes
<1> QED
  BY <1>1, <1>7, <1>8, <1>9, <1>10 DEF SvInv

\* A deploy that is refused, fails or times out goes on to the restore.
SvGivesUp ==
    /\ svJob.at \in {"put", "wait"} /\ SvTo("restore")
    /\ UNCHANGED <<svBackend, svForeign, svLive, svOut, svLoose>>
    /\ SvObjTyped' /\ SvWorld'
    /\ svObj'.extra = svObj.extra
    /\ svBackend = "kube" /\ svLive # SvNone => svObj'.live /\ svObj'.deleting = svObj.deleting
    /\ svFresh' = FALSE \/ (svFresh' = svFresh /\ svObj' = svObj)

LEMMA SvGiven == ASSUME SvInv, SvGivesUp PROVE SvInv'
<1>1. /\ svJob'.at = "restore" /\ svJob'.prev = svJob.prev /\ svJob'.extra = svJob.extra
      /\ svJob' = [at |-> svJob'.at, target |-> svJob'.target, prev |-> svJob'.prev,
                   share |-> svJob'.share, extra |-> svJob'.extra]
  BY SvMoves DEF SvGivesUp
<1>2. SvJobTyped'
  BY <1>1 DEF SvGivesUp, SvInv, SvJobTyped
<1>3. SvExtras'
  BY <1>1 DEF SvGivesUp, SvInv, SvExtras
<1>4. SvAskedFor' /\ SvServes'
  BY <1>1 DEF SvAskedFor, SvServes
<1> QED
  BY <1>2, <1>3, <1>4 DEF SvInv, SvGivesUp

LEMMA SvOfRefusal ==
    ASSUME SvInv, SvDeployRefused \/ SvTimeout
    PROVE  SvInv'
<1>1. SvGivesUp
  <2>1. /\ SvObjTyped' /\ SvWorld' /\ svObj' = svObj
    BY SvUnasked DEF SvDeployRefused, SvTimeout
  <2>2. svBackend = "kube" /\ svLive # SvNone => svObj'.live
    BY <2>1 DEF SvInv, SvJobTyped
  <2> QED
    BY <2>1, <2>2 DEF SvGivesUp, SvDeployRefused, SvTimeout
<1> QED
  BY <1>1, SvGiven

\* What a settled status is evidence of.
SvSettledAt(v) ==
    /\ svRun.main = v
    /\ ~svLoose => SvStays

\* A rollout, or a restore, ends where the status is settled.
LEMMA SvEnded ==
    ASSUME SvInv, NEW v \in SvVersions \cup {SvNone}, NEW kind \in {"ok", "restored"},
           SvSettledAt(v), SvEnd(kind, SvWhole(v)), svLive' = v, SvPendingRead,
           UNCHANGED <<svBackend, SvSystem, svFresh, svForeign, svLoose>>,
           svJob.at \in {"wait", "waitback"},
           svBackend = "kube" /\ v # SvNone => svObj.live /\ ~svObj.deleting,
           svBackend = "vertex" => svPending \notin svOps
    PROVE  SvInv'
<1>1. /\ SvObjTyped' /\ SvWorld'
      /\ svObj' = svObj /\ svSeen' = svSeen /\ svRun' = svRun /\ svOps' = svOps
      /\ svHead' = svHead /\ svBackend' = svBackend
  BY SvUnasked
<1>2. /\ svJob' = [at |-> svJob'.at, target |-> svJob'.target, prev |-> svJob'.prev,
                   share |-> svJob'.share, extra |-> svJob'.extra]
      /\ svJob'.at = "idle"
      /\ svOut' = [kind |-> svOut'.kind, run |-> svOut'.run]
      /\ svOut'.kind = kind /\ svOut'.run = SvWhole(v)
  BY SvRests
<1>3. svOut'.run.main = v
  BY <1>2 DEF SvWhole
<1>4. SvJobTyped'
  BY <1>1, <1>2 DEF SvJobTyped
<1>5. SvExtras'
  BY <1>1, <1>2 DEF SvInv, SvExtras
<1>6. SvAskedFor'
  BY <1>1, <1>2 DEF SvAskedFor, SvPendingRead
<1>7. SvStays' = SvStays
  BY <1>1 DEF SvStays, SvKube, SvWanted
<1>8. SvServes'
  BY <1>1, <1>2, <1>3, <1>7 DEF SvServes, SvSettledAt
<1> QED
  BY <1>1, <1>4, <1>5, <1>6, <1>8 DEF SvInv

\* The status of each adapter is evidence of what serves.
LEMMA SvStatusHolds ==
    ASSUME SvInv, NEW v \in SvVersions \cup {SvNone}, SvStatus.ready, SvStatus.ver = v,
           \/ svJob.at = "wait" /\ svJob.target = v /\ v # SvNone
           \/ svJob.at = "waitback" /\ svJob.prev = v
    PROVE  /\ SvSettledAt(v)
           /\ svBackend = "kube" /\ v # SvNone => svObj.live /\ ~svObj.deleting
           /\ svBackend = "vertex" => svPending \notin svOps
<1>1. svBackend \in SvSystems
  BY DEF SvInv, SvObjTyped
<1>2. CASE svBackend = "kube"
  <2>1. SvResourceStatus.ready /\ SvResourceStatus.ver = v
    BY <1>2 DEF SvStatus, SvReporting
  <2>2. CASE ~svObj.live
    <3>1. v = SvNone
      BY <2>1, <2>2 DEF SvResourceStatus, SvState
    <3>2. svRun.main = SvNone /\ ~svObj.deleting
      BY <1>2, <2>2 DEF SvInv, SvWorld, SvKube, SvWhole
    <3> QED
      BY <1>2, <2>2, <3>1, <3>2 DEF SvSettledAt, SvStays
  <2>3. CASE svObj.live
    <3>1. ~svObj.deleting
      BY <2>1, <2>3 DEF SvResourceStatus, SvState
    <3>2. SvObserved /\ svSeen.ready
      BY <2>1, <2>3, <3>1 DEF SvResourceStatus, SvState
    <3>3. svSeen.gen = svObj.gen
      BY <3>2 DEF SvObserved, SvInv, SvObjTyped
    <3>4. svRun = SvWanted /\ svObj.ver = v
      BY <1>2, <2>3, <3>1, <3>2, <3>3 DEF SvInv, SvWorld, SvAskedFor, SvKube
    <3>5. svRun.main = v
      BY <3>4 DEF SvWanted
    <3> QED
      BY <1>2, <2>3, <3>1, <3>4, <3>5 DEF SvSettledAt, SvStays
  <2> QED
    BY <2>2, <2>3
<1>3. CASE svBackend = "k8s"
  <2>1. SvObserved /\ svSeen.ready /\ svObj.ver = v
    BY <1>3 DEF SvStatus, SvK8sStatus, SvState, SvReporting
  <2>2. svSeen.gen = svObj.gen
    BY <2>1 DEF SvObserved, SvInv, SvObjTyped
  <2>3. svRun = SvWanted /\ ~svObj.deleting
    BY <1>3, <2>1, <2>2 DEF SvInv, SvWorld, SvKube
  <2>4. svRun.main = v
    BY <2>1, <2>3 DEF SvWanted
  <2> QED
    BY <1>3, <2>3, <2>4 DEF SvSettledAt, SvStays
<1>4. CASE svBackend = "vertex"
  <2>1. SvVertexStatus.ready /\ SvVertexStatus.ver = v
    BY <1>4 DEF SvStatus, SvKube, SvReporting
  <2>2. svPending \notin svOps
    BY <2>1 DEF SvVertexStatus, SvState
  <2>3. svPending \notin svFailed
    BY <2>1, <2>2 DEF SvVertexStatus, SvState
  <2>4. svRun.main = v
    BY <2>1, <2>2, <2>3 DEF SvVertexStatus, SvState
  <2>5. ~svLoose => svOps \subseteq {svPending}
    BY <1>4 DEF SvInv, SvAskedFor
  <2>6. ~svLoose => svOps = {}
    BY <2>2, <2>5
  <2> QED
    BY <1>4, <2>2, <2>4, <2>6 DEF SvSettledAt, SvStays, SvKube
<1>5. CASE svBackend = "sagemaker"
  <2>1. svSeen.ready /\ svRun.main = v
    BY <1>5 DEF SvStatus, SvSagemakerStatus, SvState, SvReporting
  <2> QED
    BY <1>5, <2>1 DEF SvSettledAt, SvStays, SvKube, SvInv, SvWorld
<1>6. CASE svBackend \in {"gitops", "webhook"}
  <2>1. SvReporting
    BY <1>6 DEF SvReporting
  <2>2. svSeen.ready /\ svRun.main = v
    BY <1>6, <2>1 DEF SvStatus, SvReportedStatus, SvState
  <2>3. svBackend = "gitops" /\ ~svLoose => svObj.ver = v
    BY DEF SvInv, SvAskedFor
  <2> QED
    BY <1>6, <2>2, <2>3 DEF SvSettledAt, SvStays, SvKube
<1>7. CASE svBackend = "triton"
  <2>1. svRun.main = v
    BY <1>7 DEF SvStatus, SvTritonStatus, SvState, SvReporting
  <2> QED
    BY <1>7, <2>1 DEF SvSettledAt, SvStays, SvKube
<1>8. CASE svBackend = "alias"
  <2>1. svObj.ver = v
    BY <1>8 DEF SvStatus, SvAliasStatus, SvState, SvReporting
  <2> QED
    BY <1>8, <2>1 DEF SvSettledAt, SvStays, SvKube, SvInv, SvWorld
<1> QED
  BY <1>1, <1>2, <1>3, <1>4, <1>5, <1>6, <1>7, <1>8 DEF SvSystems

LEMMA SvOfPoll ==
    ASSUME SvInv, SvPoll
    PROVE  SvInv'
<1>1. CASE SvTo("restore") /\ UNCHANGED <<svOut, svLive>>
  <2>1. /\ SvObjTyped' /\ SvWorld' /\ svObj' = svObj
    BY SvUnasked DEF SvPoll
  <2>2. svBackend = "kube" /\ svLive # SvNone => svObj'.live
    BY <2>1 DEF SvInv, SvJobTyped
  <2>3. SvGivesUp
    BY <1>1, <2>1, <2>2 DEF SvGivesUp, SvPoll
  <2> QED
    BY <2>3, SvGiven
<1>2. CASE /\ SvStatus.ready /\ SvStatus.ver = svJob.target
           /\ SvEnd("ok", SvWhole(svJob.target)) /\ svLive' = svJob.target
  <2>1. PICK v : v = svJob.target
    OBVIOUS
  <2>2. svJob.at = "wait" /\ v \in SvVersions /\ v # SvNone
    BY <2>1, SvAssumption DEF SvPoll, SvInv, SvJobTyped
  <2>3. SvStatus.ready /\ SvStatus.ver = v /\ SvEnd("ok", SvWhole(v)) /\ svLive' = v
    BY <1>2, <2>1
  <2>4. /\ SvSettledAt(v)
        /\ svBackend = "kube" /\ v # SvNone => svObj.live /\ ~svObj.deleting
        /\ svBackend = "vertex" => svPending \notin svOps
    BY <2>1, <2>2, <2>3, SvStatusHolds
  <2>5. SvPendingRead /\ UNCHANGED <<svBackend, SvSystem, svFresh, svForeign, svLoose>>
    BY DEF SvPoll
  <2> QED
    BY <2>2, <2>3, <2>4, <2>5, SvEnded
<1> QED
  BY <1>1, <1>2 DEF SvPoll

LEMMA SvOfPollBack ==
    ASSUME SvInv, SvPollBack
    PROVE  SvInv'
<1>1. PICK v : v = svJob.prev
  OBVIOUS
<1>2. /\ svJob.at = "waitback" /\ v \in SvVersions \cup {SvNone} /\ v = svLive
      /\ SvStatus.ready /\ SvStatus.ver = v /\ SvEnd("restored", SvWhole(v)) /\ svLive' = v
  BY <1>1 DEF SvPollBack, SvInv, SvJobTyped
<1>3. /\ SvSettledAt(v)
      /\ svBackend = "kube" /\ v # SvNone => svObj.live /\ ~svObj.deleting
      /\ svBackend = "vertex" => svPending \notin svOps
  BY <1>1, <1>2, SvStatusHolds
<1>4. SvPendingRead /\ UNCHANGED <<svBackend, SvSystem, svFresh, svForeign, svLoose>>
  BY DEF SvPollBack
<1> QED
  BY <1>2, <1>3, <1>4, SvEnded

\* A restore that fails: nothing is claimed.
LEMMA SvOfRestoreFails ==
    ASSUME SvInv, SvRestoreFails
    PROVE  SvInv'
<1>1. /\ SvObjTyped' /\ SvWorld'
      /\ svObj' = svObj /\ svSeen' = svSeen /\ svRun' = svRun /\ svOps' = svOps
      /\ svHead' = svHead /\ svBackend' = svBackend
  BY SvUnasked DEF SvRestoreFails
<1>2. /\ svJob' = [at |-> svJob'.at, target |-> svJob'.target, prev |-> svJob'.prev,
                   share |-> svJob'.share, extra |-> svJob'.extra]
      /\ svJob'.at = "idle"
      /\ svOut' = [kind |-> svOut'.kind, run |-> svOut'.run] /\ svOut'.kind = "lost"
  BY SvRests DEF SvRestoreFails
<1>3. svPending' = SvNone /\ svLive' = svLive /\ svForeign' = svForeign /\ svFresh' = FALSE
  BY DEF SvRestoreFails
<1>4. SvJobTyped'
  BY <1>1, <1>2, <1>3 DEF SvInv, SvJobTyped
<1>5. SvExtras'
  BY <1>1, <1>3 DEF SvInv, SvExtras
<1>6. SvAskedFor' /\ SvServes'
  BY <1>2, <1>3 DEF SvAskedFor, SvServes
<1> QED
  BY <1>1, <1>4, <1>5, <1>6 DEF SvInv

\* Splits.
LEMMA SvOfSplit ==
    ASSUME SvInv, NEW v, NEW share, SvSplit(v, share)
    PROVE  SvInv'
<1>1. /\ SvObjTyped' /\ SvWorld'
      /\ svObj' = svObj /\ svSeen' = svSeen /\ svRun' = svRun /\ svOps' = svOps
      /\ svHead' = svHead /\ svBackend' = svBackend
  BY SvUnasked DEF SvSplit
<1>2. svJob' = [at |-> "split", target |-> v, prev |-> svLive, share |-> share, extra |-> 0]
  BY DEF SvSplit, SvIdle
<1>3. /\ svJob'.at = "split" /\ svJob'.prev = svLive
      /\ svJob' = [at |-> svJob'.at, target |-> svJob'.target, prev |-> svJob'.prev,
                   share |-> svJob'.share, extra |-> svJob'.extra]
  BY <1>2
<1>4. /\ svLive' = svLive /\ svFresh' = svFresh /\ svForeign' = svForeign /\ svLive # SvNone
      /\ svJob.at = "idle" /\ svOut' = [svOut EXCEPT !.kind = "none"] /\ SvSplitting
  BY DEF SvSplit
<1>5. SvJobTyped'
  <2>1. svOut' = [kind |-> "none", run |-> svOut.run]
    BY <1>4 DEF SvInv, SvJobTyped
  <2>2. svOut' = [kind |-> svOut'.kind, run |-> svOut'.run]
    BY <2>1
  <2> QED
    BY <1>1, <1>3, <1>4, <2>2 DEF SvInv, SvJobTyped, SvSplitting
<1>6. SvExtras'
  BY <1>1, <1>3, <1>4 DEF SvInv, SvExtras
<1>7. SvAskedFor' /\ SvServes'
  BY <1>3 DEF SvAskedFor, SvServes
<1> QED
  BY <1>1, <1>5, <1>6, <1>7 DEF SvInv

LEMMA SvOfSplitRead ==
    ASSUME SvInv, SvSplitRead
    PROVE  SvInv'
<1>1. /\ SvObjTyped' /\ SvWorld'
      /\ svObj' = svObj /\ svSeen' = svSeen /\ svRun' = svRun /\ svOps' = svOps
      /\ svHead' = svHead /\ svBackend' = svBackend
  BY SvUnasked DEF SvSplitRead
<1>2. /\ svJob' = [at |-> svJob'.at, target |-> svJob'.target, prev |-> svJob'.prev,
                   share |-> svJob'.share, extra |-> svJob'.extra]
      /\ svJob'.at = "idle"
      /\ svOut' = [kind |-> svOut'.kind, run |-> svOut'.run]
      /\ svOut'.kind = "split" /\ svOut'.run = SvAsked
  BY SvRests DEF SvSplitRead
<1>3. /\ svLive' = svLive /\ svForeign' = svForeign /\ svFresh' = svFresh /\ svPending' = svPending
      /\ svJob.at = "split_read" /\ SvStatus.ready /\ SvTraffic = SvAsked
  BY DEF SvSplitRead
<1>4. svLive # SvNone /\ svBackend \in {"kube", "webhook", "alias"}
  BY <1>3 DEF SvInv, SvJobTyped, SvSplitting
<1>5. svRun = SvAsked /\ SvStays
  <2>1. CASE svBackend = "kube"
    <3>1. SvResourceStatus.ready /\ svObj.live /\ ~svObj.deleting
      BY <1>3, <1>4, <2>1 DEF SvStatus, SvReporting, SvInv, SvJobTyped
    <3>2. SvObserved /\ svSeen.ready
      BY <3>1 DEF SvResourceStatus, SvState
    <3>3. svSeen.gen = svObj.gen
      BY <3>2 DEF SvObserved, SvInv, SvObjTyped
    <3>4. svRun = SvWanted
      BY <2>1, <3>1, <3>2, <3>3 DEF SvInv, SvWorld, SvKube
    <3>5. SvWanted = SvAsked
      BY <1>3, <2>1 DEF SvTraffic, SvWanted
    <3> QED
      BY <2>1, <3>1, <3>4, <3>5 DEF SvStays
  <2>2. CASE svBackend = "webhook"
    <3>1. svSeen.ready
      BY <1>3, <2>2 DEF SvStatus, SvReportedStatus, SvState, SvReporting
    <3> QED
      BY <1>3, <2>2, <3>1 DEF SvTraffic, SvStays, SvKube
  <2>3. CASE svBackend = "alias"
    BY <1>3, <2>3 DEF SvTraffic, SvStays, SvKube
  <2> QED
    BY <1>4, <2>1, <2>2, <2>3
<1>6. SvStays' = SvStays
  BY <1>1 DEF SvStays, SvKube, SvWanted
<1>7. SvJobTyped'
  BY <1>1, <1>2, <1>3, <1>4 DEF SvInv, SvJobTyped
<1>8. SvExtras'
  BY <1>1, <1>2, <1>3 DEF SvInv, SvExtras
<1>9. SvAskedFor'
  BY <1>1, <1>2, <1>4 DEF SvAskedFor, SvKube
<1>10. SvServes'
  BY <1>1, <1>2, <1>4, <1>5, <1>6 DEF SvServes
<1> QED
  BY <1>1, <1>7, <1>8, <1>9, <1>10 DEF SvInv

-----------------------------------------------------------------------------
(* What a request leaves of the system.                                    *)

LEMMA SvWritten ==
    ASSUME SvInv, svBackend' = svBackend, SvKube, svJob.at \in {"put", "back", "share"},
           NEW v, NEW cand, NEW share, SvWriteObject(v, cand, share)
    PROVE  /\ SvObjTyped' /\ SvWorld'
           /\ svObj'.ver = v /\ svObj'.cand = cand /\ svObj'.share = share
           /\ svObj'.live /\ svObj'.deleting = svObj.deleting /\ svObj'.extra = svObj.extra
<1>1. /\ svObj' = [svObj EXCEPT !.ver = v, !.cand = cand, !.share = share, !.live = TRUE,
                                !.gen = @ + 1, !.extra = svJob.extra]
      /\ svSeen' = svSeen /\ svRun' = svRun /\ svOps' = svOps
  BY DEF SvWriteObject
<1>2. svJob.extra = svObj.extra
  BY DEF SvWriteObject, SvWriteMatches, SvInv, SvExtras
<1>3. svObj' = [ver |-> v, cand |-> cand, share |-> share, gen |-> svObj.gen + 1,
                extra |-> svObj.extra, live |-> TRUE, deleting |-> svObj.deleting]
  BY <1>1, <1>2 DEF SvInv, SvObjTyped
<1>4. /\ svObj'.ver = v /\ svObj'.cand = cand /\ svObj'.share = share
      /\ svObj'.live = TRUE /\ svObj'.deleting = svObj.deleting /\ svObj'.extra = svObj.extra
      /\ svObj'.gen = svObj.gen + 1
      /\ svObj' = [ver |-> svObj'.ver, cand |-> svObj'.cand, share |-> svObj'.share,
                   gen |-> svObj'.gen, extra |-> svObj'.extra, live |-> svObj'.live,
                   deleting |-> svObj'.deleting]
  BY <1>3
<1>5. svObj.gen \in Nat /\ svSeen.gen \in Nat /\ svSeen.gen <= svObj.gen
  BY DEF SvInv, SvObjTyped
<1>6. svObj'.gen \in Nat /\ svSeen'.gen \in Nat /\ svSeen'.gen <= svObj'.gen
      /\ svSeen'.gen # svObj'.gen
  BY <1>1, <1>4, <1>5
<1>7. SvObjTyped'
  <2>1. svObj'.live \in BOOLEAN /\ svObj'.deleting \in BOOLEAN
    BY <1>4 DEF SvInv, SvObjTyped
  <2>2. /\ svSeen' = [gen |-> svSeen'.gen, ready |-> svSeen'.ready, failed |-> svSeen'.failed]
        /\ svRun' = [main |-> svRun'.main, cand |-> svRun'.cand, share |-> svRun'.share]
        /\ svBackend' \in SvSystems /\ svOps' \subseteq SvVersions
    BY <1>1 DEF SvInv, SvObjTyped
  <2> QED
    BY <1>4, <1>6, <2>1, <2>2 DEF SvObjTyped
<1>8. SvWorld'
  BY <1>1, <1>4, <1>6 DEF SvInv, SvWorld, SvKube
<1> QED
  BY <1>4, <1>7, <1>8

\* The other adapters keep the object's record, its generation and what else is in it.
SvKeepsObject ==
    /\ svObj' = [ver |-> svObj'.ver, cand |-> svObj'.cand, share |-> svObj'.share,
                 gen |-> svObj.gen, extra |-> svObj.extra, live |-> svObj.live,
                 deleting |-> svObj.deleting]
    /\ svSeen' = [gen |-> svSeen.gen, ready |-> svSeen'.ready, failed |-> svSeen'.failed]
    /\ svRun' = [main |-> svRun'.main, cand |-> svRun'.cand, share |-> svRun'.share]
    /\ svOps' \subseteq SvVersions

LEMMA SvKeptTyped ==
    ASSUME SvInv, SvKeepsObject, svBackend' = svBackend
    PROVE  /\ SvObjTyped'
           /\ svObj'.live = svObj.live /\ svObj'.deleting = svObj.deleting
           /\ svObj'.extra = svObj.extra
<1>1. /\ svObj'.live = svObj.live /\ svObj'.deleting = svObj.deleting
      /\ svObj'.extra = svObj.extra /\ svObj'.gen = svObj.gen /\ svSeen'.gen = svSeen.gen
  BY DEF SvKeepsObject
<1> QED
  BY <1>1 DEF SvInv, SvObjTyped, SvKeepsObject

\* What a request for v comes to.
SvAsksFor(v) ==
    /\ SvObjTyped' /\ SvWorld' /\ svObj'.extra = svObj.extra
    /\ svBackend = "kube" /\ v # SvNone => svObj'.live /\ svObj'.deleting = svObj.deleting
    /\ svBackend = "kube" /\ v = SvNone => ~svObj'.live \/ svObj'.deleting
    /\ SvKube /\ ~(svBackend = "kube" /\ v = SvNone) =>
          svObj'.ver = v /\ svObj'.cand = SvNone /\ svObj'.share = 0
    /\ svBackend = "vertex" => svOps' \in {svOps, svOps \cup {v}}
    /\ svBackend = "gitops" => svHead' = v /\ (svHead = svObj.ver => svObj'.ver = v)

LEMMA SvOfRequest ==
    ASSUME SvInv, svBackend' = svBackend, svJob.at \in {"put", "back"},
           NEW v \in SvVersions \cup {SvNone}, NEW back \in BOOLEAN, SvRequest(v, back),
           ~back => v # SvNone
    PROVE  SvAsksFor(v)
<1>1. CASE SvKube /\ ~(svBackend = "kube" /\ v = SvNone)
  <2>1. SvWriteObject(v, SvNone, 0)
    BY <1>1 DEF SvRequest, SvResourceRequest, SvK8sRequest, SvKube
  <2> QED
    BY <1>1, <2>1, SvWritten DEF SvAsksFor, SvKube
<1>2. CASE svBackend = "kube" /\ v = SvNone
  <2>1. /\ svObj' = [svObj EXCEPT !.deleting = svObj.live]
        /\ svSeen' = svSeen /\ svRun' = svRun /\ svOps' = svOps
    BY <1>2 DEF SvRequest, SvResourceRequest, SvDeleteObject
  <2>2. svObj' = [ver |-> svObj.ver, cand |-> svObj.cand, share |-> svObj.share, gen |-> svObj.gen,
                  extra |-> svObj.extra, live |-> svObj.live, deleting |-> svObj.live]
    BY <2>1 DEF SvInv, SvObjTyped
  <2>3. /\ svObj' = [ver |-> svObj'.ver, cand |-> svObj'.cand, share |-> svObj'.share,
                     gen |-> svObj'.gen, extra |-> svObj'.extra, live |-> svObj'.live,
                     deleting |-> svObj'.deleting]
        /\ svObj'.live = svObj.live /\ svObj'.deleting = svObj.live /\ svObj'.extra = svObj.extra
        /\ svObj'.gen = svObj.gen /\ svObj'.ver = svObj.ver /\ svObj'.cand = svObj.cand
        /\ svObj'.share = svObj.share
    BY <2>2
  <2>4. SvObjTyped'
    BY <2>1, <2>3 DEF SvInv, SvObjTyped
  <2>5. SvWorld'
    <3>1. SvWanted' = SvWanted
      BY <2>3 DEF SvWanted
    <3> QED
      BY <1>2, <2>1, <2>3, <3>1 DEF SvInv, SvWorld, SvKube
  <2> QED
    BY <1>2, <2>3, <2>4, <2>5 DEF SvAsksFor
<1>3. CASE svBackend = "vertex"
  <2>1. /\ svObj' = svObj /\ svSeen' = svSeen
        /\ \/ svOps' = svOps \cup {v} /\ svRun' = svRun /\ v # SvNone
           \/ svOps' = svOps /\ svRun' = SvWhole(v)
    BY <1>3 DEF SvRequest, SvVertexRestore, SvVertexDeploy, SvKube
  <2>2. SvKeepsObject
    BY <2>1 DEF SvKeepsObject, SvInv, SvObjTyped, SvWhole
  <2>3. SvWorld'
    BY <1>3, <2>1 DEF SvInv, SvWorld, SvKube
  <2> QED
    BY <1>3, <2>1, <2>2, <2>3, SvKeptTyped DEF SvAsksFor, SvKube
<1>4. CASE svBackend = "sagemaker"
  <2>1. SvSagemakerRequest(v)
    BY <1>4 DEF SvRequest, SvKube
  <2>2. svObj' = svObj
    BY <2>1 DEF SvSagemakerRequest
  <2>3. \/ /\ v = SvNone /\ svOps' = {} /\ svRun' = SvWhole(SvNone)
           /\ svSeen' = [svSeen EXCEPT !.ready = TRUE, !.failed = FALSE]
        \/ /\ v # SvNone /\ svOps' = {v} /\ svSeen' = [svSeen EXCEPT !.ready = FALSE]
           /\ svRun' = svRun
    BY <2>1 DEF SvSagemakerRequest
  <2>4. \/ svSeen' = [gen |-> svSeen.gen, ready |-> TRUE, failed |-> FALSE] /\ svOps' = {}
        \/ svSeen' = [gen |-> svSeen.gen, ready |-> FALSE, failed |-> svSeen.failed]
    BY <2>3 DEF SvInv, SvObjTyped
  <2>5. /\ svSeen' = [gen |-> svSeen.gen, ready |-> svSeen'.ready, failed |-> svSeen'.failed]
        /\ svSeen'.ready => svOps' = {}
    BY <2>4
  <2>6. svRun' = [main |-> svRun'.main, cand |-> svRun'.cand, share |-> svRun'.share]
    BY <2>3 DEF SvWhole, SvInv, SvObjTyped
  <2>7. svOps' \subseteq SvVersions
    BY <2>3
  <2>8. SvKeepsObject
    BY <2>2, <2>5, <2>6, <2>7 DEF SvKeepsObject, SvInv, SvObjTyped
  <2>9. SvWorld'
    BY <1>4, <2>2, <2>5 DEF SvInv, SvWorld, SvKube
  <2> QED
    BY <1>4, <2>8, <2>9, SvKeptTyped DEF SvAsksFor, SvKube
<1>5. CASE svBackend = "gitops"
  <2>1. /\ svHead' = v /\ svObj' = IF svHead = v THEN svObj ELSE [svObj EXCEPT !.ver = v]
        /\ svSeen' = svSeen /\ svRun' = svRun /\ svOps' = svOps
    BY <1>5 DEF SvRequest, SvGitRequest, SvKube
  <2>2. SvKeepsObject /\ (svHead = svObj.ver => svObj'.ver = v)
    <3>1. CASE svHead = v
      BY <2>1, <3>1 DEF SvKeepsObject, SvInv, SvObjTyped
    <3>2. CASE svHead # v
      <4>1. svObj' = [ver |-> v, cand |-> svObj.cand, share |-> svObj.share, gen |-> svObj.gen,
                      extra |-> svObj.extra, live |-> svObj.live, deleting |-> svObj.deleting]
        BY <2>1, <3>2 DEF SvInv, SvObjTyped
      <4> QED
        BY <2>1, <4>1 DEF SvKeepsObject, SvInv, SvObjTyped
    <3> QED
      BY <3>1, <3>2
  <2>3. SvWorld'
    BY <1>5, <2>2, SvKeptTyped DEF SvInv, SvWorld, SvKube
  <2> QED
    BY <1>5, <2>1, <2>2, <2>3, SvKeptTyped DEF SvAsksFor, SvKube
<1>6. CASE svBackend = "webhook"
  <2>1. /\ svObj' = [svObj EXCEPT !.ver = v]
        /\ svSeen' = [svSeen EXCEPT !.ready = FALSE, !.failed = FALSE]
        /\ svRun' = svRun /\ svOps' = svOps
    BY <1>6 DEF SvRequest, SvWebhookRequest, SvKube
  <2>2. /\ svObj' = [ver |-> v, cand |-> svObj.cand, share |-> svObj.share, gen |-> svObj.gen,
                     extra |-> svObj.extra, live |-> svObj.live, deleting |-> svObj.deleting]
        /\ svSeen' = [gen |-> svSeen.gen, ready |-> FALSE, failed |-> FALSE]
    BY <2>1 DEF SvInv, SvObjTyped
  <2>3. SvKeepsObject
    BY <2>1, <2>2 DEF SvKeepsObject, SvInv, SvObjTyped
  <2>4. SvWorld'
    BY <1>6, <2>3, SvKeptTyped DEF SvInv, SvWorld, SvKube
  <2> QED
    BY <1>6, <2>3, <2>4, SvKeptTyped DEF SvAsksFor, SvKube
<1>7. CASE svBackend \in {"triton", "alias"}
  <2>1. /\ svObj' = [svObj EXCEPT !.ver = v] /\ svSeen' = svSeen /\ svOps' = svOps
        /\ svRun' = SvWhole(v) \/ svRun' = [svRun EXCEPT !.main = v]
    BY <1>7 DEF SvRequest, SvTritonRequest, SvAliasRequest, SvKube
  <2>2. /\ svObj' = [ver |-> v, cand |-> svObj.cand, share |-> svObj.share, gen |-> svObj.gen,
                     extra |-> svObj.extra, live |-> svObj.live, deleting |-> svObj.deleting]
        /\ \/ svRun' = [main |-> v, cand |-> SvNone, share |-> 0]
           \/ svRun' = [main |-> v, cand |-> svRun.cand, share |-> svRun.share]
    BY <2>1 DEF SvInv, SvObjTyped, SvWhole
  <2>3. SvKeepsObject /\ svObj'.ver = v /\ svRun'.main = v
    BY <2>1, <2>2 DEF SvKeepsObject, SvInv, SvObjTyped
  <2>4. SvWorld'
    BY <1>7, <2>3, SvKeptTyped DEF SvInv, SvWorld, SvKube
  <2> QED
    BY <1>7, <2>3, <2>4, SvKeptTyped DEF SvAsksFor, SvKube
<1> QED
  BY <1>1, <1>2, <1>3, <1>4, <1>5, <1>6, <1>7 DEF SvInv, SvObjTyped, SvSystems, SvKube

LEMMA SvOfDeploy ==
    ASSUME SvInv, SvDeploy
    PROVE  SvInv'
<1>1. PICK v : v = svJob.target
  OBVIOUS
<1>2. /\ svJob.at = "put" /\ v \in SvVersions /\ v # SvNone /\ SvRequest(v, FALSE)
      /\ svBackend' = svBackend /\ svForeign' = svForeign /\ svLive' = svLive /\ svOut' = svOut
      /\ svLoose' = svLoose /\ svFresh' = FALSE
      /\ svPending' = IF svBackend = "vertex" THEN v ELSE svPending
  BY <1>1, SvAssumption DEF SvDeploy, SvInv, SvJobTyped
<1>3. SvAsksFor(v)
  BY <1>2, SvOfRequest
<1>4. /\ svJob' = [at |-> svJob'.at, target |-> svJob'.target, prev |-> svJob'.prev,
                   share |-> svJob'.share, extra |-> svJob'.extra]
      /\ svJob'.at = "wait" /\ svJob'.target = v /\ svJob'.prev = svJob.prev
  BY <1>1, SvMoves DEF SvDeploy
<1>5. SvJobTyped'
  BY <1>2, <1>3, <1>4 DEF SvInv, SvJobTyped, SvAsksFor
<1>6. SvExtras'
  BY <1>2, <1>3 DEF SvInv, SvExtras, SvAsksFor
<1>7. SvAskedFor'
  <2>1. svBackend = "vertex" /\ ~svLoose => svOps' \subseteq {svPending'}
    BY <1>2, <1>3 DEF SvInv, SvAskedFor, SvAsksFor
  <2>2. svBackend = "gitops" /\ ~svLoose => svObj'.ver = v
    BY <1>2, <1>3 DEF SvInv, SvAskedFor, SvAsksFor
  <2>3. SvKube => svObj'.ver = v /\ svObj'.cand = SvNone /\ svObj'.share = 0
    BY <1>2, <1>3 DEF SvAsksFor
  <2> QED
    BY <1>2, <1>4, <2>1, <2>2, <2>3 DEF SvAskedFor, SvKube
<1>8. SvServes'
  BY <1>4 DEF SvServes
<1> QED
  BY <1>3, <1>5, <1>6, <1>7, <1>8 DEF SvInv, SvAsksFor

LEMMA SvOfDeployFails ==
    ASSUME SvInv, SvDeployFails
    PROVE  SvInv'
<1>1. PICK v : v = svJob.target
  OBVIOUS
<1>2. /\ svJob.at = "put" /\ v \in SvVersions /\ v # SvNone /\ svBackend' = svBackend
      /\ SvTo("restore") /\ svFresh' = FALSE
      /\ UNCHANGED <<svBackend, svForeign, svLive, svOut, svLoose>>
  BY <1>1, SvAssumption DEF SvDeployFails, SvInv, SvJobTyped
<1>3. SvRequest(v, FALSE) \/ SvHalfRequest(v) \/ UNCHANGED SvSystem
  BY <1>1 DEF SvDeployFails
<1>4. /\ SvObjTyped' /\ SvWorld' /\ svObj'.extra = svObj.extra
      /\ svBackend = "kube" /\ svLive # SvNone => svObj'.live /\ svObj'.deleting = svObj.deleting
  <2>1. CASE SvRequest(v, FALSE)
    <3>1. SvAsksFor(v)
      BY <1>2, <2>1, SvOfRequest
    <3> QED
      BY <1>2, <3>1 DEF SvAsksFor
  <2>2. CASE SvHalfRequest(v) /\ svBackend = "gitops"
    <3>1. svObj' = svObj /\ svSeen' = svSeen /\ svRun' = svRun /\ svOps' = svOps
      BY <2>2 DEF SvHalfRequest
    <3>2. SvObjTyped'
      BY <1>2, <3>1 DEF SvInv, SvObjTyped
    <3>3. SvWorld'
      BY <1>2, <2>2, <3>1 DEF SvInv, SvWorld, SvKube
    <3> QED
      BY <2>2, <3>1, <3>2, <3>3
  <2>3. CASE SvHalfRequest(v) /\ svBackend = "triton"
    <3>1. /\ svObj' = [svObj EXCEPT !.ver = v] /\ svSeen' = svSeen /\ svRun' = svRun
          /\ svOps' = svOps
      BY <2>3 DEF SvHalfRequest
    <3>2. svObj' = [ver |-> v, cand |-> svObj.cand, share |-> svObj.share, gen |-> svObj.gen,
                    extra |-> svObj.extra, live |-> svObj.live, deleting |-> svObj.deleting]
      BY <3>1 DEF SvInv, SvObjTyped
    <3>3. SvKeepsObject
      BY <3>1, <3>2 DEF SvKeepsObject, SvInv, SvObjTyped
    <3>4. SvWorld'
      BY <1>2, <2>3, <3>3, SvKeptTyped DEF SvInv, SvWorld, SvKube
    <3> QED
      BY <1>2, <2>3, <3>3, <3>4, SvKeptTyped
  <2>4. CASE UNCHANGED SvSystem
    BY <1>2, <2>4, SvUnasked DEF SvInv, SvJobTyped
  <2> QED
    BY <1>3, <2>1, <2>2, <2>3, <2>4 DEF SvHalfRequest
<1>5. SvGivesUp
  BY <1>2, <1>4 DEF SvGivesUp
<1> QED
  BY <1>5, SvGiven

LEMMA SvOfRestore ==
    ASSUME SvInv, SvRestore
    PROVE  SvInv'
<1>1. PICK v : v = svJob.prev
  OBVIOUS
<1>2. /\ svJob.at = "back" /\ v = svLive /\ v \in SvVersions \cup {SvNone} /\ SvRequest(v, TRUE)
      /\ svBackend' = svBackend /\ svForeign' = svForeign /\ svLive' = svLive /\ svOut' = svOut
      /\ svFresh' = FALSE /\ svLoose' = (svLoose \/ SvUnwatched')
  BY <1>1 DEF SvRestore, SvInv, SvJobTyped
<1>3. SvAsksFor(v)
  BY <1>2, SvOfRequest
<1>4. /\ svJob' = [at |-> svJob'.at, target |-> svJob'.target, prev |-> svJob'.prev,
                   share |-> svJob'.share, extra |-> svJob'.extra]
      /\ svJob'.at = "waitback" /\ svJob'.prev = v
  BY <1>1, SvMoves DEF SvRestore
<1>5. SvJobTyped'
  BY <1>2, <1>3, <1>4 DEF SvInv, SvJobTyped, SvAsksFor
<1>6. SvExtras'
  BY <1>2, <1>3 DEF SvInv, SvExtras, SvAsksFor
<1>7. SvAskedFor'
  <2>1. svBackend = "vertex" /\ ~svLoose' => svOps' \subseteq {svPending'}
    BY <1>2 DEF SvUnwatched
  <2>2. svBackend = "gitops" /\ ~svLoose' => svObj'.ver = v
    BY <1>2, <1>3 DEF SvUnwatched, SvAsksFor
  <2>3. SvKube => IF svBackend = "kube" /\ v = SvNone THEN ~svObj'.live \/ svObj'.deleting
                  ELSE svObj'.ver = v /\ svObj'.cand = SvNone /\ svObj'.share = 0
    BY <1>3 DEF SvAsksFor
  <2> QED
    BY <1>2, <1>4, <2>1, <2>2, <2>3 DEF SvAskedFor, SvKube
<1>8. SvServes'
  BY <1>4 DEF SvServes
<1> QED
  BY <1>3, <1>5, <1>6, <1>7, <1>8 DEF SvInv, SvAsksFor

\* A split is asked for, or given up.
LEMMA SvOfSetTraffic ==
    ASSUME SvInv, SvSetTraffic
    PROVE  SvInv'
<1>1. /\ svJob.at = "share" /\ svJob.prev = svLive /\ svLive # SvNone /\ svFresh' = FALSE
      /\ svBackend' = svBackend /\ svForeign' = svForeign /\ svLive' = svLive /\ svOut' = svOut
      /\ svLoose' = svLoose /\ SvSplitting
  BY DEF SvSetTraffic, SvInv, SvJobTyped
<1>2. /\ svJob' = [at |-> svJob'.at, target |-> svJob'.target, prev |-> svJob'.prev,
                   share |-> svJob'.share, extra |-> svJob'.extra]
      /\ svJob'.at = "split_read" /\ svJob'.prev = svLive
  BY <1>1, SvMoves DEF SvSetTraffic
<1>3. /\ SvObjTyped' /\ SvWorld' /\ svObj'.extra = svObj.extra
      /\ svBackend = "kube" => svObj'.live /\ svObj'.deleting = svObj.deleting
  <2>1. CASE svBackend = "kube" /\ SvWriteObject(svJob.prev, svJob.target, svJob.share)
    BY <1>1, <2>1, SvWritten DEF SvKube
  <2>2. CASE svBackend = "webhook" /\ SvWebhookShare
    <3>1. /\ svObj' = [svObj EXCEPT !.ver = svJob.prev, !.cand = svJob.target,
                                    !.share = svJob.share]
          /\ svSeen' = [svSeen EXCEPT !.ready = FALSE, !.failed = FALSE]
          /\ svRun' = svRun /\ svOps' = svOps
      BY <2>2 DEF SvWebhookShare
    <3>2. /\ svObj' = [ver |-> svJob.prev, cand |-> svJob.target, share |-> svJob.share,
                       gen |-> svObj.gen, extra |-> svObj.extra, live |-> svObj.live,
                       deleting |-> svObj.deleting]
          /\ svSeen' = [gen |-> svSeen.gen, ready |-> FALSE, failed |-> FALSE]
      BY <3>1 DEF SvInv, SvObjTyped
    <3>3. SvKeepsObject
      BY <3>1, <3>2 DEF SvKeepsObject, SvInv, SvObjTyped
    <3>4. SvWorld'
      BY <1>1, <2>2, <3>3, SvKeptTyped DEF SvInv, SvWorld, SvKube
    <3> QED
      BY <1>1, <2>2, <3>3, <3>4, SvKeptTyped
  <2>3. CASE svBackend = "alias" /\ SvAliasShare
    <3>1. /\ svObj' = [svObj EXCEPT !.ver = svJob.prev] /\ svRun' = SvAsked
          /\ svSeen' = svSeen /\ svOps' = svOps
      BY <2>3 DEF SvAliasShare
    <3>2. svObj' = [ver |-> svJob.prev, cand |-> svObj.cand, share |-> svObj.share,
                    gen |-> svObj.gen, extra |-> svObj.extra, live |-> svObj.live,
                    deleting |-> svObj.deleting]
      BY <3>1 DEF SvInv, SvObjTyped
    <3>3. SvKeepsObject /\ svObj'.ver = svRun'.main
      BY <3>1, <3>2 DEF SvKeepsObject, SvInv, SvObjTyped, SvAsked
    <3>4. SvWorld'
      BY <1>1, <2>3, <3>3, SvKeptTyped DEF SvInv, SvWorld, SvKube
    <3> QED
      BY <1>1, <2>3, <3>3, <3>4, SvKeptTyped
  <2> QED
    BY <2>1, <2>2, <2>3 DEF SvSetTraffic
<1>4. SvJobTyped'
  BY <1>1, <1>2, <1>3 DEF SvInv, SvJobTyped, SvSplitting
<1>5. SvExtras'
  BY <1>1, <1>3 DEF SvInv, SvExtras
<1>6. SvAskedFor' /\ SvServes'
  BY <1>2 DEF SvAskedFor, SvServes
<1> QED
  BY <1>3, <1>4, <1>5, <1>6 DEF SvInv

LEMMA SvOfSplitFails ==
    ASSUME SvInv, SvSplitFails
    PROVE  SvInv'
<1>1. /\ svFresh' = FALSE /\ svPending' = svPending /\ SvSplitting
      /\ svBackend' = svBackend /\ svForeign' = svForeign /\ svLive' = svLive
  BY DEF SvSplitFails, SvInv, SvJobTyped
<1>2. /\ svJob' = [at |-> svJob'.at, target |-> svJob'.target, prev |-> svJob'.prev,
                   share |-> svJob'.share, extra |-> svJob'.extra]
      /\ svJob'.at = "idle"
      /\ svOut' = [kind |-> svOut'.kind, run |-> svOut'.run] /\ svOut'.kind = "failed"
  BY SvRests DEF SvSplitFails
<1>3. SvObjTyped' /\ SvWorld' /\ svObj' = svObj
  <2>1. CASE UNCHANGED SvSystem
    BY <1>1, <2>1, SvUnasked
  <2>2. CASE SvAliasHalf
    <3>1. /\ svObj' = svObj /\ svSeen' = svSeen /\ svOps' = svOps /\ svBackend = "alias"
          /\ svRun' = [svRun EXCEPT !.share = IF svRun.cand = svJob.target THEN svJob.share ELSE @]
      BY <2>2 DEF SvAliasHalf
    <3>2. PICK share : share = IF svRun.cand = svJob.target THEN svJob.share ELSE svRun.share
      OBVIOUS
    <3>3. svRun' = [main |-> svRun.main, cand |-> svRun.cand, share |-> share]
      BY <3>1, <3>2 DEF SvInv, SvObjTyped
    <3>4. /\ svRun' = [main |-> svRun'.main, cand |-> svRun'.cand, share |-> svRun'.share]
          /\ svRun'.main = svRun.main
      BY <3>3
    <3>5. SvObjTyped'
      BY <1>1, <3>1, <3>4 DEF SvInv, SvObjTyped
    <3>6. SvWorld'
      BY <1>1, <3>1, <3>4 DEF SvInv, SvWorld, SvKube
    <3> QED
      BY <3>1, <3>5, <3>6
  <2> QED
    BY <2>1, <2>2 DEF SvSplitFails
<1>4. SvJobTyped'
  BY <1>1, <1>2, <1>3 DEF SvInv, SvJobTyped
<1>5. SvExtras'
  BY <1>1, <1>3 DEF SvInv, SvExtras
<1>6. SvAskedFor' /\ SvServes'
  BY <1>1, <1>2 DEF SvAskedFor, SvServes, SvSplitting, SvKube
<1> QED
  BY <1>3, <1>4, <1>5, <1>6 DEF SvInv

-----------------------------------------------------------------------------
(* The serving systems.                                                    *)

\* What a step of the serving system leaves as it is.
SvSystemKeeps ==
    /\ SvObjTyped' /\ SvWorld'
    /\ svObj'.extra = svForeign' /\ (svFresh' => svFresh /\ svObj'.extra = svObj.extra)
    /\ svBackend # "vertex" =>
          svObj'.ver = svObj.ver /\ svObj'.cand = svObj.cand /\ svObj'.share = svObj.share
    /\ svBackend = "kube" /\ svLive # SvNone => svObj'.live /\ ~svObj'.deleting
    /\ svBackend = "kube" /\ (~svObj.live \/ svObj.deleting) => ~svObj'.live \/ svObj'.deleting
    /\ svOps' \subseteq svOps
    /\ SvStays => SvStays' /\ svRun'.main = svRun.main /\ (svBackend # "gitops" => svRun' = svRun)

LEMMA SvMovedOn ==
    ASSUME SvInv, UNCHANGED SvDeployer, SvSystemKeeps
    PROVE  SvInv'
<1>1. /\ svBackend' = svBackend /\ svPending' = svPending /\ svHead' = svHead /\ svJob' = svJob
      /\ svLive' = svLive /\ svOut' = svOut /\ svLoose' = svLoose
  BY DEF SvDeployer
<1>2. SvJobTyped'
  BY <1>1 DEF SvInv, SvJobTyped, SvSplitting, SvSystemKeeps
<1>3. SvExtras'
  BY <1>1 DEF SvInv, SvExtras, SvSystemKeeps
<1>4. SvAskedFor'
  <2>1. SvKube => svObj'.ver = svObj.ver /\ svObj'.cand = svObj.cand /\ svObj'.share = svObj.share
    BY DEF SvSystemKeeps, SvKube
  <2>2. svBackend = "gitops" => svObj'.ver = svObj.ver
    BY DEF SvSystemKeeps
  <2>3. /\ svBackend = "kube" /\ (~svObj.live \/ svObj.deleting) => ~svObj'.live \/ svObj'.deleting
        /\ svOps' \subseteq svOps
    BY DEF SvSystemKeeps
  <2> QED
    BY <1>1, <2>1, <2>2, <2>3 DEF SvInv, SvAskedFor, SvKube
<1>5. SvServes'
  <2>1. SvStays => SvStays' /\ svRun'.main = svRun.main /\ (svBackend # "gitops" => svRun' = svRun)
    BY DEF SvSystemKeeps
  <2> QED
    BY <1>1, <2>1 DEF SvInv, SvServes
<1> QED
  BY <1>2, <1>3, <1>4, <1>5 DEF SvInv, SvSystemKeeps

\* The controller of an object, and whoever else writes to it.
LEMMA SvOfController ==
    ASSUME SvInv, SvObserve \/ SvGone \/ SvForeignWrite \/ \E ok \in BOOLEAN : SvSettle(ok)
    PROVE  SvInv'
<1>1. UNCHANGED SvDeployer /\ svBackend' = svBackend /\ svLive' = svLive
  BY DEF SvObserve, SvGone, SvForeignWrite, SvSettle, SvDeployer
<1>2. CASE SvObserve
  <2>1. /\ svObj' = svObj /\ svRun' = svRun /\ svOps' = svOps /\ svForeign' = svForeign
        /\ svFresh' = FALSE /\ SvKube
        /\ svSeen' = [gen |-> svObj.gen, ready |-> FALSE, failed |-> FALSE]
    BY <1>2 DEF SvObserve
  <2>2. /\ svSeen' = [gen |-> svSeen'.gen, ready |-> svSeen'.ready, failed |-> svSeen'.failed]
        /\ svSeen'.gen = svObj.gen /\ svSeen'.ready = FALSE
    BY <2>1
  <2>3. SvObjTyped'
    BY <1>1, <2>1, <2>2 DEF SvInv, SvObjTyped
  <2>4. SvWorld'
    BY <1>1, <2>1, <2>2 DEF SvInv, SvWorld, SvKube
  <2>5. SvStays => SvStays'
    BY <1>1, <2>1 DEF SvStays, SvKube, SvWanted
  <2>6. SvSystemKeeps
    BY <1>1, <2>1, <2>3, <2>4, <2>5 DEF SvInv, SvJobTyped, SvExtras, SvSystemKeeps
  <2> QED
    BY <1>1, <2>6, SvMovedOn
<1>3. CASE \E ok \in BOOLEAN : SvSettle(ok)
  <2>1. PICK ok \in BOOLEAN : SvSettle(ok)
    BY <1>3
  <2>2. /\ svObj' = svObj /\ svOps' = svOps /\ svForeign' = svForeign /\ svFresh' = FALSE /\ SvKube
        /\ svRun' = (IF ok THEN SvWanted ELSE svRun) /\ svObj.live
        /\ svSeen' = [svSeen EXCEPT !.ready = ok, !.failed = ~ok]
    BY <2>1 DEF SvSettle, SvWanted
  <2>3. PICK given : given = ~ok
    OBVIOUS
  <2>4. svSeen' = [gen |-> svSeen.gen, ready |-> ok, failed |-> given]
    BY <2>2, <2>3 DEF SvInv, SvObjTyped
  <2>5. /\ svSeen' = [gen |-> svSeen'.gen, ready |-> svSeen'.ready, failed |-> svSeen'.failed]
        /\ svSeen'.gen = svSeen.gen /\ svSeen'.ready = ok
    BY <2>4
  <2>6. SvWanted' = SvWanted
    BY <2>2 DEF SvWanted
  <2>7. svRun' = [main |-> svRun'.main, cand |-> svRun'.cand, share |-> svRun'.share]
    BY <2>2 DEF SvWanted, SvInv, SvObjTyped
  <2>8. SvObjTyped'
    BY <1>1, <2>2, <2>5, <2>7 DEF SvInv, SvObjTyped
  <2>9. SvWorld'
    BY <1>1, <2>2, <2>5, <2>6 DEF SvInv, SvWorld, SvKube
  <2>10. SvStays => SvStays' /\ svRun' = svRun
    BY <1>1, <2>2, <2>6 DEF SvStays, SvKube
  <2>11. SvSystemKeeps
    BY <1>1, <2>2, <2>8, <2>9, <2>10 DEF SvInv, SvJobTyped, SvExtras, SvSystemKeeps
  <2> QED
    BY <1>1, <2>11, SvMovedOn
<1>4. CASE SvGone
  <2>1. /\ svObj.deleting /\ svObj' = [svObj EXCEPT !.live = FALSE, !.deleting = FALSE, !.extra = 0]
        /\ svForeign' = 0 /\ svRun' = SvWhole(SvNone) /\ svFresh' = FALSE
        /\ svSeen' = svSeen /\ svOps' = svOps
    BY <1>4 DEF SvGone
  <2>2. svBackend = "kube" /\ svLive = SvNone
    BY <2>1 DEF SvInv, SvWorld, SvJobTyped
  <2>3. svObj' = [ver |-> svObj.ver, cand |-> svObj.cand, share |-> svObj.share, gen |-> svObj.gen,
                  extra |-> 0, live |-> FALSE, deleting |-> FALSE]
    BY <2>1 DEF SvInv, SvObjTyped
  <2>4. /\ svObj' = [ver |-> svObj'.ver, cand |-> svObj'.cand, share |-> svObj'.share,
                     gen |-> svObj'.gen, extra |-> svObj'.extra, live |-> svObj'.live,
                     deleting |-> svObj'.deleting]
        /\ svObj'.live = FALSE /\ svObj'.deleting = FALSE /\ svObj'.extra = 0
        /\ svObj'.gen = svObj.gen /\ svObj'.ver = svObj.ver /\ svObj'.cand = svObj.cand
        /\ svObj'.share = svObj.share
    BY <2>3
  <2>5. svRun' = [main |-> svRun'.main, cand |-> svRun'.cand, share |-> svRun'.share]
    BY <2>1 DEF SvWhole
  <2>6. svObj'.live \in BOOLEAN /\ svObj'.deleting \in BOOLEAN
    BY <2>4
  <2>7. SvObjTyped'
    BY <1>1, <2>1, <2>4, <2>5, <2>6 DEF SvInv, SvObjTyped
  <2>8. SvWorld'
    BY <1>1, <2>1, <2>2, <2>4 DEF SvWorld, SvKube, SvWhole
  <2>9. ~SvStays
    BY <2>1, <2>2 DEF SvStays, SvKube
  <2>10. SvSystemKeeps
    BY <1>1, <2>1, <2>2, <2>4, <2>7, <2>8, <2>9 DEF SvSystemKeeps
  <2> QED
    BY <1>1, <2>10, SvMovedOn
<1>5. CASE SvForeignWrite
  <2>1. /\ svObj' = [svObj EXCEPT !.extra = @ + 1, !.gen = @ + 1] /\ svForeign' = svForeign + 1
        /\ svFresh' = FALSE /\ svSeen' = svSeen /\ svRun' = svRun /\ svOps' = svOps /\ SvKube
    BY <1>5 DEF SvForeignWrite
  <2>2. svObj' = [ver |-> svObj.ver, cand |-> svObj.cand, share |-> svObj.share,
                  gen |-> svObj.gen + 1, extra |-> svObj.extra + 1, live |-> svObj.live,
                  deleting |-> svObj.deleting]
    BY <2>1 DEF SvInv, SvObjTyped
  <2>3. /\ svObj' = [ver |-> svObj'.ver, cand |-> svObj'.cand, share |-> svObj'.share,
                     gen |-> svObj'.gen, extra |-> svObj'.extra, live |-> svObj'.live,
                     deleting |-> svObj'.deleting]
        /\ svObj'.live = svObj.live /\ svObj'.deleting = svObj.deleting
        /\ svObj'.extra = svObj.extra + 1 /\ svObj'.gen = svObj.gen + 1
        /\ svObj'.ver = svObj.ver /\ svObj'.cand = svObj.cand /\ svObj'.share = svObj.share
    BY <2>2
  <2>4. svObj.gen \in Nat /\ svSeen.gen \in Nat /\ svSeen.gen <= svObj.gen
    BY DEF SvInv, SvObjTyped
  <2>5. svObj'.gen \in Nat /\ svSeen'.gen \in Nat /\ svSeen'.gen <= svObj'.gen
        /\ svSeen'.gen # svObj'.gen
    BY <2>1, <2>3, <2>4
  <2>6. SvObjTyped'
    BY <1>1, <2>1, <2>3, <2>5 DEF SvInv, SvObjTyped
  <2>7. SvWorld'
    BY <1>1, <2>1, <2>3, <2>5 DEF SvInv, SvWorld, SvKube
  <2>8. SvStays => SvStays'
    BY <1>1, <2>1, <2>3 DEF SvStays, SvKube, SvWanted
  <2>9. svObj'.extra = svForeign'
    BY <2>1, <2>3 DEF SvInv, SvExtras
  <2>10. SvSystemKeeps
    BY <1>1, <2>1, <2>3, <2>6, <2>7, <2>8, <2>9 DEF SvInv, SvJobTyped, SvSystemKeeps
  <2> QED
    BY <1>1, <2>10, SvMovedOn
<1> QED
  BY <1>2, <1>3, <1>4, <1>5

\* The operations of the managed endpoints.
LEMMA SvOfOperation ==
    ASSUME SvInv, NEW v \in SvVersions, NEW ok \in BOOLEAN, SvOperationEnds(v, ok) \/ SvUpdateEnds(v, ok)
    PROVE  SvInv'
<1>1. /\ UNCHANGED SvDeployer /\ svBackend' = svBackend /\ svLive' = svLive
      /\ svFresh' = svFresh /\ svForeign' = svForeign
      /\ svRun' = (IF ok THEN SvWhole(v) ELSE svRun) /\ svOps' \subseteq svOps /\ v \in svOps
  BY DEF SvOperationEnds, SvUpdateEnds, SvDeployer
<1>2. svRun' = [main |-> svRun'.main, cand |-> svRun'.cand, share |-> svRun'.share]
  BY <1>1 DEF SvWhole, SvInv, SvObjTyped
<1>3. svOps' \subseteq SvVersions
  BY <1>1 DEF SvInv, SvObjTyped
<1>4. CASE SvOperationEnds(v, ok)
  <2>1. /\ svObj' = (IF ok THEN [svObj EXCEPT !.ver = svRun.main] ELSE svObj)
        /\ svSeen' = svSeen /\ svBackend = "vertex"
    BY <1>4 DEF SvOperationEnds
  <2>2. \/ svObj' = svObj
        \/ svObj' = [ver |-> svRun.main, cand |-> svObj.cand, share |-> svObj.share,
                     gen |-> svObj.gen, extra |-> svObj.extra, live |-> svObj.live,
                     deleting |-> svObj.deleting]
    BY <2>1 DEF SvInv, SvObjTyped
  <2>3. SvKeepsObject
    BY <1>2, <1>3, <2>1, <2>2 DEF SvKeepsObject, SvInv, SvObjTyped
  <2>4. SvWorld'
    BY <1>1, <2>1, <2>3, SvKeptTyped DEF SvInv, SvWorld, SvKube
  <2>5. ~SvStays
    BY <1>1, <2>1 DEF SvStays
  <2>6. SvSystemKeeps
    BY <1>1, <2>1, <2>3, <2>4, <2>5, SvKeptTyped DEF SvInv, SvExtras, SvSystemKeeps
  <2> QED
    BY <1>1, <2>6, SvMovedOn
<1>5. CASE SvUpdateEnds(v, ok)
  <2>1. /\ svObj' = svObj /\ svOps' = {} /\ svBackend = "sagemaker"
        /\ svSeen' = [svSeen EXCEPT !.ready = ok \/ svRun.main # SvNone,
                                    !.failed = ~ok /\ svRun.main = SvNone]
    BY <1>5 DEF SvUpdateEnds
  <2>2. PICK ready, failed : svSeen' = [svSeen EXCEPT !.ready = ready, !.failed = failed]
    BY <2>1
  <2>3. svSeen' = [gen |-> svSeen.gen, ready |-> ready, failed |-> failed]
    BY <2>2 DEF SvInv, SvObjTyped
  <2>4. svSeen' = [gen |-> svSeen.gen, ready |-> svSeen'.ready, failed |-> svSeen'.failed]
    BY <2>3
  <2>5. SvKeepsObject
    BY <1>2, <1>3, <2>1, <2>4 DEF SvKeepsObject, SvInv, SvObjTyped
  <2>6. SvWorld'
    BY <1>1, <2>1, <2>5, SvKeptTyped DEF SvInv, SvWorld, SvKube
  <2>7. ~SvStays
    BY <1>1, <2>1 DEF SvStays
  <2>8. SvSystemKeeps
    BY <1>1, <2>1, <2>5, <2>6, <2>7, SvKeptTyped DEF SvInv, SvExtras, SvSystemKeeps
  <2> QED
    BY <1>1, <2>8, SvMovedOn
<1> QED
  BY <1>4, <1>5

\* The services that report their state.
LEMMA SvOfReporter ==
    ASSUME SvInv, SvNotice \/ SvRetry \/ \E ok \in BOOLEAN : SvReach(ok)
    PROVE  SvInv'
<1>1. /\ UNCHANGED SvDeployer /\ svBackend' = svBackend /\ svLive' = svLive /\ svObj' = svObj
      /\ svFresh' = svFresh /\ svForeign' = svForeign /\ svOps' = svOps
      /\ svBackend \in {"gitops", "webhook"}
      /\ svRun' = svRun \/ svRun' = SvWanted
      /\ svBackend = "webhook" => ~svSeen.ready
  BY DEF SvNotice, SvRetry, SvReach, SvDeployer, SvReporting
<1>2. svSeen' = [gen |-> svSeen.gen, ready |-> svSeen'.ready, failed |-> svSeen'.failed]
  <2>1. \E ready, failed :
           \/ svSeen' = [svSeen EXCEPT !.ready = ready]
           \/ svSeen' = [svSeen EXCEPT !.failed = failed]
           \/ svSeen' = [svSeen EXCEPT !.ready = ready, !.failed = failed]
    BY DEF SvNotice, SvRetry, SvReach
  <2>2. PICK ready, failed : svSeen' = [gen |-> svSeen.gen, ready |-> ready, failed |-> failed]
    BY <2>1 DEF SvInv, SvObjTyped
  <2> QED
    BY <2>2
<1>3. svRun' = [main |-> svRun'.main, cand |-> svRun'.cand, share |-> svRun'.share]
  BY <1>1 DEF SvWanted, SvInv, SvObjTyped
<1>4. SvKeepsObject
  BY <1>1, <1>2, <1>3 DEF SvKeepsObject, SvInv, SvObjTyped
<1>5. SvWorld'
  BY <1>1 DEF SvInv, SvWorld, SvKube
<1>6. SvStays => SvStays' /\ svRun'.main = svRun.main /\ (svBackend # "gitops" => svRun' = svRun)
  BY <1>1 DEF SvStays, SvKube, SvWanted
<1>7. SvSystemKeeps
  BY <1>1, <1>4, <1>5, <1>6, SvKeptTyped DEF SvInv, SvExtras, SvJobTyped, SvSystemKeeps
<1> QED
  BY <1>1, <1>7, SvMovedOn

LEMMA SvInitial == SvInit => SvInv
<1> SUFFICES ASSUME SvInit PROVE SvInv
  OBVIOUS
<1>1. PICK live : live = (svLive # SvNone \/ svBackend = "k8s")
  OBVIOUS
<1>2. /\ svObj = [ver |-> svLive, cand |-> SvNone, share |-> 0, gen |-> 1, extra |-> 0,
                  live |-> live, deleting |-> FALSE]
      /\ live \in BOOLEAN
  BY <1>1 DEF SvInit
<1>3. /\ svObj = [ver |-> svObj.ver, cand |-> svObj.cand, share |-> svObj.share, gen |-> svObj.gen,
                  extra |-> svObj.extra, live |-> svObj.live, deleting |-> svObj.deleting]
      /\ svObj.ver = svLive /\ svObj.cand = SvNone /\ svObj.share = 0 /\ svObj.gen = 1
      /\ svObj.extra = 0 /\ svObj.live = live /\ svObj.deleting = FALSE
  BY <1>2
<1>4. /\ svRun = [main |-> svLive, cand |-> SvNone, share |-> 0]
      /\ svSeen = [gen |-> 1, ready |-> TRUE, failed |-> FALSE]
      /\ svBackend \in SvSystems /\ svOps = {} /\ svJob.at = "idle" /\ svOut.kind = "none"
      /\ svLive \in SvVersions \cup {SvNone} /\ svPending = SvNone /\ svFresh = FALSE /\ svForeign = 0
  BY DEF SvInit, SvWhole, SvIdle, SvSystems
<1>5. SvObjTyped
  BY <1>2, <1>3, <1>4 DEF SvObjTyped
<1>6. SvWorld
  BY <1>1, <1>3, <1>4 DEF SvWorld, SvKube, SvWhole, SvWanted
<1>7. SvJobTyped
  BY <1>1, <1>3, <1>4 DEF SvInit, SvJobTyped, SvIdle
<1>8. SvExtras /\ SvAskedFor /\ SvServes
  BY <1>3, <1>4 DEF SvExtras, SvAskedFor, SvServes
<1> QED
  BY <1>5, <1>6, <1>7, <1>8 DEF SvInv

LEMMA SvPreserved == SvInv /\ [SvNext]_svVars => SvInv'
<1> SUFFICES ASSUME SvInv, [SvNext]_svVars PROVE SvInv'
  OBVIOUS
<1>1. CASE UNCHANGED svVars
  <2>1. UNCHANGED SvDeployer /\ UNCHANGED <<svBackend, SvSystem>> /\ svObj' = svObj
        /\ svForeign' = svForeign /\ svFresh' = svFresh /\ svBackend' = svBackend
        /\ svSeen' = svSeen /\ svRun' = svRun /\ svOps' = svOps
    BY <1>1 DEF svVars, SvDeployer, SvSystem
  <2>2. SvStays' = SvStays
    BY <2>1 DEF SvStays, SvKube, SvWanted
  <2>3. SvSystemKeeps
    BY <2>1, <2>2, SvUnasked DEF SvInv, SvExtras, SvJobTyped, SvSystemKeeps
  <2> QED
    BY <2>1, <2>3, SvMovedOn
<1>2. CASE SvDeployerNext
  BY <1>2, SvOfRollout, SvOfSplit, SvOfRead, SvOfDeploy, SvOfDeployFails, SvOfRefusal, SvOfPoll,
     SvOfRestore, SvOfRestoreFails, SvOfPollBack, SvOfSetTraffic, SvOfSplitFails, SvOfSplitRead
     DEF SvDeployerNext
<1>3. CASE SvSystemNext
  BY <1>3, SvOfController, SvOfOperation, SvOfReporter DEF SvSystemNext
<1> QED
  BY <1>1, <1>2, <1>3 DEF SvNext

\* For any versions, shares and numbers of requests, faults and foreign changes, on every
\* adapter: what a rollout, a restore or a split has read back serves and goes on serving until
\* the next one, unless a change nobody waits for was left running; and no write of the adapter
\* undoes a change others made to the object (registry/deployment.py _poll, revert and
\* _read_back_split; adapters/deployment).
THEOREM SvAlwaysServes == SvSpec => []SvDeploysHold
<1>1. SvSpec => []SvInv
  BY SvInitial, SvPreserved, PTL DEF SvSpec
<1>2. SvInv => SvDeploysHold
  BY DEF SvInv, SvServes, SvExtras, SvDeploysHold, SvSettledIsServed, SvOthersKept
<1> QED
  BY <1>1, <1>2, PTL

-----------------------------------------------------------------------------
(***************************************************************************)
(* Access: AcBounded.  A key in the cache was published when the cache was *)
(* filled, which is what a token is checked against; and an address's      *)
(* failures are at most the tokens it has spent, once for each request in  *)
(* flight: one that is refused without spending was in flight when the     *)
(* bucket ran out.                                                         *)
(***************************************************************************)

AcThreadIds == 1..AcThreads

AcTyped ==
    /\ acNow \in Nat /\ acFetched \in Int /\ acFetched <= acNow
    /\ acLast = [k \in AcKeys |-> acLast[k]] /\ \A k \in AcKeys : acLast[k] \in 0..acNow
    /\ acThread = [t \in AcThreadIds |-> acThread[t]]
    /\ \A t \in AcThreadIds :
          /\ acThread[t] = [step |-> acThread[t].step, peer |-> acThread[t].peer,
                            key |-> acThread[t].key, named |-> acThread[t].named,
                            at |-> acThread[t].at]
          /\ acThread[t].at \in 0..acNow
          /\ acThread[t].step # "idle" => acThread[t].peer \in AcPeers
    /\ acFailed = [p \in AcPeers |-> acFailed[p]] /\ acSince = [p \in AcPeers |-> acSince[p]]
    /\ \A p \in AcPeers : acFailed[p] \in Nat /\ acSince[p] \in 0..acNow

\* The keys that are accepted.
AcKnown ==
    /\ acBackend \in AcTokens \cup {"api-key", "mtls"}
    /\ acPublished \subseteq AcKeys /\ \A k \in acPublished : acLast[k] = acNow
    /\ acCached \subseteq AcKeys /\ \A k \in acCached : acLast[k] >= acFetched
    /\ acBackend \in AcTokens =>
          \A t \in AcThreadIds : acThread[t].step \in {"limit", "authorize", "granted"} =>
              acThread[t].key \in AcKeys /\ acLast[acThread[t].key] >= acThread[t].at - AcTtl

AcFull == AcCapacity * AcWhole

\* The buckets of addresses.
AcBuckets ==
    /\ acFailures.lru \in Seq(AcPeers) /\ DOMAIN acFailures.level = ToSet(acFailures.lru)
    /\ \A p \in DOMAIN acFailures.level :
          /\ acFailures.level[p].tokens \in 0..AcFull
          /\ acFailures.level[p].at \in 0..acNow

AcInFlight(p) == {t \in AcThreadIds : acThread[t].step # "idle" /\ acThread[t].peer = p}

\* What an address has spent, at most.
AcSpent(p) == AcFull + (acNow - acSince[p]) - AcLevel(acFailures, p)

AcPaid ==
    \A p \in AcPeers :
        /\ p \notin DOMAIN acFailures.level => acFailed[p] = 0
        /\ acFailed[p] * AcWhole <= AcThreads * AcSpent(p)
        /\ AcWaits(acFailures, p) =>
              (acFailed[p] + Cardinality(AcInFlight(p))) * AcWhole <= AcThreads * AcSpent(p)

AcInv == AcTyped /\ AcKnown /\ AcBuckets /\ AcPaid

LEMMA AcNumbers ==
    /\ AcThreads \in Nat /\ AcThreads >= 1 /\ AcWhole \in Nat /\ AcWhole >= 1 /\ AcTtl \in Nat
    /\ AcCapacity \in Nat /\ AcMaxKeys \in Nat /\ AcMaxKeys >= 1
    /\ AcFull \in Nat /\ AcFull >= AcWhole
<1>1. /\ AcThreads \in Nat /\ AcThreads >= 1 /\ AcWhole \in Nat /\ AcWhole >= 1 /\ AcTtl \in Nat
      /\ AcMaxKeys \in Nat /\ AcMaxKeys >= 1 /\ AcCapacity \in Nat /\ AcCapacity >= 1
  BY AcAssumption
<1>2. ASSUME NEW c \in Nat, c >= 1, NEW w \in Nat, w >= 1 PROVE c * w \in Nat /\ c * w >= w
  BY <1>2
<1> QED
  BY <1>1, <1>2 DEF AcFull

LEMMA AcMin ==
    ASSUME NEW x \in Int, NEW y \in Int
    PROVE  Min({x, y}) \in {x, y} /\ Min({x, y}) <= x /\ Min({x, y}) <= y
<1>1. \E m \in {x, y} : \A z \in {x, y} : m <= z
  <2>1. CASE x <= y
    BY <2>1
  <2>2. CASE ~(x <= y)
    BY <2>2
  <2> QED
    BY <2>1, <2>2
<1> QED
  BY <1>1 DEF Min

\* The other keys keep their places behind one another.
LEMMA AcMoves ==
    ASSUME NEW S, NEW s \in Seq(S), NEW k \in S
    PROVE  /\ AcMoved(s, k) \in Seq(S) /\ Len(AcMoved(s, k)) >= 1
           /\ AcMoved(s, k)[Len(AcMoved(s, k))] = k
           /\ ToSet(AcMoved(s, k)) \subseteq ToSet(s) \cup {k}
<1>0. PICK i : i = CHOOSE c \in 1..Len(s) : s[c] = k
  OBVIOUS
<1>1. PICK rest : rest = IF k \in ToSet(s) THEN RemoveAt(s, i) ELSE s
  OBVIOUS
<1>2. rest \in Seq(S) /\ \A j \in 1..Len(rest) : rest[j] \in ToSet(s)
  <2>1. CASE k \in ToSet(s)
    <3>1. \E c \in 1..Len(s) : s[c] = k
      BY <2>1 DEF ToSet
    <3>2. i \in 1..Len(s)
      BY <1>0, <3>1
    <3>3. rest = SubSeq(s, 1, i - 1) \o SubSeq(s, i + 1, Len(s))
      BY <1>1, <2>1 DEF RemoveAt
    <3>4. PICK a, b : a = SubSeq(s, 1, i - 1) /\ b = SubSeq(s, i + 1, Len(s))
      OBVIOUS
    <3>5. a \in Seq(S) /\ Len(a) = i - 1 /\ \A j \in 1..Len(a) : a[j] = s[j]
      BY <3>2, <3>4
    <3>6. b \in Seq(S) /\ Len(b) = Len(s) - i /\ \A j \in 1..Len(b) : b[j] = s[i + j]
      BY <3>2, <3>4
    <3>7. rest = a \o b
      BY <3>3, <3>4
    <3>8. rest \in Seq(S) /\ Len(rest) = Len(a) + Len(b)
      BY <3>5, <3>6, <3>7
    <3>9. ASSUME NEW j \in 1..Len(rest) PROVE rest[j] \in ToSet(s)
      <4>1. CASE j <= Len(a)
        <5>1. rest[j] = s[j] /\ j \in DOMAIN s
          BY <3>2, <3>5, <3>6, <3>7, <3>8, <3>9, <4>1
        <5> QED
          BY <5>1 DEF ToSet
      <4>2. CASE ~(j <= Len(a))
        <5>1. j - Len(a) \in 1..Len(b) /\ rest[j] = b[j - Len(a)]
          BY <3>2, <3>5, <3>6, <3>7, <3>8, <3>9, <4>2
        <5>2. rest[j] = s[i + (j - Len(a))]
          BY <3>6, <5>1
        <5>3. i + (j - Len(a)) \in DOMAIN s
          BY <3>2, <3>5, <3>6, <5>1
        <5> QED
          BY <5>2, <5>3 DEF ToSet
      <4> QED
        BY <4>1, <4>2
    <3> QED
      BY <3>8, <3>9
  <2>2. CASE k \notin ToSet(s)
    BY <1>1, <2>2 DEF ToSet
  <2> QED
    BY <2>1, <2>2
<1>3. PICK l : l = Append(rest, k)
  OBVIOUS
<1>4. /\ l \in Seq(S) /\ Len(l) = Len(rest) + 1 /\ l[Len(l)] = k
      /\ \A j \in 1..Len(rest) : l[j] = rest[j]
  BY <1>2, <1>3
<1>5. AcMoved(s, k) = l
  BY <1>0, <1>1, <1>3 DEF AcMoved
<1>6. ToSet(l) \subseteq ToSet(s) \cup {k}
  <2>1. ASSUME NEW j \in DOMAIN l PROVE l[j] \in ToSet(s) \cup {k}
    BY <1>2, <1>4, <2>1
  <2> QED
    BY <2>1 DEF ToSet
<1> QED
  BY <1>2, <1>4, <1>5, <1>6

\* The bucket that is charged is remembered, and so are the others as they were, or not at all.
LEMMA AcTakes ==
    ASSUME NEW S, NEW b, b.lru \in Seq(S), DOMAIN b.level = ToSet(b.lru), NEW k \in S,
           NEW n, n = AcTake(b, k)
    PROVE  /\ n.lru \in Seq(S) /\ DOMAIN n.level = ToSet(n.lru)
           /\ k \in DOMAIN n.level /\ DOMAIN n.level \subseteq DOMAIN b.level \cup {k}
           /\ n.level[k] = [tokens |-> AcLevel(b, k) - (IF AcWaits(b, k) THEN 0 ELSE AcWhole),
                            at |-> acNow]
           /\ \A q \in DOMAIN n.level : q # k => n.level[q] = b.level[q]
<1>1. PICK l : l = AcMoved(b.lru, k)
  OBVIOUS
<1>2. PICK spent : spent = IF AcWaits(b, k) THEN 0 ELSE AcWhole
  OBVIOUS
<1>3. PICK kept : kept = IF spent = 0 \/ Len(l) <= AcMaxKeys THEN l
                         ELSE SubSeq(l, Len(l) - AcMaxKeys + 1, Len(l))
  OBVIOUS
<1>4. /\ l \in Seq(S) /\ Len(l) >= 1 /\ l[Len(l)] = k /\ ToSet(l) \subseteq ToSet(b.lru) \cup {k}
  <2>1. PICK s : s = b.lru
    OBVIOUS
  <2>2. s \in Seq(S) /\ l = AcMoved(s, k)
    BY <1>1, <2>1
  <2>3. /\ AcMoved(s, k) \in Seq(S) /\ Len(AcMoved(s, k)) >= 1
        /\ AcMoved(s, k)[Len(AcMoved(s, k))] = k
        /\ ToSet(AcMoved(s, k)) \subseteq ToSet(s) \cup {k}
    BY <2>2, AcMoves
  <2> QED
    BY <2>1, <2>2, <2>3
<1>5. kept \in Seq(S) /\ k \in ToSet(kept) /\ ToSet(kept) \subseteq ToSet(l)
  <2>1. CASE kept = l
    <3>1. Len(l) \in DOMAIN l
      BY <1>4
    <3> QED
      BY <1>4, <2>1, <3>1 DEF ToSet
  <2>2. CASE kept = SubSeq(l, Len(l) - AcMaxKeys + 1, Len(l)) /\ ~(Len(l) <= AcMaxKeys)
    <3>1. PICK f : f = Len(l) - AcMaxKeys + 1
      OBVIOUS
    <3>2. f \in 1..Len(l) /\ Len(l) \in Nat
      BY <1>4, <2>2, <3>1, AcNumbers
    <3>3. /\ kept \in Seq(S) /\ Len(kept) = Len(l) - f + 1
          /\ \A j \in 1..Len(kept) : kept[j] = l[f + j - 1]
      BY <1>4, <2>2, <3>1, <3>2
    <3>4. ASSUME NEW j \in DOMAIN kept PROVE kept[j] \in ToSet(l)
      <4>1. f + j - 1 \in DOMAIN l /\ kept[j] = l[f + j - 1]
        BY <1>4, <3>2, <3>3, <3>4
      <4> QED
        BY <4>1 DEF ToSet
    <3>5. Len(kept) \in DOMAIN kept /\ kept[Len(kept)] = k
      <4>1. Len(kept) \in 1..Len(kept) /\ f + Len(kept) - 1 = Len(l)
        BY <3>2, <3>3
      <4>2. kept[Len(kept)] = l[f + Len(kept) - 1]
        BY <3>3, <4>1
      <4> QED
        BY <1>4, <3>3, <4>1, <4>2
    <3> QED
      BY <3>3, <3>4, <3>5 DEF ToSet
  <2> QED
    BY <1>3, <2>1, <2>2
<1>6. n = [level |-> [x \in ToSet(kept) |->
               IF x = k THEN [tokens |-> AcLevel(b, k) - spent, at |-> acNow] ELSE b.level[x]],
           lru |-> kept]
  BY <1>1, <1>2, <1>3 DEF AcTake
<1>7. /\ n.lru = kept
      /\ n.level = [x \in ToSet(kept) |->
               IF x = k THEN [tokens |-> AcLevel(b, k) - spent, at |-> acNow] ELSE b.level[x]]
  BY <1>6
<1> QED
  BY <1>2, <1>4, <1>5, <1>7

LEMMA AcLevels ==
    ASSUME AcInv, NEW p \in AcPeers
    PROVE  /\ AcLevel(acFailures, p) \in 0..AcFull
           /\ p \notin DOMAIN acFailures.level => AcLevel(acFailures, p) = AcFull
           /\ AcSpent(p) \in Int /\ acFailed[p] \in Nat
           /\ AcWaits(acFailures, p) => p \in DOMAIN acFailures.level
<1>1. CASE p \in DOMAIN acFailures.level
  <2>1. PICK tokens, at : tokens = acFailures.level[p].tokens /\ at = acFailures.level[p].at
    OBVIOUS
  <2>2. tokens \in 0..AcFull /\ at \in 0..acNow /\ acNow \in Nat /\ AcFull \in Nat
    BY <1>1, <2>1, AcNumbers DEF AcInv, AcBuckets, AcTyped
  <2>3. AcLevel(acFailures, p) = Min({AcFull, tokens + (acNow - at)})
    BY <1>1, <2>1 DEF AcLevel, AcFull
  <2>4. PICK kept \in Nat : kept = tokens + (acNow - at)
    BY <2>2
  <2>5. AcLevel(acFailures, p) \in 0..AcFull
    <3>1. AcLevel(acFailures, p) = Min({AcFull, kept})
      BY <2>3, <2>4
    <3>2. Min({AcFull, kept}) \in {AcFull, kept} /\ Min({AcFull, kept}) <= AcFull
      BY <2>2, <2>4, AcMin
    <3> QED
      BY <2>2, <2>4, <3>1, <3>2
  <2>6. AcSpent(p) \in Int /\ acFailed[p] \in Nat
    BY <2>2, <2>5 DEF AcSpent, AcInv, AcTyped
  <2> QED
    BY <1>1, <2>5, <2>6
<1>2. CASE p \notin DOMAIN acFailures.level
  <2>1. AcLevel(acFailures, p) = AcFull /\ acNow \in Nat
    BY <1>2 DEF AcLevel, AcFull, AcInv, AcTyped
  <2>2. AcSpent(p) \in Int /\ acFailed[p] \in Nat
    BY <2>1, AcNumbers DEF AcSpent, AcInv, AcTyped
  <2>3. ~AcWaits(acFailures, p)
    BY <2>1, AcNumbers DEF AcWaits
  <2> QED
    BY <1>2, <2>1, <2>2, <2>3, AcNumbers
<1> QED
  BY <1>1, <1>2

LEMMA AcFlights ==
    ASSUME NEW P, P \subseteq AcThreadIds
    PROVE  /\ IsFiniteSet(P) /\ Cardinality(P) \in Nat /\ Cardinality(P) <= AcThreads
           /\ \A Q \in SUBSET P : Cardinality(Q) \in Nat /\ Cardinality(Q) <= Cardinality(P)
           /\ \A t \in P : Cardinality(P \ {t}) = Cardinality(P) - 1
<1>1. IsFiniteSet(AcThreadIds) /\ Cardinality(AcThreadIds) = AcThreads
  <2>1. 1 \in Int /\ AcThreads \in Int /\ AcThreads >= 1
    BY AcNumbers
  <2>2. IsFiniteSet(1..AcThreads)
           /\ Cardinality(1..AcThreads) = IF 1 > AcThreads THEN 0 ELSE AcThreads - 1 + 1
    BY <2>1, FS_Interval
  <2> QED
    BY <2>1, <2>2 DEF AcThreadIds
<1>2. IsFiniteSet(P) /\ Cardinality(P) <= AcThreads
  BY <1>1, FS_Subset
<1>3. Cardinality(P) \in Nat
  BY <1>2, FS_CardinalityType
<1>4. ASSUME NEW Q \in SUBSET P PROVE Cardinality(Q) \in Nat /\ Cardinality(Q) <= Cardinality(P)
  BY <1>2, FS_Subset, FS_CardinalityType
<1>5. ASSUME NEW t \in P PROVE Cardinality(P \ {t}) = Cardinality(P) - 1
  BY <1>2, FS_RemoveElement
<1> QED
  BY <1>2, <1>3, <1>4, <1>5

\* Nothing is charged, the clock stands, and nobody arrives where there is no token.
LEMMA AcUncharged ==
    ASSUME AcInv, UNCHANGED <<acNow, acFailures, acFailed, acSince>>,
           \A p \in AcPeers : AcWaits(acFailures, p) => AcInFlight(p)' \subseteq AcInFlight(p)
    PROVE  AcPaid' /\ AcBuckets'
<1>1. AcBuckets'
  BY DEF AcInv, AcBuckets
<1>2. ASSUME NEW p \in AcPeers
      PROVE  /\ p \notin DOMAIN acFailures'.level => acFailed'[p] = 0
             /\ acFailed'[p] * AcWhole <= AcThreads * AcSpent(p)'
             /\ AcWaits(acFailures, p)' =>
                   (acFailed'[p] + Cardinality(AcInFlight(p)')) * AcWhole <= AcThreads * AcSpent(p)'
  <2>1. AcSpent(p)' = AcSpent(p) /\ AcWaits(acFailures, p)' = AcWaits(acFailures, p)
    BY DEF AcSpent, AcLevel, AcWaits
  <2>2. /\ p \notin DOMAIN acFailures.level => acFailed[p] = 0
        /\ acFailed[p] * AcWhole <= AcThreads * AcSpent(p)
        /\ AcWaits(acFailures, p) =>
              (acFailed[p] + Cardinality(AcInFlight(p))) * AcWhole <= AcThreads * AcSpent(p)
    BY DEF AcInv, AcPaid
  <2>3. ASSUME AcWaits(acFailures, p)
        PROVE  (acFailed[p] + Cardinality(AcInFlight(p)')) * AcWhole <= AcThreads * AcSpent(p)
    <3>1. PICK m, n : m = Cardinality(AcInFlight(p)') /\ n = Cardinality(AcInFlight(p))
      OBVIOUS
    <3>2. m \in Nat /\ n \in Nat /\ m <= n
      <4>1. AcInFlight(p) \subseteq AcThreadIds /\ AcInFlight(p)' \subseteq AcInFlight(p)
        BY <2>3 DEF AcInFlight
      <4> QED
        BY <3>1, <4>1, AcFlights
    <3>3. (acFailed[p] + n) * AcWhole <= AcThreads * AcSpent(p)
      BY <2>2, <2>3, <3>1
    <3>4. acFailed[p] \in Nat /\ AcThreads * AcSpent(p) \in Int /\ AcWhole \in Nat
      BY AcLevels, AcNumbers
    <3>5. ASSUME NEW f \in Nat, NEW w \in Nat PROVE (f + m) * w <= (f + n) * w
      BY <3>2
    <3>6. (acFailed[p] + m) * AcWhole <= (acFailed[p] + n) * AcWhole
      BY <3>4, <3>5
    <3>7. (acFailed[p] + m) * AcWhole \in Int /\ (acFailed[p] + n) * AcWhole \in Int
      BY <3>2, <3>4
    <3> QED
      BY <3>1, <3>3, <3>4, <3>6, <3>7
  <2> QED
    BY <2>1, <2>2, <2>3
<1>3. AcPaid'
  BY <1>2 DEF AcPaid
<1> QED
  BY <1>1, <1>3

\* A request goes on, ends or arrives: r is where it then is.
AcGoesOn(t, r) ==
    /\ acThread' = [acThread EXCEPT ![t] = r]
    /\ r = [step |-> r.step, peer |-> r.peer, key |-> r.key, named |-> r.named, at |-> r.at]
    /\ r.at \in 0..acNow
    /\ r.step # "idle" =>
          /\ r.peer \in AcPeers
          /\ \/ acThread[t].step # "idle" /\ acThread[t].peer = r.peer
             \/ ~AcWaits(acFailures, r.peer)
    /\ acBackend \in AcTokens /\ r.step \in {"limit", "authorize", "granted"} =>
          r.key \in AcKeys /\ acLast[r.key] >= r.at - AcTtl
    /\ UNCHANGED <<acWorld, acFailures, acGhosts>>

\* The keys are those of an answer, which was current when it came.
AcCacheKept ==
    /\ acCached' \subseteq AcKeys /\ \A k \in acCached' : acLast[k] >= acFetched'
    /\ acFetched' \in Int /\ acFetched' <= acNow

LEMMA AcOfThread ==
    ASSUME AcInv, NEW t \in AcThreadIds, NEW r, AcGoesOn(t, r), AcCacheKept
    PROVE  AcInv'
<1>1. /\ acNow' = acNow /\ acBackend' = acBackend /\ acPublished' = acPublished /\ acLast' = acLast
      /\ acFailures' = acFailures /\ acFailed' = acFailed /\ acSince' = acSince
  BY DEF AcGoesOn, acWorld, acGhosts
<1>2. /\ acThread' = [u \in AcThreadIds |-> acThread'[u]] /\ acThread'[t] = r
      /\ \A u \in AcThreadIds : u # t => acThread'[u] = acThread[u]
  BY DEF AcGoesOn, AcInv, AcTyped
<1>3. AcTyped'
  <2>1. \A u \in AcThreadIds :
           /\ acThread'[u] = [step |-> acThread'[u].step, peer |-> acThread'[u].peer,
                              key |-> acThread'[u].key, named |-> acThread'[u].named,
                              at |-> acThread'[u].at]
           /\ acThread'[u].at \in 0..acNow
           /\ acThread'[u].step # "idle" => acThread'[u].peer \in AcPeers
    BY <1>2 DEF AcGoesOn, AcInv, AcTyped
  <2> QED
    BY <1>1, <1>2, <2>1 DEF AcInv, AcTyped, AcCacheKept
<1>4. AcKnown'
  <2>1. ASSUME acBackend \in AcTokens, NEW u \in AcThreadIds,
               acThread'[u].step \in {"limit", "authorize", "granted"}
        PROVE  acThread'[u].key \in AcKeys /\ acLast[acThread'[u].key] >= acThread'[u].at - AcTtl
    BY <1>2, <2>1 DEF AcGoesOn, AcInv, AcKnown
  <2> QED
    BY <1>1, <2>1 DEF AcInv, AcKnown, AcCacheKept
<1>5. AcPaid' /\ AcBuckets'
  <2>1. ASSUME NEW p \in AcPeers, AcWaits(acFailures, p), NEW u \in AcInFlight(p)'
        PROVE  u \in AcInFlight(p)
    <3>1. u \in AcThreadIds /\ acThread'[u].step # "idle" /\ acThread'[u].peer = p
      BY DEF AcInFlight
    <3>2. CASE u = t
      <4>1. acThread[t].step # "idle" /\ acThread[t].peer = p
        BY <1>2, <2>1, <3>1, <3>2 DEF AcGoesOn
      <4> QED
        BY <3>2, <4>1 DEF AcInFlight
    <3>3. CASE u # t
      BY <1>2, <3>1, <3>3 DEF AcInFlight
    <3> QED
      BY <3>2, <3>3
  <2> QED
    BY <1>1, <2>1, AcUncharged
<1> QED
  BY <1>3, <1>4, <1>5 DEF AcInv

LEMMA AcCacheStays == ASSUME AcInv, UNCHANGED <<acCached, acFetched>> PROVE AcCacheKept
  BY DEF AcInv, AcKnown, AcTyped, AcCacheKept

-----------------------------------------------------------------------------
(* The steps of a request.                                                 *)

LEMMA AcRequest ==
    ASSUME AcInv, NEW t \in AcThreadIds
    PROVE  /\ acThread[t] = [step |-> acThread[t].step, peer |-> acThread[t].peer,
                             key |-> acThread[t].key, named |-> acThread[t].named,
                             at |-> acThread[t].at]
           /\ acThread[t].at \in 0..acNow /\ acNow \in Nat /\ 0 \in 0..acNow
           /\ acThread[t].step # "idle" => acThread[t].peer \in AcPeers
           /\ acBackend \in AcTokens /\ acThread[t].step \in {"limit", "authorize", "granted"} =>
                 acThread[t].key \in AcKeys /\ acLast[acThread[t].key] >= acThread[t].at - AcTtl
  BY DEF AcInv, AcTyped, AcKnown

\* Where a request that was looked at can be: refused, at rest, or past the authentication
\* with a key of those that were found.
AcAnswered(r, found, next) ==
    /\ next = [step |-> next.step, peer |-> next.peer, key |-> next.key, named |-> next.named,
               at |-> next.at]
    /\ next.at \in {0, r.at} /\ next.step \in {"idle", "refused", "limit"}
    /\ next.step # "idle" => next.peer = r.peer
    /\ next.step = "limit" => r.key \in found /\ next.key = r.key /\ next.at = r.at

LEMMA AcFailed ==
    ASSUME NEW r, NEW found
    PROVE  AcAnswered(r, found, AcFails(r))
<1>0. PICK yes, peer : yes = TRUE /\ peer = r.peer
  OBVIOUS
<1>1. PICK next : next = [step |-> "refused", peer |-> peer, key |-> AcForged, named |-> yes,
                          at |-> 0]
  OBVIOUS
<1>2. AcFails(r) = next
  <2>1. PICK first : first = AcPeer0
    OBVIOUS
  <2>2. AcIdle = [step |-> "idle", peer |-> first, key |-> AcForged, named |-> yes, at |-> 0]
    BY <1>0, <2>1 DEF AcIdle
  <2>3. PICK o : o = AcIdle
    OBVIOUS
  <2>4. o = [step |-> "idle", peer |-> first, key |-> AcForged, named |-> yes, at |-> 0]
    BY <2>2, <2>3
  <2>5. PICK f : f = [o EXCEPT !.peer = peer, !.step = "refused"]
    OBVIOUS
  <2>6. f = [step |-> "refused", peer |-> peer, key |-> AcForged, named |-> yes, at |-> 0]
    BY <2>4, <2>5
  <2>7. AcFails(r) = f
    BY <1>0, <2>3, <2>5 DEF AcFails
  <2> QED
    BY <1>1, <2>6, <2>7
<1>3. AcAnswered(r, found, next)
  <2>1. /\ next = [step |-> next.step, peer |-> next.peer, key |-> next.key,
                   named |-> next.named, at |-> next.at]
        /\ next.step = "refused" /\ next.peer = peer /\ next.at = 0
    BY <1>1
  <2> QED
    BY <1>0, <2>1 DEF AcAnswered
<1> QED
  BY <1>2, <1>3

LEMMA AcVerified ==
    ASSUME NEW r, NEW found, NEW next \in AcVerify(r, found),
           r = [step |-> r.step, peer |-> r.peer, key |-> r.key, named |-> r.named, at |-> r.at]
    PROVE  AcAnswered(r, found, next)
<1>1. CASE next = AcFails(r)
  BY <1>1, AcFailed
<1>2. CASE next = AcIdle
  BY <1>2 DEF AcAnswered, AcIdle
<1>3. CASE r.key \in found /\ next = [r EXCEPT !.step = "limit", !.named = TRUE]
  <2>1. next = [step |-> "limit", peer |-> r.peer, key |-> r.key, named |-> TRUE, at |-> r.at]
    BY <1>3
  <2> QED
    BY <1>3, <2>1 DEF AcAnswered
<1> QED
  BY <1>1, <1>2, <1>3 DEF AcVerify, AcPrincipal

\* A request whose keys were found goes on.
LEMMA AcOfAnswer ==
    ASSUME AcInv, NEW t \in AcThreadIds, acThread[t].step # "idle", NEW r, NEW found, NEW next,
           AcAnswered(r, found, next), AcBecomes(t, next),
           r.peer = acThread[t].peer, r.at \in 0..acNow, AcCacheKept,
           UNCHANGED <<acWorld, acFailures, acGhosts>>,
           found \subseteq AcKeys,
           \A k \in found : acLast[k] >= r.at - AcTtl
    PROVE  AcInv'
<1>1. AcGoesOn(t, next)
  <2>1. acThread[t].peer \in AcPeers /\ 0 \in 0..acNow
    BY AcRequest
  <2> QED
    BY <2>1 DEF AcGoesOn, AcAnswered, AcBecomes
<1> QED
  BY <1>1, AcOfThread

\* Or fetches for its keys.
LEMMA AcOfAsking ==
    ASSUME AcInv, NEW t \in AcThreadIds, acThread[t].step # "idle", NEW r, NEW step,
           step \in {"fetch", "refetch"}, AcBecomes(t, [r EXCEPT !.step = step]),
           r = [step |-> r.step, peer |-> r.peer, key |-> r.key, named |-> r.named, at |-> r.at],
           r.peer = acThread[t].peer, r.at \in 0..acNow, AcCacheKept,
           UNCHANGED <<acWorld, acFailures, acGhosts>>
    PROVE  AcInv'
<1>1. PICK next : next = [step |-> step, peer |-> r.peer, key |-> r.key, named |-> r.named, at |-> r.at]
  OBVIOUS
<1>2. next = [r EXCEPT !.step = step]
  BY <1>1
<1>3. /\ next.step = step /\ next.peer = acThread[t].peer /\ next.at = r.at
      /\ next = [step |-> next.step, peer |-> next.peer, key |-> next.key, named |-> next.named,
                 at |-> next.at]
  BY <1>1
<1>4. acThread[t].peer \in AcPeers
  BY AcRequest
<1>5. AcGoesOn(t, next)
  BY <1>2, <1>3, <1>4 DEF AcGoesOn, AcBecomes
<1> QED
  BY <1>5, AcOfThread

LEMMA AcOfLookup ==
    ASSUME AcInv, NEW t \in AcThreadIds, acThread[t].step # "idle", NEW r, NEW keys, NEW fetched,
           AcLookup(t, r, keys, fetched),
           r = [step |-> r.step, peer |-> r.peer, key |-> r.key, named |-> r.named, at |-> r.at],
           r.peer = acThread[t].peer, r.at \in 0..acNow, AcCacheKept,
           UNCHANGED <<acWorld, acFailures, acGhosts>>,
           keys \subseteq AcKeys,
           \A k \in keys : acLast[k] >= r.at - AcTtl
    PROVE  AcInv'
<1>1. CASE AcBecomes(t, [r EXCEPT !.step = "refetch"])
  <2>1. PICK step : step = "refetch"
    OBVIOUS
  <2>2. step \in {"fetch", "refetch"} /\ AcBecomes(t, [r EXCEPT !.step = step])
    BY <1>1, <2>1
  <2> QED
    BY <2>2, AcOfAsking
<1>2. CASE \E next \in AcVerify(r, AcMatching(r, keys)) : AcBecomes(t, next)
  <2>1. PICK found : found = AcMatching(r, keys)
    OBVIOUS
  <2>2. PICK next \in AcVerify(r, found) : AcBecomes(t, next)
    BY <1>2, <2>1
  <2>3. AcAnswered(r, found, next)
    BY <2>2, AcVerified
  <2>4. found \subseteq keys
    BY <2>1 DEF AcMatching
  <2>5. found \subseteq AcKeys /\ \A k \in found : acLast[k] >= r.at - AcTtl
    BY <2>4
  <2> QED
    BY <2>2, <2>3, <2>5, AcOfAnswer
<1> QED
  BY <1>1, <1>2 DEF AcLookup

LEMMA AcOfArrive ==
    ASSUME AcInv, NEW t \in AcThreadIds, AcArrive(t)
    PROVE  AcInv'
<1>1. PICK p \in AcPeers, k \in AcKeys \cup {AcForged}, named \in BOOLEAN, sound \in BOOLEAN :
         /\ ~AcWaits(acFailures, p)
         /\ AcBecomes(t, AcCredential([AcIdle EXCEPT !.peer = p, !.key = k, !.named = named], sound))
  BY DEF AcArrive
<1>2. PICK r : r = [AcIdle EXCEPT !.peer = p, !.key = k, !.named = named]
  OBVIOUS
<1>3. r = [step |-> "idle", peer |-> p, key |-> k, named |-> named, at |-> 0]
  <2>1. PICK first, yes : first = AcPeer0 /\ yes = TRUE
    OBVIOUS
  <2>2. AcIdle = [step |-> "idle", peer |-> first, key |-> AcForged, named |-> yes, at |-> 0]
    BY <2>1 DEF AcIdle
  <2> QED
    BY <1>2, <2>2
<1>4. PICK next : next = AcCredential(r, sound)
  OBVIOUS
<1>5. /\ next = [step |-> next.step, peer |-> next.peer, key |-> next.key, named |-> next.named,
                 at |-> next.at]
      /\ next.peer = p /\ next.at = 0
      /\ acBackend \in AcTokens => next.step \notin {"limit", "authorize", "granted"}
  <2>1. \/ next = AcFails(r)
        \/ next = [r EXCEPT !.step = "limit"] /\ acBackend \notin AcTokens
        \/ next = [r EXCEPT !.step = "keys"]
    <3>1. acBackend \in {"api-key", "oidc", "gateway", "mtls"}
      BY DEF AcInv, AcKnown, AcTokens
    <3> QED
      BY <1>4, <3>1 DEF AcCredential, AcApiKey, AcOidc, AcGateway, AcMtls, AcTokens
  <2>2. CASE next = AcFails(r)
    <3>1. AcAnswered(r, {}, next) /\ next.step # "idle"
      BY <2>2, AcFailed DEF AcAnswered, AcFails, AcIdle
    <3> QED
      BY <1>3, <3>1 DEF AcAnswered
  <2>3. CASE next = [r EXCEPT !.step = "limit"] /\ acBackend \notin AcTokens
    <3>1. next = [step |-> "limit", peer |-> p, key |-> k, named |-> named, at |-> 0]
      BY <1>3, <2>3
    <3>2. /\ next = [step |-> next.step, peer |-> next.peer, key |-> next.key,
                     named |-> next.named, at |-> next.at]
          /\ next.peer = p /\ next.at = 0
      BY <3>1
    <3> QED
      BY <2>3, <3>2
  <2>4. CASE next = [r EXCEPT !.step = "keys"]
    <3>1. next = [step |-> "keys", peer |-> p, key |-> k, named |-> named, at |-> 0]
      BY <1>3, <2>4
    <3> QED
      BY <3>1
  <2> QED
    BY <2>1, <2>2, <2>3, <2>4
<1>6. AcGoesOn(t, next)
  <2>1. 0 \in 0..acNow /\ acThread' = [acThread EXCEPT ![t] = next]
    BY <1>1, <1>2, <1>4, AcRequest DEF AcBecomes
  <2> QED
    BY <1>1, <1>5, <2>1 DEF AcGoesOn, AcArrive
<1>7. AcCacheKept
  BY AcCacheStays DEF AcArrive, acCacheVars
<1> QED
  BY <1>6, <1>7, AcOfThread

LEMMA AcOfKeysStart ==
    ASSUME AcInv, NEW t \in AcThreadIds, AcKeysStart(t)
    PROVE  AcInv'
<1>1. PICK o : o = acThread[t]
  OBVIOUS
<1>2. /\ o = [step |-> o.step, peer |-> o.peer, key |-> o.key, named |-> o.named, at |-> o.at]
      /\ o.step = "keys" /\ acNow \in Nat
  BY <1>1, AcRequest DEF AcKeysStart, AcAt
<1>3. PICK r : r = [o EXCEPT !.at = acNow]
  OBVIOUS
<1>4. r = [step |-> "keys", peer |-> o.peer, key |-> o.key, named |-> o.named, at |-> acNow]
  BY <1>2, <1>3
<1>5. /\ r = [step |-> r.step, peer |-> r.peer, key |-> r.key, named |-> r.named, at |-> r.at]
      /\ r.peer = acThread[t].peer /\ r.at = acNow /\ r.at \in 0..acNow
      /\ acThread[t].step # "idle"
  BY <1>1, <1>2, <1>4
<1>6. AcCacheKept /\ UNCHANGED <<acWorld, acFailures, acGhosts>>
  BY AcCacheStays DEF AcKeysStart
<1>7. CASE AcStale
  <2>1. PICK step : step = "fetch"
    OBVIOUS
  <2>2. step \in {"fetch", "refetch"} /\ AcBecomes(t, [r EXCEPT !.step = step])
    BY <1>1, <1>3, <1>7, <2>1 DEF AcKeysStart
  <2> QED
    BY <1>5, <1>6, <2>2, AcOfAsking
<1>8. CASE ~AcStale
  <2>1. AcLookup(t, r, acCached, acFetched)
    BY <1>1, <1>3, <1>8 DEF AcKeysStart
  <2>2. acCached \subseteq AcKeys
    BY DEF AcInv, AcKnown
  <2>3. ASSUME NEW k \in acCached PROVE acLast[k] >= r.at - AcTtl
    <3>1. acLast[k] \in Nat /\ acLast[k] >= acFetched /\ acFetched \in Int
      BY DEF AcInv, AcKnown, AcTyped
    <3>2. ~(acNow - acFetched > AcTtl)
      BY <1>8 DEF AcStale
    <3> QED
      BY <1>2, <1>5, <3>1, <3>2, AcNumbers
  <2>4. PICK keys, fetched : keys = acCached /\ fetched = acFetched
    OBVIOUS
  <2>5. AcLookup(t, r, keys, fetched) /\ keys \subseteq AcKeys
        /\ \A k \in keys : acLast[k] >= r.at - AcTtl
    BY <2>1, <2>2, <2>3, <2>4
  <2> QED
    BY <1>5, <1>6, <2>5, AcOfLookup
<1> QED
  BY <1>7, <1>8

LEMMA AcOfFetch ==
    ASSUME AcInv, NEW t \in AcThreadIds, AcFetch(t)
    PROVE  AcInv'
<1>1. PICK r : r = acThread[t]
  OBVIOUS
<1>2. /\ r = [step |-> r.step, peer |-> r.peer, key |-> r.key, named |-> r.named, at |-> r.at]
      /\ r.peer = acThread[t].peer /\ r.at \in 0..acNow /\ acNow \in Nat
      /\ acThread[t].step # "idle"
  BY <1>1, AcRequest DEF AcFetch, AcAt
<1>3. PICK keys, fetched : keys = acPublished /\ fetched = acNow
  OBVIOUS
<1>4. keys \subseteq AcKeys /\ \A k \in keys : acLast[k] = acNow
  BY <1>3 DEF AcInv, AcKnown
<1>5. AcCacheKept
  <2>1. acCached' = keys /\ acFetched' = acNow
    BY <1>3 DEF AcFetch
  <2> QED
    BY <1>2, <1>4, <2>1 DEF AcCacheKept
<1>6. UNCHANGED <<acWorld, acFailures, acGhosts>>
  BY DEF AcFetch
<1>7. \A k \in keys : acLast[k] >= r.at - AcTtl
  BY <1>2, <1>4, AcNumbers
<1>8. CASE AcLookup(t, acThread[t], acPublished, acNow)
  <2>1. AcLookup(t, r, keys, fetched)
    BY <1>1, <1>3, <1>8
  <2> QED
    BY <1>2, <1>4, <1>5, <1>6, <1>7, <2>1, AcOfLookup
<1>9. CASE \E next \in AcVerify(acThread[t], AcMatching(acThread[t], acPublished)) :
              AcBecomes(t, next)
  <2>1. PICK found : found = AcMatching(r, keys)
    OBVIOUS
  <2>2. PICK next \in AcVerify(r, found) : AcBecomes(t, next)
    BY <1>1, <1>3, <1>9, <2>1
  <2>3. AcAnswered(r, found, next)
    BY <1>2, <2>2, AcVerified
  <2>4. found \subseteq keys
    BY <2>1 DEF AcMatching
  <2>5. found \subseteq AcKeys /\ \A k \in found : acLast[k] >= r.at - AcTtl
    BY <1>4, <1>7, <2>4
  <2> QED
    BY <1>2, <1>5, <1>6, <2>2, <2>3, <2>5, AcOfAnswer
<1> QED
  BY <1>8, <1>9 DEF AcFetch

LEMMA AcOfFetchFails ==
    ASSUME AcInv, NEW t \in AcThreadIds, AcFetchFails(t)
    PROVE  AcInv'
<1>1. PICK r, found, next : r = acThread[t] /\ found = {} /\ next = AcFails(acThread[t])
  OBVIOUS
<1>2. r.peer = acThread[t].peer /\ r.at \in 0..acNow /\ acThread[t].step # "idle"
  BY <1>1, AcRequest DEF AcFetchFails
<1>3. AcAnswered(r, found, next)
  BY <1>1, AcFailed
<1>4. /\ AcBecomes(t, next) /\ AcCacheKept /\ UNCHANGED <<acWorld, acFailures, acGhosts>>
      /\ found \subseteq AcKeys /\ \A k \in found : acLast[k] >= r.at - AcTtl
  BY <1>1, AcCacheStays DEF AcFetchFails
<1> QED
  BY <1>2, <1>3, <1>4, AcOfAnswer

\* The rate limit, the policy and the answer.
LEMMA AcOfPermission ==
    ASSUME AcInv, NEW t \in AcThreadIds, AcLimit(t) \/ AcAuthorize(t) \/ AcServed(t)
    PROVE  AcInv'
<1>1. PICK o : o = acThread[t]
  OBVIOUS
<1>2. /\ o = [step |-> o.step, peer |-> o.peer, key |-> o.key, named |-> o.named, at |-> o.at]
      /\ o.step \in {"limit", "authorize", "granted"} /\ o.at \in 0..acNow /\ 0 \in 0..acNow
      /\ o.peer \in AcPeers
      /\ acBackend \in AcTokens => o.key \in AcKeys /\ acLast[o.key] >= o.at - AcTtl
  BY <1>1, AcRequest DEF AcLimit, AcAuthorize, AcServed, AcAt
<1>3. AcCacheKept /\ UNCHANGED <<acWorld, acFailures, acGhosts>>
  BY AcCacheStays DEF AcLimit, AcAuthorize, AcServed, acCacheVars
<1>4. CASE acThread' = [acThread EXCEPT ![t] = AcIdle]
  <2>1. PICK r : r = AcIdle
    OBVIOUS
  <2>2. AcGoesOn(t, r)
    <3>1. /\ r = [step |-> r.step, peer |-> r.peer, key |-> r.key, named |-> r.named, at |-> r.at]
          /\ r.step = "idle" /\ r.at = 0
      BY <2>1 DEF AcIdle
    <3> QED
      BY <1>2, <1>3, <1>4, <2>1, <3>1 DEF AcGoesOn
  <2> QED
    BY <1>3, <2>2, AcOfThread
<1>5. ASSUME NEW step \in {"authorize", "granted"}, acThread' = [acThread EXCEPT ![t].step = step]
      PROVE  AcInv'
  <2>1. PICK r : r = [step |-> step, peer |-> o.peer, key |-> o.key, named |-> o.named, at |-> o.at]
    OBVIOUS
  <2>2. [o EXCEPT !.step = step] = r
    BY <1>2, <2>1
  <2>3. acThread' = [acThread EXCEPT ![t] = r]
    BY <1>1, <1>5, <2>2 DEF AcInv, AcTyped
  <2>4. /\ r = [step |-> r.step, peer |-> r.peer, key |-> r.key, named |-> r.named, at |-> r.at]
        /\ r.peer = o.peer /\ r.key = o.key /\ r.at = o.at
    BY <2>1
  <2>5. AcGoesOn(t, r)
    BY <1>1, <1>2, <1>3, <2>3, <2>4 DEF AcGoesOn
  <2> QED
    BY <1>3, <2>5, AcOfThread
<1>6. \/ acThread' = [acThread EXCEPT ![t] = AcIdle]
      \/ acThread' = [acThread EXCEPT ![t].step = "authorize"]
      \/ acThread' = [acThread EXCEPT ![t].step = "granted"]
  BY DEF AcLimit, AcAuthorize, AcServed
<1> QED
  BY <1>4, <1>5, <1>6

-----------------------------------------------------------------------------
(* Charging, and the clock.                                                *)

LEMMA AcGrows ==
    ASSUME NEW n \in Nat, NEW x \in Int, NEW y \in Int, x <= y
    PROVE  n * x \in Int /\ n * y \in Int /\ n * x <= n * y
<1>1. PICK d \in Nat : y = x + d
  <2>1. y - x \in Nat /\ y = x + (y - x)
    OBVIOUS
  <2> QED
    BY <2>1
<1>2. n * y = n * x + n * d
  BY <1>1
<1>3. n * d \in Nat /\ n * x \in Int
  BY <1>1
<1>4. n * x + n * d \in Int /\ n * x <= n * x + n * d
  BY <1>3
<1> QED
  BY <1>2, <1>3, <1>4

\* One token that was spent covers as many failures as requests can be in flight.
LEMMA AcCovers ==
    ASSUME NEW f \in Nat, NEW c \in Nat, NEW s \in Int, c <= AcThreads,
           f * AcWhole <= AcThreads * s
    PROVE  (f + c) * AcWhole <= AcThreads * (s + AcWhole)
<1>1. PICK w \in Nat, n \in Nat : w = AcWhole /\ n = AcThreads
  BY AcNumbers
<1>2. (f + c) * w = f * w + c * w /\ n * (s + w) = n * s + n * w
  BY <1>1
<1>3. w * c <= w * n /\ w * c = c * w /\ w * n = n * w
  BY <1>1, AcGrows
<1>4. f * w \in Int /\ c * w \in Int /\ n * s \in Int /\ n * w \in Int /\ f * w <= n * s
  BY <1>1
<1>5. c * w <= n * w
  BY <1>3
<1>6. f * w + c * w <= n * s + n * w
  BY <1>4, <1>5
<1> QED
  BY <1>1, <1>2, <1>6

LEMMA AcFewer ==
    ASSUME NEW f \in Nat, NEW g \in Nat, NEW s \in Int, NEW z \in Int, f <= g, s <= z,
           g * AcWhole <= AcThreads * s
    PROVE  f * AcWhole <= AcThreads * z
<1>1. PICK w \in Nat, n \in Nat : w = AcWhole /\ n = AcThreads
  BY AcNumbers
<1>2. w * f <= w * g /\ w * f = f * w /\ w * g = g * w /\ f * w \in Int /\ g * w \in Int
  BY <1>1, AcGrows
<1>3. n * s <= n * z /\ n * s \in Int /\ n * z \in Int
  BY <1>1, AcGrows
<1>4. g * w <= n * s
  BY <1>1
<1>5. f * w <= g * w
  BY <1>2
<1>6. f * w <= n * z
  BY <1>2, <1>3, <1>4, <1>5
<1> QED
  BY <1>1, <1>6

LEMMA AcOfRefused ==
    ASSUME AcInv, NEW t \in AcThreadIds, AcRefused(t)
    PROVE  AcInv'
<1>1. PICK p : p = acThread[t].peer
  OBVIOUS
<1>2. PICK gone : gone = DOMAIN acFailures.level \ DOMAIN acFailures'.level
  OBVIOUS
<1>3. /\ acThread[t].step # "idle" /\ p \in AcPeers
      /\ acFailures' = AcTake(acFailures, p)
      /\ acFailed' = [q \in AcPeers |-> IF q \in gone THEN 0
                                        ELSE acFailed[q] + (IF q = p THEN 1 ELSE 0)]
      /\ acSince' = [q \in AcPeers |->
            IF q \in gone \/ (q = p /\ p \notin DOMAIN acFailures.level)
            THEN acNow ELSE acSince[q]]
      /\ acThread' = [acThread EXCEPT ![t] = AcIdle]
      /\ acCached' = acCached /\ acFetched' = acFetched
      /\ acNow' = acNow /\ acBackend' = acBackend /\ acPublished' = acPublished /\ acLast' = acLast
  <2>1. p \in AcPeers /\ acThread[t].step # "idle"
    BY <1>1, AcRequest DEF AcRefused, AcAt
  <2> QED
    BY <1>1, <1>2, <2>1 DEF AcRefused, AcCharge, acWorld, acCacheVars
<1>4. /\ acThread' = [u \in AcThreadIds |-> acThread'[u]] /\ acThread'[t] = AcIdle
      /\ \A u \in AcThreadIds : u # t => acThread'[u] = acThread[u]
  BY <1>3 DEF AcInv, AcTyped
<1>5. acNow \in Nat /\ 0 \in 0..acNow /\ acNow \in 0..acNow
  BY DEF AcInv, AcTyped
<1>6. /\ AcIdle = [step |-> AcIdle.step, peer |-> AcIdle.peer, key |-> AcIdle.key,
                   named |-> AcIdle.named, at |-> AcIdle.at]
      /\ AcIdle.at = 0 /\ AcIdle.step = "idle"
  BY DEF AcIdle
<1>7. AcTyped'
  <2>1. \A u \in AcThreadIds :
           /\ acThread'[u] = [step |-> acThread'[u].step, peer |-> acThread'[u].peer,
                              key |-> acThread'[u].key, named |-> acThread'[u].named,
                              at |-> acThread'[u].at]
           /\ acThread'[u].at \in 0..acNow
           /\ acThread'[u].step # "idle" => acThread'[u].peer \in AcPeers
    BY <1>4, <1>5, <1>6 DEF AcInv, AcTyped
  <2>2. ASSUME NEW q \in AcPeers PROVE acFailed'[q] \in Nat /\ acSince'[q] \in 0..acNow
    <3>1. acFailed[q] \in Nat /\ acSince[q] \in 0..acNow
      BY DEF AcInv, AcTyped
    <3> QED
      BY <1>3, <1>5, <3>1
  <2>3. acFailed' = [q \in AcPeers |-> acFailed'[q]] /\ acSince' = [q \in AcPeers |-> acSince'[q]]
    BY <1>3
  <2> QED
    BY <1>3, <1>4, <2>1, <2>2, <2>3 DEF AcInv, AcTyped
<1>8. AcKnown'
  BY <1>3, <1>4, <1>6 DEF AcInv, AcKnown
<1>9. PICK before, after : before = acFailures /\ after = acFailures'
  OBVIOUS
<1>10. /\ after.lru \in Seq(AcPeers) /\ DOMAIN after.level = ToSet(after.lru)
       /\ p \in DOMAIN after.level /\ DOMAIN after.level \subseteq DOMAIN before.level \cup {p}
       /\ after.level[p] = [tokens |-> AcLevel(before, p) - (IF AcWaits(before, p) THEN 0 ELSE AcWhole),
                            at |-> acNow]
       /\ \A q \in DOMAIN after.level : q # p => after.level[q] = before.level[q]
  <2>1. before.lru \in Seq(AcPeers) /\ DOMAIN before.level = ToSet(before.lru)
    BY <1>9 DEF AcInv, AcBuckets
  <2>2. after = AcTake(before, p)
    BY <1>3, <1>9
  <2>3. PICK S : S = AcPeers
    OBVIOUS
  <2>4. before.lru \in Seq(S) /\ p \in S
    BY <1>3, <2>1, <2>3
  <2>5. /\ after.lru \in Seq(S) /\ DOMAIN after.level = ToSet(after.lru)
        /\ p \in DOMAIN after.level /\ DOMAIN after.level \subseteq DOMAIN before.level \cup {p}
        /\ after.level[p] = [tokens |-> AcLevel(before, p)
                                  - (IF AcWaits(before, p) THEN 0 ELSE AcWhole), at |-> acNow]
        /\ \A q \in DOMAIN after.level : q # p => after.level[q] = before.level[q]
    BY <2>1, <2>2, <2>4, AcTakes
  <2> QED
    BY <2>3, <2>5
<1>11. PICK level : level = AcLevel(before, p)
  OBVIOUS
<1>12. level \in 0..AcFull
  BY <1>3, <1>9, <1>11, AcLevels
<1>13. PICK spent : spent = IF AcWaits(before, p) THEN 0 ELSE AcWhole
  OBVIOUS
<1>14. /\ spent \in {0, AcWhole} /\ level - spent \in 0..AcFull
       /\ spent = 0 => level < AcWhole
       /\ spent = AcWhole => level >= AcWhole
  <2>1. AcWaits(before, p) <=> level < AcWhole
    BY <1>11 DEF AcWaits
  <2> QED
    BY <1>12, <1>13, <2>1, AcNumbers
<1>15. after.level[p].tokens = level - spent /\ after.level[p].at = acNow
  BY <1>10, <1>11, <1>13
<1>16. AcBuckets'
  <2>1. ASSUME NEW q \in DOMAIN after.level
        PROVE  after.level[q].tokens \in 0..AcFull /\ after.level[q].at \in 0..acNow
    <3>1. CASE q = p
      BY <1>5, <1>14, <1>15, <3>1
    <3>2. CASE q # p
      <4>1. q \in DOMAIN before.level /\ after.level[q] = before.level[q]
        BY <1>10, <2>1, <3>2
      <4> QED
        BY <1>9, <4>1 DEF AcInv, AcBuckets
    <3> QED
      BY <3>1, <3>2
  <2> QED
    BY <1>3, <1>9, <1>10, <2>1 DEF AcBuckets
<1>17. AcLevel(acFailures, p)' = level - spent
  <2>1. PICK kept : kept = level - spent
    OBVIOUS
  <2>2. kept \in Int /\ kept <= AcFull /\ AcFull \in Int
    BY <1>14, <2>1, AcNumbers
  <2>3. kept + (acNow - acNow) = kept
    BY <1>5, <2>2
  <2>4. AcLevel(acFailures, p)' = Min({AcFull, kept})
    BY <1>3, <1>9, <1>10, <1>15, <2>1, <2>3 DEF AcLevel, AcFull
  <2>5. Min({AcFull, kept}) \in {AcFull, kept} /\ Min({AcFull, kept}) <= kept
    BY <2>2, AcMin
  <2> QED
    BY <2>1, <2>2, <2>4, <2>5
<1>18. \A q \in AcPeers : AcInFlight(q)' \subseteq AcInFlight(q)
  BY <1>4, <1>6 DEF AcInFlight
<1>19. t \in AcInFlight(p) /\ t \notin AcInFlight(p)'
  BY <1>1, <1>3, <1>4, <1>6 DEF AcInFlight
<1>20. PICK m, n : m = Cardinality(AcInFlight(p)') /\ n = Cardinality(AcInFlight(p))
  OBVIOUS
<1>21. m \in Nat /\ n \in Nat /\ m + 1 <= n /\ n <= AcThreads
  <2>1. PICK P, Q : P = AcInFlight(p) /\ Q = AcInFlight(p)'
    OBVIOUS
  <2>2. P \subseteq AcThreadIds /\ P \ {t} \subseteq AcThreadIds /\ t \in P /\ Q \in SUBSET (P \ {t})
    BY <1>3, <1>18, <1>19, <2>1 DEF AcInFlight
  <2>3. n = Cardinality(P) /\ m = Cardinality(Q)
    BY <1>20, <2>1
  <2>4. n \in Nat /\ n <= AcThreads /\ Cardinality(P \ {t}) = n - 1
    BY <2>2, <2>3, AcFlights
  <2>5. m \in Nat /\ m <= Cardinality(P \ {t})
    BY <2>2, <2>3, AcFlights
  <2> QED
    BY <2>4, <2>5
<1>22. PICK s, f : s = AcSpent(p) /\ f = acFailed[p]
  OBVIOUS
<1>23. /\ s \in Int /\ f \in Nat /\ f * AcWhole <= AcThreads * s
       /\ p \notin DOMAIN before.level => f = 0
       /\ spent = 0 => (f + n) * AcWhole <= AcThreads * s /\ p \in DOMAIN before.level
  <2>1. /\ s \in Int /\ f \in Nat
        /\ AcWaits(acFailures, p) => p \in DOMAIN acFailures.level
    BY <1>3, <1>22, AcLevels
  <2>2. /\ p \notin DOMAIN acFailures.level => f = 0
        /\ f * AcWhole <= AcThreads * s
        /\ AcWaits(acFailures, p) => (f + n) * AcWhole <= AcThreads * s
    BY <1>3, <1>20, <1>22 DEF AcInv, AcPaid
  <2>3. spent = 0 => AcWaits(before, p)
    BY <1>13, AcNumbers
  <2> QED
    BY <1>9, <2>1, <2>2, <2>3
<1>24. /\ acFailed'[p] = f + 1
       /\ AcSpent(p)' = s + spent \/ (f = 0 /\ spent = AcWhole /\ AcSpent(p)' = spent)
  <2>1. p \notin gone
    BY <1>2, <1>9, <1>10
  <2>2. AcSpent(p)' = AcFull + (acNow - acSince'[p]) - (level - spent)
    BY <1>3, <1>17 DEF AcSpent
  <2>3. CASE p \in DOMAIN before.level
    <3>1. acSince'[p] = acSince[p]
      BY <1>3, <1>9, <2>1, <2>3
    <3>2. s = AcFull + (acNow - acSince[p]) - level
      BY <1>9, <1>11, <1>22 DEF AcSpent
    <3>3. acSince[p] \in Nat
      BY <1>3 DEF AcInv, AcTyped
    <3> QED
      BY <1>3, <1>5, <1>12, <1>14, <1>22, <2>1, <2>2, <3>1, <3>2, <3>3, AcNumbers
  <2>4. CASE p \notin DOMAIN before.level
    <3>1. acSince'[p] = acNow /\ level = AcFull /\ f = 0
      BY <1>3, <1>9, <1>11, <1>23, <2>4, AcLevels
    <3>2. spent = AcWhole
      BY <1>14, <1>23, <2>4
    <3>3. AcSpent(p)' = spent
      BY <1>5, <2>2, <3>1, <3>2, AcNumbers
    <3> QED
      BY <1>3, <1>22, <2>1, <3>1, <3>2, <3>3
  <2> QED
    BY <2>3, <2>4
<1>25. /\ acFailed'[p] * AcWhole <= AcThreads * AcSpent(p)'
       /\ (acFailed'[p] + m) * AcWhole <= AcThreads * AcSpent(p)'
  <2>1. 1 \in Nat /\ m + 1 \in Nat /\ 1 <= AcThreads /\ m + 1 <= AcThreads /\ f + (m + 1) = f + 1 + m
    BY <1>21, <1>23, AcNumbers
  <2>2. CASE spent = AcWhole /\ AcSpent(p)' = s + spent
    <3>1. (f + 1) * AcWhole <= AcThreads * (s + AcWhole)
      BY <1>23, <2>1, AcCovers
    <3>2. (f + (m + 1)) * AcWhole <= AcThreads * (s + AcWhole)
      BY <1>23, <2>1, AcCovers
    <3> QED
      BY <1>24, <2>1, <2>2, <3>1, <3>2
  <2>3. CASE f = 0 /\ spent = AcWhole /\ AcSpent(p)' = spent
    <3>1. 0 \in Nat /\ 0 \in Int /\ 0 * AcWhole <= AcThreads * 0
      BY AcNumbers
    <3>2. (0 + 1) * AcWhole <= AcThreads * (0 + AcWhole)
      BY <2>1, <3>1, AcCovers
    <3>3. (0 + (m + 1)) * AcWhole <= AcThreads * (0 + AcWhole)
      BY <2>1, <3>1, AcCovers
    <3>4. 0 + AcWhole = AcWhole
      BY AcNumbers
    <3> QED
      BY <1>24, <2>1, <2>3, <3>2, <3>3, <3>4
  <2>4. CASE spent = 0 /\ AcSpent(p)' = s + spent
    <3>1. AcSpent(p)' = s /\ (f + n) * AcWhole <= AcThreads * s
      BY <1>23, <2>4
    <3>2. f + 1 \in Nat /\ f + 1 + m \in Nat /\ f + n \in Nat /\ f + 1 <= f + n /\ f + 1 + m <= f + n
      BY <1>21, <1>23
    <3>3. (f + 1) * AcWhole <= AcThreads * s
      BY <1>23, <3>1, <3>2, AcFewer
    <3>4. (f + 1 + m) * AcWhole <= AcThreads * s
      BY <1>23, <3>1, <3>2, AcFewer
    <3> QED
      BY <1>24, <3>1, <3>3, <3>4
  <2> QED
    BY <1>14, <1>24, <2>2, <2>3, <2>4
<1>26. ASSUME NEW q \in AcPeers
       PROVE  /\ q \notin DOMAIN acFailures'.level => acFailed'[q] = 0
              /\ acFailed'[q] * AcWhole <= AcThreads * AcSpent(q)'
              /\ AcWaits(acFailures, q)' =>
                    (acFailed'[q] + Cardinality(AcInFlight(q)')) * AcWhole <= AcThreads * AcSpent(q)'
  <2>1. CASE q = p
    BY <1>9, <1>10, <1>20, <1>25, <2>1
  <2>2. CASE q \in gone
    <3>1. q \notin DOMAIN acFailures'.level /\ acFailed'[q] = 0 /\ acSince'[q] = acNow
      BY <1>2, <1>3, <2>2
    <3>2. AcLevel(acFailures, q)' = AcFull
      BY <3>1 DEF AcLevel, AcFull
    <3>3. AcSpent(q)' = 0
      BY <1>3, <1>5, <3>1, <3>2, AcNumbers DEF AcSpent
    <3>4. ~AcWaits(acFailures, q)'
      BY <3>2, AcNumbers DEF AcWaits
    <3>5. 0 * AcWhole <= AcThreads * 0
      BY AcNumbers
    <3> QED
      BY <3>1, <3>3, <3>4, <3>5
  <2>3. CASE q # p /\ q \notin gone
    <3>1. /\ q \in DOMAIN after.level <=> q \in DOMAIN before.level
          /\ q \in DOMAIN after.level => after.level[q] = before.level[q]
      BY <1>2, <1>9, <1>10, <2>3
    <3>2. AcLevel(acFailures, q)' = AcLevel(acFailures, q)
      BY <1>3, <1>9, <3>1 DEF AcLevel
    <3>3. acFailed'[q] = acFailed[q] /\ acSince'[q] = acSince[q]
      <4>1. acFailed[q] \in Nat
        BY DEF AcInv, AcTyped
      <4> QED
        BY <1>3, <2>3, <4>1
    <3>4. AcSpent(q)' = AcSpent(q) /\ AcWaits(acFailures, q)' = AcWaits(acFailures, q)
      BY <1>3, <3>2, <3>3 DEF AcSpent, AcWaits
    <3>5. /\ q \notin DOMAIN acFailures.level => acFailed[q] = 0
          /\ acFailed[q] * AcWhole <= AcThreads * AcSpent(q)
          /\ AcWaits(acFailures, q) =>
                (acFailed[q] + Cardinality(AcInFlight(q))) * AcWhole <= AcThreads * AcSpent(q)
      BY DEF AcInv, AcPaid
    <3>6. PICK j, k : j = Cardinality(AcInFlight(q)') /\ k = Cardinality(AcInFlight(q))
      OBVIOUS
    <3>7. j \in Nat /\ k \in Nat /\ j <= k
      <4>1. AcInFlight(q) \subseteq AcThreadIds /\ AcInFlight(q)' \in SUBSET AcInFlight(q)
        BY <1>18 DEF AcInFlight
      <4> QED
        BY <3>6, <4>1, AcFlights
    <3>8. acFailed[q] \in Nat /\ AcSpent(q) \in Int
      BY AcLevels
    <3>9. ASSUME AcWaits(acFailures, q)
          PROVE  (acFailed[q] + j) * AcWhole <= AcThreads * AcSpent(q)
      <4>1. PICK g, z : g = acFailed[q] /\ z = AcSpent(q)
        OBVIOUS
      <4>2. g + j \in Nat /\ g + k \in Nat /\ g + j <= g + k /\ z \in Int /\ z <= z
        BY <3>7, <3>8, <4>1
      <4>3. (g + k) * AcWhole <= AcThreads * z
        BY <3>5, <3>6, <3>9, <4>1
      <4>4. (g + j) * AcWhole <= AcThreads * z
        BY <4>2, <4>3, AcFewer
      <4> QED
        BY <4>1, <4>4
    <3> QED
      BY <1>9, <3>1, <3>3, <3>4, <3>5, <3>6, <3>9
  <2> QED
    BY <2>1, <2>2, <2>3
<1>27. AcPaid'
  BY <1>26 DEF AcPaid
<1> QED
  BY <1>7, <1>8, <1>16, <1>27 DEF AcInv

\* A bucket fills by at most one fraction per tick.
LEMMA AcOfTick ==
    ASSUME AcInv, AcTick
    PROVE  AcInv'
<1>1. /\ acNow' = acNow + 1 /\ acBackend' = acBackend /\ acPublished' = acPublished
      /\ acLast' = [k \in AcKeys |-> IF k \in acPublished THEN acNow + 1 ELSE acLast[k]]
      /\ acCached' = acCached /\ acFetched' = acFetched /\ acThread' = acThread
      /\ acFailures' = acFailures /\ acFailed' = acFailed /\ acSince' = acSince
  BY DEF AcTick, acCacheVars, acGhosts
<1>2. acNow \in Nat /\ acNow' \in Nat /\ \A i \in 0..acNow : i \in 0..acNow'
  BY <1>1 DEF AcInv, AcTyped
<1>3. ASSUME NEW k \in AcKeys
      PROVE  acLast'[k] \in 0..acNow' /\ acLast[k] \in Int /\ acLast'[k] >= acLast[k]
  <2>1. acLast[k] \in 0..acNow
    BY DEF AcInv, AcTyped
  <2> QED
    BY <1>1, <1>2, <2>1
<1>4. AcTyped'
  <2>1. acFetched \in Int /\ acFetched <= acNow'
    BY <1>1, <1>2 DEF AcInv, AcTyped
  <2>2. acLast' = [k \in AcKeys |-> acLast'[k]]
    BY <1>1
  <2> QED
    BY <1>1, <1>2, <1>3, <2>1, <2>2 DEF AcInv, AcTyped
<1>5. AcKnown'
  <2>1. ASSUME NEW k \in acCached PROVE acLast'[k] >= acFetched
    <3>1. k \in AcKeys /\ acLast[k] >= acFetched /\ acFetched \in Int
      BY DEF AcInv, AcKnown, AcTyped
    <3>2. acLast'[k] \in Int
      BY <1>2, <1>3, <3>1
    <3> QED
      BY <1>3, <3>1, <3>2
  <2>2. ASSUME acBackend \in AcTokens, NEW t \in AcThreadIds,
               acThread[t].step \in {"limit", "authorize", "granted"}
        PROVE  acThread[t].key \in AcKeys /\ acLast'[acThread[t].key] >= acThread[t].at - AcTtl
    <3>0. acThread[t].at \in Int
      <4>1. acThread[t].at \in 0..acNow
        BY DEF AcInv, AcTyped
      <4> QED
        BY <1>2, <4>1
    <3>1. acThread[t].key \in AcKeys /\ acLast[acThread[t].key] >= acThread[t].at - AcTtl
      BY <2>2 DEF AcInv, AcKnown
    <3>2. acLast'[acThread[t].key] \in Int
      BY <1>2, <1>3, <3>1
    <3> QED
      BY <1>3, <3>0, <3>1, <3>2, AcNumbers
  <2>3. \A k \in acPublished : acLast'[k] = acNow'
    BY <1>1 DEF AcInv, AcKnown
  <2> QED
    BY <1>1, <2>1, <2>2, <2>3 DEF AcInv, AcKnown
<1>6. AcBuckets'
  BY <1>1, <1>2 DEF AcInv, AcBuckets
<1>7. ASSUME NEW p \in AcPeers
      PROVE  /\ AcSpent(p) \in Int /\ AcSpent(p)' \in Int /\ AcSpent(p) <= AcSpent(p)'
             /\ AcWaits(acFailures, p)' => AcWaits(acFailures, p)
  <2>1. PICK full : full = AcFull
    OBVIOUS
  <2>2. full \in Nat /\ AcWhole \in Nat
    BY <2>1, AcNumbers
  <2>3. PICK level, after : level = AcLevel(acFailures, p) /\ after = AcLevel(acFailures, p)'
    OBVIOUS
  <2>4. level \in Int /\ after \in Int /\ level <= after /\ after <= level + 1
    <3>1. CASE p \notin DOMAIN acFailures.level
      BY <1>1, <2>1, <2>2, <2>3, <3>1 DEF AcLevel, AcFull
    <3>2. CASE p \in DOMAIN acFailures.level
      <4>1. PICK tokens, at : tokens = acFailures.level[p].tokens /\ at = acFailures.level[p].at
        OBVIOUS
      <4>2. tokens \in Nat /\ at \in Nat /\ at <= acNow
        BY <1>2, <3>2, <4>1 DEF AcInv, AcBuckets
      <4>3. PICK x, y : x = tokens + (acNow - at) /\ y = tokens + (acNow' - at)
        OBVIOUS
      <4>4. x \in Int /\ y = x + 1
        BY <1>1, <1>2, <4>2, <4>3
      <4>5. level = Min({full, x})
        BY <2>1, <2>3, <3>2, <4>1, <4>3 DEF AcLevel, AcFull
      <4>6. after = Min({full, y})
        BY <1>1, <2>1, <2>3, <3>2, <4>1, <4>3 DEF AcLevel, AcFull
      <4>7. /\ Min({full, x}) \in {full, x} /\ Min({full, x}) <= full /\ Min({full, x}) <= x
            /\ Min({full, y}) \in {full, y} /\ Min({full, y}) <= full /\ Min({full, y}) <= y
        BY <2>2, <4>4, AcMin
      <4> QED
        BY <2>2, <4>4, <4>5, <4>6, <4>7
    <3> QED
      BY <3>1, <3>2
  <2>5. acSince[p] \in Int
    BY DEF AcInv, AcTyped
  <2>6. AcSpent(p) = full + (acNow - acSince[p]) - level
        /\ AcSpent(p)' = full + (acNow' - acSince[p]) - after
    BY <1>1, <2>1, <2>3 DEF AcSpent, AcFull
  <2>7. (AcWaits(acFailures, p) <=> level < AcWhole) /\ (AcWaits(acFailures, p)' <=> after < AcWhole)
    BY <2>3 DEF AcWaits
  <2>8. after < AcWhole => level < AcWhole
    BY <2>2, <2>4
  <2>9. AcWaits(acFailures, p)' => AcWaits(acFailures, p)
    BY <2>7, <2>8
  <2>10. AcSpent(p) \in Int /\ AcSpent(p)' \in Int /\ AcSpent(p) <= AcSpent(p)'
    BY <1>1, <1>2, <2>2, <2>4, <2>5, <2>6
  <2> QED
    BY <2>9, <2>10
<1>8. ASSUME NEW p \in AcPeers
      PROVE  /\ p \notin DOMAIN acFailures'.level => acFailed'[p] = 0
             /\ acFailed'[p] * AcWhole <= AcThreads * AcSpent(p)'
             /\ AcWaits(acFailures, p)' =>
                   (acFailed'[p] + Cardinality(AcInFlight(p)')) * AcWhole <= AcThreads * AcSpent(p)'
  <2>1. PICK f, s, z : f = acFailed[p] /\ s = AcSpent(p) /\ z = AcSpent(p)'
    OBVIOUS
  <2>2. PICK n : n = Cardinality(AcInFlight(p))
    OBVIOUS
  <2>3. f \in Nat /\ n \in Nat /\ f + n \in Nat /\ f <= f /\ f + n <= f + n
    <3>1. f \in Nat
      BY <2>1 DEF AcInv, AcTyped
    <3>2. AcInFlight(p) \subseteq AcThreadIds
      BY DEF AcInFlight
    <3>3. n \in Nat
      BY <2>2, <3>2, AcFlights
    <3> QED
      BY <3>1, <3>3
  <2>4. s \in Int /\ z \in Int /\ s <= z
    BY <1>7, <2>1
  <2>5. /\ p \notin DOMAIN acFailures.level => f = 0
        /\ f * AcWhole <= AcThreads * s
        /\ AcWaits(acFailures, p) => (f + n) * AcWhole <= AcThreads * s
    BY <2>1, <2>2 DEF AcInv, AcPaid
  <2>6. f * AcWhole <= AcThreads * z
    BY <2>3, <2>4, <2>5, AcFewer
  <2>7. ASSUME AcWaits(acFailures, p)' PROVE (f + n) * AcWhole <= AcThreads * z
    <3>1. (f + n) * AcWhole <= AcThreads * s
      BY <1>7, <2>5, <2>7
    <3> QED
      BY <2>3, <2>4, <3>1, AcFewer
  <2>8. AcInFlight(p)' = AcInFlight(p)
    BY <1>1 DEF AcInFlight
  <2> QED
    BY <1>1, <2>1, <2>2, <2>5, <2>6, <2>7, <2>8
<1>9. AcPaid'
  BY <1>8 DEF AcPaid
<1> QED
  BY <1>4, <1>5, <1>6, <1>9 DEF AcInv

\* What is published now is dated now.
LEMMA AcOfRotate ==
    ASSUME AcInv, AcRotate
    PROVE  AcInv'
<1>1. /\ acNow' = acNow /\ acBackend' = acBackend /\ acPublished' \subseteq AcKeys
      /\ acLast' = [k \in AcKeys |-> IF k \in acPublished' THEN acNow ELSE acLast[k]]
      /\ acCached' = acCached /\ acFetched' = acFetched /\ acThread' = acThread
      /\ acFailures' = acFailures /\ acFailed' = acFailed /\ acSince' = acSince
  BY DEF AcRotate, acCacheVars, acGhosts
<1>2. acNow \in Nat
  BY DEF AcInv, AcTyped
<1>3. ASSUME NEW k \in AcKeys
      PROVE  acLast'[k] \in 0..acNow /\ acLast[k] \in Int /\ acLast'[k] >= acLast[k]
  <2>1. acLast[k] \in 0..acNow
    BY DEF AcInv, AcTyped
  <2> QED
    BY <1>1, <1>2, <2>1
<1>4. AcTyped'
  <2>1. acLast' = [k \in AcKeys |-> acLast'[k]]
    BY <1>1
  <2> QED
    BY <1>1, <1>2, <1>3, <2>1 DEF AcInv, AcTyped
<1>5. AcKnown'
  <2>1. ASSUME NEW k \in acCached PROVE acLast'[k] >= acFetched
    <3>1. k \in AcKeys /\ acLast[k] >= acFetched /\ acFetched \in Int
      BY DEF AcInv, AcKnown, AcTyped
    <3>2. acLast'[k] \in Int
      BY <1>2, <1>3, <3>1
    <3> QED
      BY <1>3, <3>1, <3>2
  <2>2. ASSUME acBackend \in AcTokens, NEW t \in AcThreadIds,
               acThread[t].step \in {"limit", "authorize", "granted"}
        PROVE  acThread[t].key \in AcKeys /\ acLast'[acThread[t].key] >= acThread[t].at - AcTtl
    <3>0. acThread[t].at \in Int
      <4>1. acThread[t].at \in 0..acNow
        BY DEF AcInv, AcTyped
      <4> QED
        BY <1>2, <4>1
    <3>1. acThread[t].key \in AcKeys /\ acLast[acThread[t].key] >= acThread[t].at - AcTtl
      BY <2>2 DEF AcInv, AcKnown
    <3>2. acLast'[acThread[t].key] \in Int
      BY <1>2, <1>3, <3>1
    <3> QED
      BY <1>3, <3>0, <3>1, <3>2, AcNumbers
  <2>3. \A k \in acPublished' : acLast'[k] = acNow'
    BY <1>1
  <2> QED
    BY <1>1, <2>1, <2>2, <2>3 DEF AcInv, AcKnown
<1>6. AcPaid' /\ AcBuckets'
  <2>1. \A p \in AcPeers : AcInFlight(p)' \subseteq AcInFlight(p)
    BY <1>1 DEF AcInFlight
  <2> QED
    BY <1>1, <2>1, AcUncharged
<1> QED
  BY <1>4, <1>5, <1>6 DEF AcInv

LEMMA AcInitial == AcInit => AcInv
<1> SUFFICES ASSUME AcInit PROVE AcInv
  OBVIOUS
<1>1. /\ acNow = 0 /\ acBackend \in AcTokens \cup {"api-key", "mtls"}
      /\ acPublished = AcKeys /\ acLast = [k \in AcKeys |-> 0]
      /\ acCached = {} /\ acFetched = -1
      /\ acFailures = [level |-> <<>>, lru |-> <<>>]
      /\ acThread = [t \in AcThreadIds |-> AcIdle]
      /\ acFailed = [p \in AcPeers |-> 0] /\ acSince = [p \in AcPeers |-> 0]
  BY DEF AcInit, AcNever, AcNoBuckets, AcThreadIds
<1>2. /\ AcIdle = [step |-> AcIdle.step, peer |-> AcIdle.peer, key |-> AcIdle.key,
                   named |-> AcIdle.named, at |-> AcIdle.at]
      /\ AcIdle.at = 0 /\ AcIdle.step = "idle"
  BY DEF AcIdle
<1>3. AcTyped
  BY <1>1, <1>2 DEF AcTyped
<1>4. AcKnown
  BY <1>1, <1>2 DEF AcKnown
<1>5. acFailures.lru = <<>> /\ acFailures.level = <<>>
  BY <1>1
<1>6. DOMAIN acFailures.level = {} /\ ToSet(acFailures.lru) = {}
  BY <1>5 DEF ToSet
<1>7. AcBuckets
  BY <1>5, <1>6 DEF AcBuckets
<1>8. ASSUME NEW p \in AcPeers
      PROVE  /\ acFailed[p] * AcWhole <= AcThreads * AcSpent(p) /\ acFailed[p] = 0
             /\ ~AcWaits(acFailures, p)
  <2>1. AcLevel(acFailures, p) = AcFull
    BY <1>6 DEF AcLevel, AcFull
  <2>2. AcSpent(p) = 0
    BY <1>1, <2>1, AcNumbers DEF AcSpent
  <2>3. ~AcWaits(acFailures, p)
    BY <2>1, AcNumbers DEF AcWaits
  <2>4. acFailed[p] = 0 /\ 0 * AcWhole <= AcThreads * 0
    BY <1>1, AcNumbers
  <2> QED
    BY <2>2, <2>3, <2>4
<1>9. AcPaid
  BY <1>8 DEF AcPaid
<1> QED
  BY <1>3, <1>4, <1>7, <1>9 DEF AcInv

LEMMA AcKept == AcInv /\ [AcNext]_acVars => AcInv'
<1> SUFFICES ASSUME AcInv, [AcNext]_acVars PROVE AcInv'
  OBVIOUS
<1>1. ASSUME NEW t \in AcThreadIds, AcArrive(t) PROVE AcInv'
  BY <1>1, AcOfArrive
<1>2. ASSUME NEW t \in AcThreadIds, AcKeysStart(t) PROVE AcInv'
  BY <1>2, AcOfKeysStart
<1>3. ASSUME NEW t \in AcThreadIds, AcFetch(t) PROVE AcInv'
  BY <1>3, AcOfFetch
<1>4. ASSUME NEW t \in AcThreadIds, AcFetchFails(t) PROVE AcInv'
  BY <1>4, AcOfFetchFails
<1>5. ASSUME NEW t \in AcThreadIds, AcRefused(t) PROVE AcInv'
  BY <1>5, AcOfRefused
<1>6. ASSUME NEW t \in AcThreadIds, AcLimit(t) \/ AcAuthorize(t) \/ AcServed(t) PROVE AcInv'
  BY <1>6, AcOfPermission
<1>7. CASE AcTick
  BY <1>7, AcOfTick
<1>8. CASE AcRotate
  BY <1>8, AcOfRotate
<1>9. CASE UNCHANGED acVars
  <2>1. /\ acNow' = acNow /\ acBackend' = acBackend /\ acPublished' = acPublished
        /\ acLast' = acLast /\ acCached' = acCached /\ acFetched' = acFetched
        /\ acThread' = acThread
        /\ acFailures' = acFailures /\ acFailed' = acFailed /\ acSince' = acSince
    BY <1>9 DEF acVars
  <2>2. AcTyped' /\ AcKnown'
    BY <2>1 DEF AcInv, AcTyped, AcKnown
  <2>3. \A p \in AcPeers : AcInFlight(p)' \subseteq AcInFlight(p)
    BY <2>1 DEF AcInFlight
  <2>4. AcPaid' /\ AcBuckets'
    BY <2>1, <2>3, AcUncharged
  <2> QED
    BY <2>2, <2>4 DEF AcInv
<1> QED
  BY <1>1, <1>2, <1>3, <1>4, <1>5, <1>6, <1>7, <1>8, <1>9 DEF AcNext, AcThreadIds

LEMMA AcFollows == AcInv => AcBounded
<1> SUFFICES ASSUME AcInv PROVE AcBounded
  OBVIOUS
<1>1. AcWithdrawnKeyExpires
  BY DEF AcInv, AcKnown, AcWithdrawnKeyExpires, AcThreadIds
<1>2. ASSUME NEW p \in AcPeers
      PROVE  acFailed[p] * AcWhole <= AcThreads * (AcCapacity * AcWhole + (acNow - acSince[p]))
  <2>1. PICK f, s, level : f = acFailed[p] /\ s = AcSpent(p) /\ level = AcLevel(acFailures, p)
    OBVIOUS
  <2>2. PICK full, z : full = AcFull /\ z = full + (acNow - acSince[p])
    OBVIOUS
  <2>3. f \in Nat /\ s \in Int /\ level \in 0..AcFull
    BY <2>1, AcLevels
  <2>4. acNow \in Int /\ acSince[p] \in Int /\ full \in Nat
    BY <2>2, AcNumbers DEF AcInv, AcTyped
  <2>5. s = full + (acNow - acSince[p]) - level
    BY <2>1, <2>2 DEF AcSpent
  <2>6. z \in Int /\ s <= z /\ f <= f
    BY <2>2, <2>3, <2>4, <2>5
  <2>7. f * AcWhole <= AcThreads * s
    BY <2>1 DEF AcInv, AcPaid
  <2>8. f * AcWhole <= AcThreads * z
    BY <2>3, <2>6, <2>7, AcFewer
  <2> QED
    BY <2>1, <2>2, <2>8 DEF AcFull
<1> QED
  BY <1>1, <1>2 DEF AcBounded, AcGuessingBounded

\* A token whose key was withdrawn longer ago than the cache keeps keys is not
\* let through, whatever other requests refetch meanwhile, and an address fails
\* at most once per token it has had for each request that can be in flight,
\* for any keys, addresses and numbers of threads (JwksCache.keys, authenticate,
\* TokenBuckets.take).
THEOREM AcAlwaysBounded == AcSpec => []AcBounded
<1>1. AcInit => AcInv
  BY AcInitial
<1>2. AcInv /\ [AcNext]_acVars => AcInv'
  BY AcKept
<1>3. AcInv => AcBounded
  BY AcFollows
<1> QED
  BY <1>1, <1>2, <1>3, PTL DEF AcSpec
=============================================================================
