--------------------------- MODULE DeliveryProofs ---------------------------
(***************************************************************************)
(* Safety of Delivery for any number of rollouts, versions, canary steps   *)
(* and faults, and that it implements RolloutService.                      *)
(***************************************************************************)
EXTENDS Delivery, TLAPS

Moving  == {"check", "alias", "deploy", "revert", "commit", "undo"}
Started == {"split", "splitDone", "end", "endDone"}

\* The operation's record fits the rollout it works on: the row of a rollout
\* being started is not stored yet, any other is active; the move is the one
\* from the version it was measured against to its candidate; and what is to be
\* recorded suits the step.
OpIdle == op.pc = "idle" => op = Idle
OpRow ==
  IF op.r = NoRollout THEN op.pc \in {"idle"} \union Moving /\ ~op.first
  ELSE IF op.first THEN state[op.r] = "NEW" /\ NoneActive /\ op.pc \in Started
  ELSE state[op.r] \in Active
OpMove ==
  op.r # NoRollout /\ op.pc \in Moving =>
    op.to = CandidateOf[op.r] /\ (op.pc # "check" => op.from = stable[op.r])
OpRecord ==
  /\ op.pc \in {"split", "splitDone"} \/ op.first =>
       op.end \in {"CANARY", "AB"} /\ op.pct \in 1 .. 99 /\ op.at >= 1
  /\ op.pc \in {"end", "endDone"} /\ ~op.first =>
       op.end \in {"ROLLED_BACK", "EXPIRED", "REJECTED"}
OpFlags ==
  /\ op.pc \in {"check", "alias"} => ~op.moved
  /\ op.pc \in {"check", "alias", "deploy", "revert"} => ~op.deployed
  /\ op.pc = "commit" => op.deployed
OpFits == OpIdle /\ OpRow /\ OpMove /\ OpRecord

\* One rollout of the model is active at a time.
OneActive == \A q, r \in Rollouts : state[q] \in Active /\ state[r] \in Active => q = r

\* Where LIVE is during a move, while at most one call failed and said so.
LiveTraced ==
  Only({"refused", "halfway", "down"}) =>
    /\ op.pc \notin {"deploy", "revert", "commit", "undo"} => live = last.to
    /\ op.pc = "alias" => op.from = live
    /\ op.pc \in {"deploy", "revert", "commit"} =>
         live = op.to /\ op.from = last.to /\ op.moved
    /\ op.pc = "undo" => op.from = last.to /\ live = IF op.moved THEN op.to ELSE op.from
    /\ op.pc \in {"revert", "undo"} => faults # <<>>

\* At most one call was refused and no rollback moved LIVE under a rollout.
Undisturbed == overtaken = {} /\ Only({"refused", "halfway"})

\* What serves during a move is known then.
ServedTraced ==
  Undisturbed =>
    /\ op.pc \notin {"deploy", "revert", "commit", "undo"} => served = live
    /\ op.pc \in {"alias", "deploy", "revert", "commit", "undo"} => op.before = op.from
    /\ op.pc = "deploy" => served = op.from
    /\ op.pc = "commit" => served = op.to
    /\ op.pc = "undo" /\ ~op.deployed => served = op.from

\* The version a rollout that starts or runs now would be measured against.
Base == IF op.pc \in {"deploy", "revert", "commit", "undo"} THEN op.from ELSE live

\* ... and the rollout under way was measured against it, unless its candidate
\* is LIVE already.
Measured ==
  Undisturbed =>
    \A r \in Rollouts :
      (state[r] \in Active \/ op.r = r) =>
        IF op.r = r /\ op.pc \in {"clear", "promoted"} THEN live = CandidateOf[r]
        ELSE stable[r] = Base

\* A stored promotion ends its rollout, unless a call failed or died later on.
KeysEnd ==
  Only({"refused", "halfway"}) =>
    \A r \in keys : state[r] = "PROMOTED" \/ (op.r = r /\ op.pc \in {"clear", "promoted"})

\* Candidate traffic belongs to a rollout that is starting, runs, made the
\* candidate live or was lost while it was being started.
SplitOwned ==
  /\ split # NoSplit =>
       \E r \in Rollouts : /\ CandidateOf[r] = split[1]
                           /\ \/ state[r] \in Active \union {"PROMOTED", "VOID"}
                              \/ op.r = r /\ op.first
  /\ op.pc = "endDone" => split = NoSplit

DeliveryInv ==
  TypeOK /\ OpFits /\ OpFlags /\ OneActive /\ LiveTraced /\ KeysEnd /\ Measured
    /\ ServedTraced /\ SplitOwned
-----------------------------------------------------------------------------
(* Facts about the model's operators.                                      *)

\* A rollout's candidate is a version, and no version is the absent one.
LEMMA Candidates ==
  /\ \A r \in Rollouts : CandidateOf[r] \in Versions
  /\ First \in Versions /\ NoVersion \notin Versions /\ Versions \subseteq AnyVersion
  BY DeliveryConstants DEF Versions, AnyVersion

\* What the policy says of the canary steps.
LEMMA CanaryPercents ==
  /\ Len(CanarySteps) \in Nat /\ Len(CanarySteps) >= 1
  /\ \A i \in 1 .. Len(CanarySteps) :
       CanarySteps[i] \in 1 .. 100 /\ (CanarySteps[i] < 100 => CanarySteps[i] \in 1 .. 99)
  BY DeliveryConstants

\* Faults are only added: what holds of them after a step held before it, and
\* under Only the step that failed is the first to.
LEMMA OnlyStep ==
  ASSUME TypeOK, NEW a \in {"ok"} \union FaultKinds, Notes(a), NEW CONSTANT K, Only(K)'
  PROVE  Only(K) /\ (a # "ok" => a \in K /\ faults = <<>> /\ faults' # <<>>)
<1>1. CASE a = "ok"
  BY <1>1 DEF Notes, Only
<1>2. CASE a # "ok"
  <2>1. faults \in Seq(FaultKinds) /\ faults' = Append(faults, a) /\ a \in FaultKinds
    BY <1>2 DEF TypeOK, Notes
  <2>2. Len(faults') = Len(faults) + 1 /\ faults'[Len(faults) + 1] = a /\ Len(faults) \in Nat
    BY <2>1
  <2>3. Len(faults) = 0 /\ faults' [1] = a
    BY <2>2 DEF Only
  <2>4. faults = <<>> /\ a \in K
    BY <2>1, <2>2, <2>3 DEF Only
  <2> QED BY <2>1, <2>2, <2>3, <2>4, <1>2 DEF Only
<1> QED BY <1>1, <1>2

\* An answer is one of the kinds of fault, but no crash.
LEMMA AnswerKinds ==
  ASSUME NEW a \in Answers
  PROVE  /\ a \in {"ok", "refused", "halfway", "down", "lost"}
         /\ a \in {"ok"} \union FaultKinds
         /\ a # "ok" => Len(faults) < MaxFaults
  BY DEF Answers, FaultKinds

\* The faults keep their type and their bound.
LEMMA NotesTyped ==
  ASSUME TypeOK, NEW a \in Answers, Notes(a)
  PROVE  faults' \in Seq(FaultKinds) /\ Len(faults') <= MaxFaults
<1>1. faults \in Seq(FaultKinds) /\ Len(faults) <= MaxFaults /\ MaxFaults \in Nat
  BY DeliveryConstants DEF TypeOK
<1>2. CASE a = "ok"
  BY <1>1, <1>2 DEF Notes
<1>3. CASE a # "ok"
  <2>1. a \in FaultKinds /\ Len(faults) < MaxFaults /\ faults' = Append(faults, a)
    BY <1>3, AnswerKinds DEF Notes
  <2> QED BY <1>1, <2>1
<1> QED BY <1>2, <1>3

\* Changes of the serving system keep its type.
LEMMA ServingTyped ==
  ASSUME TypeOK, NEW a, NEW v \in AnyVersion,
         Serve(a, v) \/ Traffic(a, v, NoSplit) \/ UNCHANGED serving
  PROVE  served' \in AnyVersion /\ split' \in (Versions \X (1 .. 99)) \union {NoSplit}
  BY DEF TypeOK, Serve, Traffic, serving

\* The operations' records are well typed.
LEMMA IdleTyped == Idle \in Ops
  BY CanaryPercents DEF Ops, Idle, PCs, AnyVersion

\* A promotion that begins is an operation.
LEMMA PromotingTyped ==
  ASSUME NEW r \in Rollouts \union {NoRollout}, NEW v \in AnyVersion
  PROVE  Promoting(r, v) \in Ops
  BY CanaryPercents, IdleTyped DEF Ops, PCs, Promoting

\* So is the end of a rollout without a promotion.
LEMMA EndingTyped ==
  ASSUME NEW r \in Rollouts, NEW s \in {"EXPIRED", "ROLLED_BACK", "REJECTED"}
  PROVE  Ending(r, s) \in Ops
  BY CanaryPercents, IdleTyped DEF Ops, PCs, Ending

\* So is a split at a canary step or for an A/B test.
LEMMA SplittingTyped ==
  ASSUME NEW r \in Rollouts, NEW s \in {"CANARY", "AB"}, NEW p \in 1 .. 99,
         NEW i \in 1 .. Len(CanarySteps)
  PROVE  Splitting(r, s, p, i) \in Ops
<1>1. p \in 0 .. 100 /\ i \in 0 .. Len(CanarySteps)
  BY CanaryPercents
<1> QED BY <1>1, IdleTyped DEF Ops, PCs, Splitting

\* So is a canary step, whether it splits or promotes.
LEMMA CanaryStepTyped ==
  ASSUME NEW r \in Rollouts, NEW i \in 1 .. Len(CanarySteps)
  PROVE  CanaryStep(r, i) \in Ops
<1>1. CASE CanarySteps[i] >= 100
  BY <1>1, Candidates, PromotingTyped DEF CanaryStep
<1>2. CASE ~(CanarySteps[i] >= 100)
  <2>1. CanarySteps[i] \in 1 .. 99
    BY <1>2, CanaryPercents
  <2> QED BY <1>2, <2>1, SplittingTyped DEF CanaryStep
<1> QED BY <1>1, <1>2

\* The last steps of an operation keep its record's type.
LEMMA EndsTyped ==
  ASSUME TypeOK, Fails \/ Succeeds \/ Done \/ \E pc \in PCs : Goto(pc)
  PROVE  op' \in Ops
<1>1. op \in Ops
  BY DEF TypeOK
<1>2. \A pc \in PCs : [op EXCEPT !.pc = pc] \in Ops
  BY <1>1 DEF Ops
<1>3. [op EXCEPT !.pc = "end", !.end = "ROLLED_BACK"] \in Ops
  BY <1>1 DEF Ops, PCs
<1>4. "clear" \in PCs
  BY DEF PCs
<1> QED BY <1>2, <1>3, <1>4, IdleTyped DEF Fails, Succeeds, Done, Goto

\* Where an operation goes when a move ends.
LEMMA EndsAt ==
  ASSUME TypeOK
  PROVE  /\ Fails => op'.pc \in {"idle", "end"} /\ op'.r = op.r
         /\ Succeeds => op'.pc \in {"idle", "clear"} /\ op'.r = op.r
         /\ Done => op'.pc = "idle" /\ op'.r = NoRollout
<1>1. op \in Ops
  BY DEF TypeOK
<1>2. Idle.pc = "idle" /\ Idle.r = NoRollout
  BY DEF Idle
<1>3. /\ [op EXCEPT !.pc = "end", !.end = "ROLLED_BACK"].pc = "end"
      /\ [op EXCEPT !.pc = "end", !.end = "ROLLED_BACK"].r = op.r
      /\ [op EXCEPT !.pc = "clear"].pc = "clear" /\ [op EXCEPT !.pc = "clear"].r = op.r
  BY <1>1 DEF Ops
<1> QED BY <1>2, <1>3 DEF Fails, Succeeds, Done, Goto

-----------------------------------------------------------------------------
(* Types.                                                                  *)

\* The moves keep the types.
LEMMA TypeMove ==
  ASSUME TypeOK, OpFits, Move
  PROVE  TypeOK'
<1> USE DEF vars, serving, history, rows
<1>0. /\ live \in AnyVersion /\ served \in AnyVersion /\ op \in Ops
      /\ op.to \in AnyVersion /\ op.from \in AnyVersion /\ op.before \in AnyVersion
      /\ op.r \in Rollouts \union {NoRollout} /\ keys \subseteq Rollouts
  BY DEF TypeOK, Ops
<1>1. CASE PromoteChecks
  <2>1. op' \in Ops
    <3>1. [op EXCEPT !.pc = "alias", !.from = live, !.before = served] \in Ops
      BY <1>0 DEF Ops, PCs
    <3> QED BY <1>1, <3>1, EndsTyped DEF PromoteChecks
  <2>2. keys' \subseteq Rollouts /\ UNCHANGED <<last, overtaken>>
    BY <1>0, <1>1 DEF PromoteChecks
  <2> QED BY <1>1, <2>1, <2>2 DEF PromoteChecks, TypeOK
<1>2. CASE PromoteRefused
  <2>1. op' \in Ops
    BY <1>2, EndsTyped DEF PromoteRefused
  <2>2. faults' \in Seq(FaultKinds) /\ Len(faults') <= MaxFaults
    BY <1>2, NotesTyped DEF PromoteRefused
  <2> QED BY <1>2, <2>1, <2>2 DEF PromoteRefused, TypeOK
<1>3. CASE MoveAlias
  <2> PICK a \in Answers :
        /\ live' = IF TakesEffect(a) THEN op.to ELSE live
        /\ op' = [op EXCEPT !.pc = IF a = "ok" THEN "deploy" ELSE "undo",
                            !.moved = a \in {"ok", "halfway"}]
        /\ Notes(a)
    BY <1>3 DEF MoveAlias
  <2>1. op' \in Ops
    <3>1. \A pc \in PCs, m \in BOOLEAN : [op EXCEPT !.pc = pc, !.moved = m] \in Ops
      BY <1>0 DEF Ops
    <3>2. (a \in {"ok", "halfway"}) \in BOOLEAN
      OBVIOUS
    <3>3. (IF a = "ok" THEN "deploy" ELSE "undo") \in PCs
      BY DEF PCs
    <3> QED BY <3>1, <3>2, <3>3
  <2>2. faults' \in Seq(FaultKinds) /\ Len(faults') <= MaxFaults
    BY NotesTyped
  <2> QED BY <1>0, <1>3, <2>1, <2>2 DEF MoveAlias, TypeOK
<1>4. CASE Deploy
  <2> PICK a \in Answers :
        /\ Serve(a, op.to)
        /\ op' = [op EXCEPT !.pc = IF a = "ok" THEN "commit" ELSE "revert",
                            !.deployed = a = "ok"]
        /\ Notes(a)
    BY <1>4 DEF Deploy
  <2>1. op' \in Ops
    BY <1>0 DEF Ops, PCs
  <2>2. faults' \in Seq(FaultKinds) /\ Len(faults') <= MaxFaults
    BY NotesTyped
  <2>3. served' \in AnyVersion /\ split' \in (Versions \X (1 .. 99)) \union {NoSplit}
    BY <1>0, ServingTyped
  <2> QED BY <1>0, <1>4, <2>1, <2>2, <2>3 DEF Deploy, TypeOK
<1>5. CASE RevertDeploy
  <2> PICK a \in Answers : Serve(a, op.before) /\ Notes(a)
    BY <1>5 DEF RevertDeploy
  <2>1. op' \in Ops
    BY <1>5, EndsTyped DEF RevertDeploy, PCs
  <2>2. faults' \in Seq(FaultKinds) /\ Len(faults') <= MaxFaults
    BY NotesTyped
  <2>3. served' \in AnyVersion /\ split' \in (Versions \X (1 .. 99)) \union {NoSplit}
    BY <1>0, ServingTyped
  <2> QED BY <1>0, <1>5, <2>1, <2>2, <2>3 DEF RevertDeploy, TypeOK
<1>6. CASE CommitMove
  <2>1. op' \in Ops
    BY <1>6, EndsTyped DEF CommitMove, PCs
  <2>2. faults' \in Seq(FaultKinds) /\ Len(faults') <= MaxFaults
    BY <1>6, NotesTyped DEF CommitMove
  <2>3. /\ last' \in [from : AnyVersion, to : AnyVersion, by : Rollouts \union {NoRollout}]
        /\ keys' \subseteq Rollouts /\ overtaken' \subseteq Rollouts
    BY <1>0, <1>6 DEF CommitMove, TypeOK
  <2> QED BY <1>6, <2>1, <2>2, <2>3 DEF CommitMove, TypeOK
<1>7. CASE UndoMove
  <2>1. op' \in Ops
    <3>1. [op EXCEPT !.deployed = FALSE] \in Ops
      BY <1>0 DEF Ops
    <3> QED BY <1>7, <3>1, EndsTyped DEF UndoMove
  <2>2. faults' \in Seq(FaultKinds) /\ Len(faults') <= MaxFaults
    BY <1>7, NotesTyped DEF UndoMove, TypeOK
  <2>3. served' \in AnyVersion /\ split' \in (Versions \X (1 .. 99)) \union {NoSplit}
    BY <1>0, <1>7, ServingTyped DEF UndoMove
  <2>4. live' \in AnyVersion
    BY <1>0, <1>7 DEF UndoMove, RestoreAlias
  <2> QED BY <1>7, <2>1, <2>2, <2>3, <2>4 DEF UndoMove, TypeOK
<1> QED BY <1>1, <1>2, <1>3, <1>4, <1>5, <1>6, <1>7 DEF Move

\* The controller works on a rollout.
LEMMA ControlRow ==
  ASSUME TypeOK, OpFits,
         op.pc \in {"clear", "promoted", "split", "splitDone", "end", "endDone"}
  PROVE  /\ op.r \in Rollouts /\ op.r # NoRollout
         /\ op.first => state[op.r] = "NEW" /\ NoneActive /\ op.end \in {"CANARY", "AB"}
         /\ ~op.first => state[op.r] \in Active
         /\ CandidateOf[op.r] \in AnyVersion /\ stable[op.r] \in AnyVersion
<1>1. op.r \in Rollouts \union {NoRollout} /\ stable \in [Rollouts -> AnyVersion]
  BY DEF TypeOK, Ops
<1>2. op.r # NoRollout
  BY DEF OpFits, OpRow, Moving
<1> QED BY <1>1, <1>2, Candidates DEF OpFits, OpRow, OpRecord

States == {"NEW", "VOID"} \union Active \union Final

\* Giving up an operation keeps the rows' type.
LEMMA AbandonTyped ==
  ASSUME TypeOK, OpFits, Abandon
  PROVE  state' \in [Rollouts -> States]
  BY DEF TypeOK, Abandon, States

\* The controller's sequences keep the types.
LEMMA TypeControl ==
  ASSUME TypeOK, OpFits, Control
  PROVE  TypeOK'
<1> USE DEF vars, serving, history, rows
<1>0. /\ op \in Ops /\ op.end \in States \union {"none"}
      /\ op.pct \in 0 .. 100 /\ op.at \in 0 .. Len(CanarySteps)
      /\ state \in [Rollouts -> States] /\ percent \in [Rollouts -> 0 .. 100]
      /\ step \in [Rollouts -> 1 .. Len(CanarySteps)]
      /\ served \in AnyVersion /\ split \in (Versions \X (1 .. 99)) \union {NoSplit}
      /\ faults \in Seq(FaultKinds) /\ Len(faults) <= MaxFaults
  BY DEF TypeOK, Ops, States, Active, Final
<1>1. CASE ClearSplit
  <2>0. CandidateOf[op.r] \in AnyVersion
    BY <1>1, ControlRow DEF ClearSplit
  <2>1. op' \in Ops
    BY <1>1, EndsTyped DEF ClearSplit, PCs
  <2>2. /\ faults' \in Seq(FaultKinds) /\ Len(faults') <= MaxFaults
        /\ served' \in AnyVersion /\ split' \in (Versions \X (1 .. 99)) \union {NoSplit}
    BY <1>0, <1>1, <2>0, NotesTyped, ServingTyped DEF ClearSplit
  <2> QED BY <1>1, <2>1, <2>2 DEF ClearSplit, TypeOK
<1>2. CASE RecordPromoted
  <2>1. op' \in Ops
    BY <1>2, EndsTyped DEF RecordPromoted
  <2>2. state' \in [Rollouts -> States] /\ percent' \in [Rollouts -> 0 .. 100]
    <3>1. "PROMOTED" \in States /\ 100 \in 0 .. 100
      BY DEF States, Final
    <3> QED BY <1>0, <1>2, <3>1 DEF RecordPromoted
  <2> QED BY <1>2, <2>1, <2>2 DEF RecordPromoted, TypeOK, States
<1>3. CASE Split
  <2> PICK a \in Answers :
       /\ Traffic(a, stable[op.r], <<CandidateOf[op.r], op.pct>>)
       /\ Notes(a)
       /\ \/ a = "ok" /\ Goto("splitDone") /\ UNCHANGED state
          \/ /\ a \in {"refused", "halfway"} /\ op.first
             /\ Goto("end") /\ UNCHANGED state
          \/ /\ a # "ok" /\ (op.first => a \in {"down", "lost"})
             /\ Done /\ Abandon
    BY <1>3 DEF Split
  <2>0. /\ stable[op.r] \in AnyVersion /\ CandidateOf[op.r] \in Versions
        /\ op.pct \in 1 .. 99
    BY <1>3, ControlRow, Candidates DEF Split, OpFits, OpRecord
  <2>1. op' \in Ops
    BY EndsTyped DEF PCs
  <2>2. faults' \in Seq(FaultKinds) /\ Len(faults') <= MaxFaults
    BY NotesTyped
  <2>3. served' \in AnyVersion /\ split' \in (Versions \X (1 .. 99)) \union {NoSplit}
    <3>1. <<CandidateOf[op.r], op.pct>> \in Versions \X (1 .. 99)
      BY <2>0
    <3> QED BY <1>0, <2>0, <3>1 DEF Traffic
  <2>4. state' \in [Rollouts -> States]
    BY <1>0, AbandonTyped
  <2> QED BY <1>3, <2>1, <2>2, <2>3, <2>4 DEF Split, TypeOK, States
<1>4. CASE RecordSplit
  <2>1. op' \in Ops
    BY <1>4, EndsTyped DEF RecordSplit
  <2>2. op.end \in States /\ op.at \in 1 .. Len(CanarySteps)
    BY <1>0, <1>4, CanaryPercents DEF RecordSplit, OpFits, OpRecord, States, Active
  <2>3. /\ state' \in [Rollouts -> States] /\ percent' \in [Rollouts -> 0 .. 100]
        /\ step' \in [Rollouts -> 1 .. Len(CanarySteps)]
    BY <1>0, <1>4, <2>2 DEF RecordSplit
  <2> QED BY <1>4, <2>1, <2>3 DEF RecordSplit, TypeOK, States
<1>5. CASE UndoTraffic
  <2> PICK a \in Answers :
       /\ IF HasTraffic(op.r) THEN Traffic(a, stable[op.r], NoSplit) ELSE UNCHANGED serving
       /\ Notes(a)
       /\ \/ a = "ok" /\ Goto("endDone") /\ UNCHANGED state
          \/ /\ a \in {"refused", "halfway"} /\ op.first /\ Done
             /\ state' = [state EXCEPT ![op.r] = op.end]
          \/ /\ a # "ok" /\ (op.first => a \in {"down", "lost"})
             /\ Done /\ Abandon
    BY <1>5 DEF UndoTraffic
  <2>0. stable[op.r] \in AnyVersion /\ (op.first => op.end \in States)
    BY <1>5, ControlRow DEF UndoTraffic, States, Active
  <2>1. op' \in Ops
    BY EndsTyped DEF PCs
  <2>2. faults' \in Seq(FaultKinds) /\ Len(faults') <= MaxFaults
    BY NotesTyped
  <2>3. served' \in AnyVersion /\ split' \in (Versions \X (1 .. 99)) \union {NoSplit}
    BY <2>0, ServingTyped
  <2>4. state' \in [Rollouts -> States]
    BY <1>0, <2>0, AbandonTyped
  <2> QED BY <1>5, <2>1, <2>2, <2>3, <2>4 DEF UndoTraffic, TypeOK, States
<1>6. CASE RecordEnd
  <2>1. op' \in Ops
    BY <1>6, EndsTyped DEF RecordEnd
  <2>2. ~op.first => op.end \in States
    BY <1>6 DEF RecordEnd, OpFits, OpRecord, States, Final
  <2>3. state' \in [Rollouts -> States] /\ percent' \in [Rollouts -> 0 .. 100]
    <3>1. "ROLLED_BACK" \in States /\ 0 \in 0 .. 100
      BY DEF States, Final
    <3> QED BY <1>0, <1>6, <2>2, <3>1 DEF RecordEnd
  <2> QED BY <1>6, <2>1, <2>3 DEF RecordEnd, TypeOK, States
<1> QED BY <1>1, <1>2, <1>3, <1>4, <1>5, <1>6 DEF Control

\* What an operation on a rollout starts with.
Starts(r) ==
  {Idle, Promoting(r, CandidateOf[r])}
    \union {Ending(r, s) : s \in {"EXPIRED", "ROLLED_BACK", "REJECTED"}}
    \union {CanaryStep(r, i) : i \in 1 .. Len(CanarySteps)}

\* The ticks and the operators' actions: the operation begins with one of
\* these records, on an active rollout, and only an approval is recorded at once.
LEMMA OperationShape ==
  ASSUME TypeOK, NEW r \in Rollouts, Tick(r) \/ Approve(r) \/ Reject(r)
  PROVE  /\ op.pc = "idle" /\ op' \in Starts(r) \union {op} /\ state[r] \in Active
         /\ \/ state' = state
            \/ op' = op /\ state' = [state EXCEPT ![r] = "AWAITING_APPROVAL"]
         /\ UNCHANGED <<live, serving, history, faults, stable, step, percent, policy>>
<1> USE DEF serving, history, rows, Quiet, Begins
<1>0. step[r] \in 1 .. Len(CanarySteps) /\ Len(CanarySteps) \in Nat /\ Len(CanarySteps) >= 1
  BY CanaryPercents DEF TypeOK
<1>1. CASE EndRollout(r)
  BY <1>1 DEF EndRollout, Starts, Active
<1>2. CASE PromoteRollout(r)
  BY <1>2 DEF PromoteRollout, Starts, Active
<1>3. CASE AdvanceCanary(r)
  <2>1. \E i \in 1 .. Len(CanarySteps) : op' = CanaryStep(r, i)
    <3>1. 1 \in 1 .. Len(CanarySteps)
      BY <1>0
    <3>2. step[r] < Len(CanarySteps) => step[r] + 1 \in 1 .. Len(CanarySteps)
      BY <1>0
    <3> QED BY <1>3, <3>1, <3>2 DEF AdvanceCanary
  <2> QED BY <1>3, <2>1 DEF AdvanceCanary, Starts, Active
<1>4. CASE AskApproval(r)
  BY <1>4 DEF AskApproval, Active
<1>5. CASE Approve(r)
  <2>1. 1 \in 1 .. Len(CanarySteps)
    BY <1>0
  <2> QED BY <1>5, <2>1 DEF Approve, LockedAction, Starts, Active
<1>6. CASE Reject(r)
  BY <1>6 DEF Reject, LockedAction, Starts
<1> QED BY <1>1, <1>2, <1>3, <1>4, <1>5, <1>6 DEF Tick

\* The records a rollout's first split starts with.
Opening(o, r) ==
  \E s \in {"CANARY", "AB"}, p \in 1 .. 99 : o = [Splitting(r, s, p, 1) EXCEPT !.first = TRUE]

\* Starting a rollout: the row is stored at once in a state without traffic, or
\* the first split or the promotion begins.
LEMMA StartShape ==
  ASSUME TypeOK, NEW r \in Rollouts, StartRollout(r)
  PROVE  /\ op.pc = "idle" /\ state[r] = "NEW" /\ NoneActive /\ live # NoVersion
         /\ stable' = [stable EXCEPT ![r] = live]
         /\ policy' \in [Rollouts -> Policies]
         /\ \/ op' = Idle /\ state' = [state EXCEPT ![r] = "SHADOW"]
            \/ op' = Idle /\ state' = [state EXCEPT ![r] = "AWAITING_APPROVAL"]
            \/ Opening(op', r) /\ state' = state
            \/ op' = Promoting(r, CandidateOf[r]) /\ state' = [state EXCEPT ![r] = "CANARY"]
         /\ UNCHANGED <<live, serving, history, faults, step, percent>>
<1> USE DEF serving, history, Quiet, Begins
<1>0. CanarySteps[1] \in 1 .. 100
  BY CanaryPercents
<1>1. /\ op.pc = "idle" /\ state[r] = "NEW" /\ NoneActive /\ live # NoVersion
      /\ stable' = [stable EXCEPT ![r] = live]
      /\ UNCHANGED <<live, serving, history, faults, step, percent>>
  BY DEF StartRollout
<1>2. PICK p \in Policies :
       /\ policy' = [policy EXCEPT ![r] = p]
       /\ \/ state' = [state EXCEPT ![r] = "SHADOW"] /\ op' = Idle
          \/ state' = [state EXCEPT ![r] = "AWAITING_APPROVAL"] /\ op' = Idle
          \/ /\ op' = [Splitting(r, "AB", AbPercent, 1) EXCEPT !.first = TRUE]
             /\ UNCHANGED state
          \/ /\ op' = [CanaryStep(r, 1) EXCEPT !.first = CanarySteps[1] < 100]
             /\ state' = IF CanarySteps[1] < 100 THEN state ELSE [state EXCEPT ![r] = "CANARY"]
  BY DEF StartRollout
<1>3. policy' \in [Rollouts -> Policies]
  BY <1>2 DEF TypeOK
<1>4. CASE op' = [Splitting(r, "AB", AbPercent, 1) EXCEPT !.first = TRUE] /\ UNCHANGED state
  <2>1. Opening(op', r)
    BY <1>4, DeliveryConstants DEF Opening
  <2> QED BY <1>1, <1>3, <1>4, <2>1
<1>5. CASE /\ op' = [CanaryStep(r, 1) EXCEPT !.first = CanarySteps[1] < 100]
           /\ state' = IF CanarySteps[1] < 100 THEN state ELSE [state EXCEPT ![r] = "CANARY"]
  <2>1. CASE CanarySteps[1] < 100
    <3>1. CanarySteps[1] \in 1 .. 99 /\ ~(CanarySteps[1] >= 100)
      BY <1>0, <2>1
    <3>2. op' = [Splitting(r, "CANARY", CanarySteps[1], 1) EXCEPT !.first = TRUE]
      BY <1>5, <2>1, <3>1 DEF CanaryStep
    <3>3. Opening(op', r)
      BY <3>1, <3>2 DEF Opening
    <3> QED BY <1>1, <1>3, <1>5, <2>1, <3>3
  <2>2. CASE ~(CanarySteps[1] < 100)
    <3>1. CanarySteps[1] >= 100
      BY <1>0, <2>2
    <3>0. (CanarySteps[1] < 100) = FALSE
      BY <2>2
    <3>2. op' = [Promoting(r, CandidateOf[r]) EXCEPT !.first = FALSE]
      BY <1>5, <3>0, <3>1, Zenon DEF CanaryStep
    <3>3. Promoting(r, CandidateOf[r]) \in Ops /\ Promoting(r, CandidateOf[r]).first = FALSE
      BY Candidates, PromotingTyped DEF Promoting, Idle
    <3>4. op' = Promoting(r, CandidateOf[r])
      BY <3>2, <3>3 DEF Ops
    <3> QED BY <1>1, <1>3, <1>5, <2>2, <3>4
  <2> QED BY <2>1, <2>2
<1> QED BY <1>1, <1>2, <1>3, <1>4, <1>5

\* Everything an operation can start with is well typed.
LEMMA StartsTyped ==
  ASSUME NEW r \in Rollouts
  PROVE  Starts(r) \subseteq Ops /\ \A o : Opening(o, r) => o \in Ops
<1>1. Promoting(r, CandidateOf[r]) \in Ops
  BY Candidates, PromotingTyped
<1>2. ASSUME NEW s \in {"CANARY", "AB"}, NEW p \in 1 .. 99
      PROVE  [Splitting(r, s, p, 1) EXCEPT !.first = TRUE] \in Ops
  <2>1. 1 \in 1 .. Len(CanarySteps)
    BY CanaryPercents
  <2>2. Splitting(r, s, p, 1) \in Ops
    BY <2>1, SplittingTyped
  <2> QED BY <2>2 DEF Ops
<1> QED BY <1>1, <1>2, IdleTyped, EndingTyped, CanaryStepTyped DEF Starts, Opening

\* The initial state is well typed.
LEMMA TypeInit == Init => TypeOK
<1> SUFFICES ASSUME Init PROVE TypeOK
  OBVIOUS
<1>1. live \in AnyVersion /\ served \in AnyVersion
  BY Candidates DEF Init
<1>2. last \in [from : AnyVersion, to : AnyVersion, by : Rollouts \union {NoRollout}]
  BY Candidates DEF Init, AnyVersion
<1>3. /\ state \in [Rollouts -> {"NEW", "VOID"} \union Active \union Final]
      /\ stable \in [Rollouts -> AnyVersion] /\ policy \in [Rollouts -> Policies]
  BY DEF Init, AnyVersion, Policies
<1>4. step \in [Rollouts -> 1 .. Len(CanarySteps)] /\ percent \in [Rollouts -> 0 .. 100]
  BY CanaryPercents DEF Init
<1>5. faults \in Seq(FaultKinds) /\ Len(faults) <= MaxFaults
  BY DeliveryConstants DEF Init
<1> QED BY <1>1, <1>2, <1>3, <1>4, <1>5, IdleTyped DEF Init, TypeOK

\* Every step keeps the types.
LEMMA TypeStep ==
  ASSUME TypeOK, OpFits, [Next]_vars
  PROVE  TypeOK'
<1> USE DEF vars, serving, history, rows
<1>1. CASE Move
  BY <1>1, TypeMove
<1>2. CASE Control
  BY <1>2, TypeControl
<1>3. CASE Crash
  <2>1. op' \in Ops /\ state' \in [Rollouts -> States]
    BY <1>3, IdleTyped, AbandonTyped DEF Crash, Done
  <2>2. faults' \in Seq(FaultKinds) /\ Len(faults') <= MaxFaults
    <3>1. faults \in Seq(FaultKinds) /\ MaxFaults \in Nat /\ "crash" \in FaultKinds
      BY DeliveryConstants DEF TypeOK, FaultKinds
    <3> QED BY <1>3, <3>1 DEF Crash
  <2> QED BY <1>3, <2>1, <2>2 DEF Crash, TypeOK, States
<1>4. ASSUME NEW r \in Rollouts, StartRollout(r)
      PROVE  TypeOK'
  <2>1. op' \in Ops
    <3>1. op' \in {Idle, Promoting(r, CandidateOf[r])} \/ Opening(op', r)
      BY <1>4, StartShape
    <3> QED BY <3>1, StartsTyped DEF Starts
  <2>2. state' \in [Rollouts -> States] /\ stable' \in [Rollouts -> AnyVersion]
    <3>1. {"SHADOW", "AWAITING_APPROVAL", "CANARY"} \subseteq States
      BY DEF States, Active
    <3>2. state \in [Rollouts -> States] /\ stable \in [Rollouts -> AnyVersion] /\ live \in AnyVersion
      BY DEF TypeOK, States
    <3> QED BY <1>4, <3>1, <3>2, StartShape
  <2> QED BY <1>4, <2>1, <2>2, StartShape DEF TypeOK, States
<1>5. ASSUME NEW r \in Rollouts, Tick(r) \/ Approve(r) \/ Reject(r)
      PROVE  TypeOK'
  <2>1. op' \in Ops
    BY <1>5, OperationShape, StartsTyped DEF TypeOK
  <2>2. state' \in [Rollouts -> States]
    BY <1>5, OperationShape DEF TypeOK, States, Active
  <2> QED BY <1>5, <2>1, <2>2, OperationShape DEF TypeOK, States
<1>6. ASSUME NEW v \in Versions, Rollback(v)
      PROVE  TypeOK'
  <2>1. op' \in Ops
    BY <1>6, Candidates, PromotingTyped DEF Rollback, Begins
  <2> QED BY <1>6, <2>1 DEF Rollback, Quiet, TypeOK
<1>7. CASE UNCHANGED vars
  BY <1>7 DEF TypeOK
<1> QED BY <1>1, <1>2, <1>3, <1>4, <1>5, <1>6, <1>7 DEF Next, Operation

-----------------------------------------------------------------------------
(* The operation fits its rollout, and one rollout is active.              *)

\* The idle operation fits any rows.
LEMMA IdleFits ==
  ASSUME op' = Idle
  PROVE  OpFits'
  BY DEF Idle, OpFits, OpIdle, OpRow, OpMove, OpRecord, Moving, Started

\* A step of a move keeps the operation in place.
LEMMA FitsMove ==
  ASSUME TypeOK, OpFits, Move
  PROVE  OpFits' /\ UNCHANGED <<state, stable, step, percent, policy>>
<1> USE DEF rows
<1>0. op \in Ops
  BY DEF TypeOK
<1>1. UNCHANGED <<state, stable, step, percent, policy>>
  BY DEF Move, PromoteChecks, PromoteRefused, MoveAlias, Deploy, RevertDeploy, CommitMove, UndoMove
<1>2. op.pc \in Moving
  BY DEF Move, PromoteChecks, PromoteRefused, MoveAlias, Deploy, RevertDeploy, CommitMove,
         UndoMove, Moving
<1>3. ~op.first
  BY <1>2 DEF OpFits, OpRow, Started, Moving
<1>4. CASE op' = Idle
  BY <1>1, <1>4, IdleFits
<1>5. CASE op.r # NoRollout /\ op' = [op EXCEPT !.pc = "end", !.end = "ROLLED_BACK"]
  BY <1>0, <1>1, <1>3, <1>5 DEF OpFits, OpIdle, OpRow, OpMove, OpRecord, Moving, Started, Ops,
     NoneActive
<1>6. CASE op.r # NoRollout /\ op' = [op EXCEPT !.pc = "clear"]
  BY <1>0, <1>1, <1>3, <1>6 DEF OpFits, OpIdle, OpRow, OpMove, OpRecord, Moving, Started, Ops,
     NoneActive
<1>7. CASE /\ op.pc = "check" /\ ~Conflict
           /\ op' = [op EXCEPT !.pc = "alias", !.from = live, !.before = served]
  BY <1>0, <1>1, <1>3, <1>7 DEF OpFits, OpIdle, OpRow, OpMove, OpRecord, Moving, Started, Ops,
     NoneActive, Conflict
<1>8. CASE /\ op.pc # "check"
           /\ \E pc \in Moving \ {"check"} : \E m, d \in BOOLEAN :
                op' = [op EXCEPT !.pc = pc, !.moved = m, !.deployed = d]
  BY <1>0, <1>1, <1>2, <1>3, <1>8 DEF OpFits, OpIdle, OpRow, OpMove, OpRecord, Moving, Started,
     Ops, NoneActive
<1>9. \/ op' = Idle
      \/ op.r # NoRollout /\ op' = [op EXCEPT !.pc = "end", !.end = "ROLLED_BACK"]
      \/ op.r # NoRollout /\ op' = [op EXCEPT !.pc = "clear"]
      \/ /\ op.pc = "check" /\ ~Conflict
         /\ op' = [op EXCEPT !.pc = "alias", !.from = live, !.before = served]
      \/ /\ op.pc # "check"
         /\ \E pc \in Moving \ {"check"} : \E m, d \in BOOLEAN :
              op' = [op EXCEPT !.pc = pc, !.moved = m, !.deployed = d]
  <2> USE DEF Fails, Succeeds, Done, Goto
  <2>1. CASE PromoteChecks
    BY <2>1 DEF PromoteChecks
  <2>2. CASE PromoteRefused
    BY <2>2 DEF PromoteRefused
  <2>3. CASE MoveAlias
    <3> PICK a \in Answers : op' = [op EXCEPT !.pc = IF a = "ok" THEN "deploy" ELSE "undo",
                                              !.moved = a \in {"ok", "halfway"}]
      BY <2>3 DEF MoveAlias
    <3> DEFINE pc == IF a = "ok" THEN "deploy" ELSE "undo"
               m == a \in {"ok", "halfway"}
    <3>1. op' = [op EXCEPT !.pc = pc, !.moved = m]
      OBVIOUS
    <3>2. m \in BOOLEAN /\ op.deployed \in BOOLEAN /\ pc \in Moving \ {"check"}
      BY <1>0 DEF Ops, Moving
    <3> HIDE DEF pc, m
    <3>3. op' = [op EXCEPT !.pc = pc, !.moved = m, !.deployed = op.deployed]
      BY <1>0, <3>1 DEF Ops
    <3> QED BY <2>3, <3>2, <3>3 DEF MoveAlias
  <2>4. CASE Deploy
    <3> PICK a \in Answers : op' = [op EXCEPT !.pc = IF a = "ok" THEN "commit" ELSE "revert",
                                              !.deployed = a = "ok"]
      BY <2>4 DEF Deploy
    <3> DEFINE pc == IF a = "ok" THEN "commit" ELSE "revert"
               d == a = "ok"
    <3>1. op' = [op EXCEPT !.pc = pc, !.deployed = d]
      OBVIOUS
    <3>2. d \in BOOLEAN /\ op.moved \in BOOLEAN /\ pc \in Moving \ {"check"}
      BY <1>0 DEF Ops, Moving
    <3> HIDE DEF pc, d
    <3>3. op' = [op EXCEPT !.pc = pc, !.moved = op.moved, !.deployed = d]
      BY <1>0, <3>1 DEF Ops
    <3> QED BY <2>4, <3>2, <3>3 DEF Deploy
  <2>5. CASE op.pc \in {"revert", "commit"} /\ op' = [op EXCEPT !.pc = "undo"]
    <3>1. /\ op' = [op EXCEPT !.pc = "undo", !.moved = op.moved, !.deployed = op.deployed]
          /\ op.moved \in BOOLEAN /\ op.deployed \in BOOLEAN /\ "undo" \in Moving \ {"check"}
      BY <1>0, <2>5 DEF Ops, Moving
    <3> QED BY <2>5, <3>1
  <2>6. CASE RevertDeploy
    BY <2>5, <2>6 DEF RevertDeploy
  <2>7. CASE CommitMove
    BY <2>5, <2>7 DEF CommitMove
  <2>8. CASE UndoMove
    <3>1. CASE op.deployed
      <4>1. op' = [op EXCEPT !.deployed = FALSE] /\ op.pc = "undo"
        BY <2>8, <3>1 DEF UndoMove
      <4>2. /\ op' = [op EXCEPT !.pc = "undo", !.moved = op.moved, !.deployed = FALSE]
            /\ op.moved \in BOOLEAN /\ FALSE \in BOOLEAN /\ "undo" \in Moving \ {"check"}
        BY <1>0, <4>1 DEF Ops, Moving
      <4> QED BY <4>1, <4>2
    <3>2. CASE ~op.deployed
      BY <2>8, <3>2 DEF UndoMove
    <3> QED BY <3>1, <3>2
  <2> QED BY <2>1, <2>2, <2>3, <2>4, <2>6, <2>7, <2>8 DEF Move
<1> QED BY <1>1, <1>4, <1>5, <1>6, <1>7, <1>8, <1>9

\* A step of the controller keeps the operation in place and changes its own
\* rollout's row only.
LEMMA FitsControl ==
  ASSUME TypeOK, OpFits, OneActive, Control
  PROVE  OpFits' /\ OneActive'
<1> USE DEF rows
<1>0. op \in Ops /\ state \in [Rollouts -> States]
  BY DEF TypeOK, States
<1>c. op.pc \in {"clear", "promoted", "split", "splitDone", "end", "endDone"}
  BY DEF Control, ClearSplit, RecordPromoted, Split, RecordSplit, UndoTraffic, RecordEnd
<1>r. /\ op.r \in Rollouts /\ op.r # NoRollout
      /\ op.first => state[op.r] = "NEW" /\ NoneActive /\ op.end \in {"CANARY", "AB"}
      /\ ~op.first => state[op.r] \in Active
  BY <1>c, ControlRow
\* Whatever the row becomes, no other rollout is active.
<1>o. ASSUME NEW s, state' = [state EXCEPT ![op.r] = s]
      PROVE  OneActive'
  <2>1. \A q \in Rollouts : q # op.r => state'[q] \notin Active
    BY <1>0, <1>o, <1>r DEF OneActive, NoneActive
  <2> QED BY <2>1 DEF OneActive
<1>u. UNCHANGED state => OneActive'
  BY DEF OneActive
<1>a. Abandon => OneActive'
  BY <1>o, <1>u DEF Abandon
<1>1. CASE op' = Idle
  <2>1. OneActive'
    BY <1>o, <1>u, <1>a DEF Control, ClearSplit, RecordPromoted, Split, RecordSplit, UndoTraffic,
                            RecordEnd
  <2> QED BY <1>1, <2>1, IdleFits
<1>2. CASE op' # Idle
  <2>1. /\ UNCHANGED <<state, stable>>
        /\ \/ op.pc = "clear" /\ op' = [op EXCEPT !.pc = "promoted"]
           \/ op.pc = "split" /\ op' = [op EXCEPT !.pc = "splitDone"]
           \/ op.pc = "split" /\ op.first /\ op' = [op EXCEPT !.pc = "end"]
           \/ op.pc = "end" /\ op' = [op EXCEPT !.pc = "endDone"]
    BY <1>2 DEF Control, ClearSplit, RecordPromoted, Split, RecordSplit, UndoTraffic, RecordEnd,
                Done, Goto
  <2>2. OpIdle' /\ OpMove'
    BY <1>0, <2>1 DEF OpIdle, OpMove, Ops, Moving
  <2>3. OpRow'
    BY <1>0, <1>r, <2>1 DEF OpFits, OpRow, NoneActive, Ops, Started
  <2>4. OpRecord'
    <3>1. /\ op'.pc \in {"promoted", "splitDone", "end", "endDone"}
          /\ op'.first = op.first /\ op'.end = op.end /\ op'.pct = op.pct /\ op'.at = op.at
          /\ op'.pc = "splitDone" => op.pc = "split"
          /\ op'.pc = "end" => op.first
          /\ op'.pc = "endDone" => op.pc = "end"
      BY <1>0, <2>1 DEF Ops
    <3> QED BY <3>1 DEF OpFits, OpRecord
  <2> QED BY <1>u, <2>1, <2>2, <2>3, <2>4 DEF OpFits
<1> QED BY <1>1, <1>2

\* What an operation on a stored rollout starts with suits the rollout.
StartFits(o, r) ==
  \/ o = Idle
  \/ /\ o.r = r /\ ~o.first /\ ~o.moved /\ ~o.deployed /\ o.pc \in {"check", "end", "split"}
     /\ o.pc = "check" => o.to = CandidateOf[r]
     /\ o.pc = "end" => o.end \in {"ROLLED_BACK", "EXPIRED", "REJECTED"}
     /\ o.pc = "split" => o.end \in {"CANARY", "AB"} /\ o.pct \in 1 .. 99 /\ o.at >= 1

\* Whatever a rollout starts with is its own candidate's and begins at the first
\* call.
LEMMA StartsFit ==
  ASSUME NEW r \in Rollouts, NEW o \in Starts(r)
  PROVE  StartFits(o, r)
<1>1. StartFits(Promoting(r, CandidateOf[r]), r)
  BY DEF StartFits, Promoting, Idle
<1>2. ASSUME NEW s \in {"EXPIRED", "ROLLED_BACK", "REJECTED"}
      PROVE  StartFits(Ending(r, s), r)
  BY DEF StartFits, Ending, Idle
<1>3. ASSUME NEW i \in 1 .. Len(CanarySteps)
      PROVE  StartFits(CanaryStep(r, i), r)
  <2>1. CASE CanarySteps[i] >= 100
    BY <1>1, <2>1 DEF CanaryStep
  <2>2. CASE ~(CanarySteps[i] >= 100)
    <3>1. CanarySteps[i] \in 1 .. 99 /\ i >= 1
      BY <2>2, CanaryPercents
    <3>2. CanaryStep(r, i) = Splitting(r, "CANARY", CanarySteps[i], i)
      BY <2>2 DEF CanaryStep
    <3> QED BY <3>1, <3>2 DEF StartFits, Splitting, Idle
  <2> QED BY <2>1, <2>2
<1>4. StartFits(Idle, r)
  BY DEF StartFits
<1> QED BY <1>1, <1>2, <1>3, <1>4 DEF Starts

\* The record of a rollout that is being started.
LEMMA OpeningFits ==
  ASSUME NEW r \in Rollouts, NEW o, Opening(o, r)
  PROVE  /\ o.r = r /\ o.first /\ o.pc = "split" /\ o.end \in {"CANARY", "AB"}
         /\ o.pct \in 1 .. 99 /\ o.at = 1
  BY DEF Opening, Splitting, Idle

\* Every step keeps the operation in place and one rollout active.
LEMMA FitsStep ==
  ASSUME TypeOK, OpFits, OneActive, [Next]_vars
  PROVE  OpFits' /\ OneActive'
<1> USE DEF vars, serving, history, rows
<1>0. op \in Ops /\ state \in [Rollouts -> States] /\ NoRollout \notin Rollouts
  BY DeliveryConstants DEF TypeOK, States
<1>1. CASE Move
  BY <1>1, FitsMove DEF OneActive
<1>2. CASE Control
  BY <1>2, FitsControl
<1>3. CASE Crash
  <2>1. OneActive'
    BY <1>0, <1>3 DEF Crash, Abandon, OneActive, Active, States
  <2> QED BY <1>3, <2>1, IdleFits DEF Crash, Done
<1>4. ASSUME NEW r \in Rollouts, StartRollout(r)
      PROVE  OpFits' /\ OneActive'
  <2>1. OneActive'
    BY <1>0, <1>4, StartShape DEF OneActive, NoneActive
  <2>2. CASE op' = Idle
    BY <2>1, <2>2, IdleFits
  <2>3. CASE Opening(op', r) /\ state' = state
    <3>1. /\ op'.r = r /\ op'.first /\ op'.pc = "split" /\ op'.end \in {"CANARY", "AB"}
          /\ op'.pct \in 1 .. 99 /\ op'.at = 1
      BY <2>3, OpeningFits
    <3>2. state'[r] = "NEW" /\ NoneActive'
      BY <1>4, <2>3, StartShape DEF NoneActive
    <3> QED BY <1>0, <2>1, <3>1, <3>2 DEF OpFits, OpIdle, OpRow, OpMove, OpRecord, Moving, Started
  <2>4. CASE op' = Promoting(r, CandidateOf[r]) /\ state' = [state EXCEPT ![r] = "CANARY"]
    <3>1. op'.r = r /\ ~op'.first /\ op'.pc = "check" /\ op'.to = CandidateOf[r]
      BY <2>4 DEF Promoting, Idle
    <3>2. state'[r] \in Active
      BY <1>0, <2>4 DEF Active
    <3> QED BY <1>0, <2>1, <3>1, <3>2 DEF OpFits, OpIdle, OpRow, OpMove, OpRecord, Moving, Started
  <2> QED BY <1>4, <2>2, <2>3, <2>4, StartShape
<1>5. ASSUME NEW r \in Rollouts, Tick(r) \/ Approve(r) \/ Reject(r)
      PROVE  OpFits' /\ OneActive'
  <2>0. state'[r] \in Active
    BY <1>0, <1>5, OperationShape DEF Active
  <2>1. OneActive'
    BY <1>0, <1>5, OperationShape DEF OneActive
  <2>2. op = Idle
    BY <1>5, OperationShape DEF OpFits, OpIdle
  <2>3. StartFits(op', r)
    <3>1. StartFits(Idle, r)
      BY DEF StartFits
    <3> QED BY <1>5, <2>2, <3>1, OperationShape, StartsFit
  <2>4. CASE op' = Idle
    BY <2>1, <2>4, IdleFits
  <2>5. CASE op' # Idle
    BY <1>0, <2>0, <2>1, <2>3, <2>5 DEF StartFits, OpFits, OpIdle, OpRow, OpMove, OpRecord,
       Moving, Started
  <2> QED BY <2>4, <2>5
<1>6. ASSUME NEW v \in Versions, Rollback(v)
      PROVE  OpFits' /\ OneActive'
  <2>1. op' = Promoting(NoRollout, v) /\ UNCHANGED state
    BY <1>6 DEF Rollback, Begins
  <2>2. op'.r = NoRollout /\ ~op'.first /\ op'.pc = "check"
    BY <2>1 DEF Promoting, Idle
  <2> QED BY <2>1, <2>2 DEF OneActive, OpFits, OpIdle, OpRow, OpMove, OpRecord, Moving
<1>7. CASE UNCHANGED vars
  BY <1>7 DEF OneActive, OpFits, OpIdle, OpRow, OpMove, OpRecord, NoneActive
<1> QED BY <1>1, <1>2, <1>3, <1>4, <1>5, <1>6, <1>7 DEF Next, Operation

\* Every step keeps promote_version's flags right.
LEMMA FlagsStep ==
  ASSUME TypeOK, OpFits, OpFlags, [Next]_vars
  PROVE  OpFlags'
<1>0. op \in Ops
  BY DEF TypeOK
<1>1. CASE Move
  <2>1. CASE PromoteChecks
    <3>1. \/ op'.pc \in {"idle", "end", "clear"}
          \/ /\ op.pc = "check" /\ op'.pc = "alias"
             /\ op'.moved = op.moved /\ op'.deployed = op.deployed
      BY <1>0, <2>1, EndsAt DEF PromoteChecks, Ops
    <3> QED BY <3>1 DEF OpFlags
  <2>2. CASE PromoteRefused
    BY <2>2, EndsAt DEF PromoteRefused, OpFlags
  <2>3. CASE MoveAlias
    <3>1. op'.pc \in {"deploy", "undo"} /\ op'.deployed = op.deployed /\ op.pc = "alias"
      BY <1>0, <2>3 DEF MoveAlias, Ops
    <3> QED BY <3>1 DEF OpFlags
  <2>4. CASE Deploy
    <3>1. op'.pc \in {"commit", "revert"} /\ (op'.deployed <=> op'.pc = "commit")
      BY <1>0, <2>4 DEF Deploy, Ops
    <3> QED BY <3>1 DEF OpFlags
  <2>5. CASE RevertDeploy
    BY <1>0, <2>5 DEF RevertDeploy, Goto, OpFlags, Ops
  <2>6. CASE CommitMove
    BY <1>0, <2>6, EndsAt DEF CommitMove, Goto, OpFlags, Ops
  <2>7. CASE UndoMove
    <3>1. op'.pc \in {"idle", "end", "undo"}
      BY <1>0, <2>7, EndsAt DEF UndoMove, Ops
    <3> QED BY <3>1 DEF OpFlags
  <2> QED BY <1>1, <2>1, <2>2, <2>3, <2>4, <2>5, <2>6, <2>7 DEF Move
<1>2. CASE Control \/ Crash
  <2>1. op'.pc \in {"idle", "promoted", "splitDone", "end", "endDone"}
    BY <1>0, <1>2 DEF Control, ClearSplit, RecordPromoted, Split, RecordSplit, UndoTraffic,
       RecordEnd, Crash, Done, Goto, Idle, Ops
  <2> QED BY <2>1 DEF OpFlags
<1>3. ASSUME NEW r \in Rollouts, Operation(r)
      PROVE  OpFlags'
  <2>1. op = Idle
    BY <1>3, StartShape, OperationShape DEF Operation, OpFits, OpIdle
  <2>2. op' \in Starts(r) \union {op} \/ Opening(op', r)
    BY <1>3, StartShape, OperationShape DEF Operation, Starts
  <2>3. CASE op' \in Starts(r) \union {op}
    BY <2>1, <2>3, StartsFit DEF StartFits, OpFlags, Idle
  <2>4. CASE Opening(op', r)
    BY <2>4, OpeningFits DEF OpFlags
  <2> QED BY <2>2, <2>3, <2>4
<1>4. ASSUME NEW v \in Versions, Rollback(v)
      PROVE  OpFlags'
  BY <1>4 DEF Rollback, Begins, Promoting, Idle, OpFlags
<1>5. CASE UNCHANGED vars
  BY <1>5 DEF vars, OpFlags
<1> QED BY <1>1, <1>2, <1>3, <1>4, <1>5 DEF Next

-----------------------------------------------------------------------------
(* Where LIVE is.                                                          *)

Told == {"refused", "halfway", "down"}

\* The next LIVE of a move is the one the history explains.
LEMMA LiveMove ==
  ASSUME TypeOK, OpFits, LiveTraced, Move
  PROVE  LiveTraced'
<1> USE DEF rows, history, serving
<1>0. op \in Ops /\ last \in [from : AnyVersion, to : AnyVersion, by : Rollouts \union {NoRollout}]
  BY DEF TypeOK
<1> SUFFICES ASSUME Only(Told)' PROVE LiveTraced'
  BY DEF LiveTraced, Told
<1>n. ASSUME NEW a \in Answers, Notes(a)
      PROVE  Only(Told) /\ (a # "ok" => a \in Told /\ faults = <<>> /\ faults' # <<>>)
  BY <1>n, AnswerKinds, OnlyStep
<1>u. UNCHANGED faults => Only(Told)
  BY DEF Only
<1>1. CASE PromoteChecks
  <2>1. Only(Told) /\ UNCHANGED <<live, last, faults>> /\ op.pc = "check"
    BY <1>1, <1>u DEF PromoteChecks
  <2>2. live = last.to
    BY <2>1 DEF LiveTraced, Told
  <2>3. \/ op'.pc \in {"idle", "end", "clear"}
        \/ op'.pc = "alias" /\ op'.from = live
    BY <1>0, <1>1, EndsAt DEF PromoteChecks, Ops
  <2> QED BY <2>1, <2>2, <2>3 DEF LiveTraced
<1>2. CASE PromoteRefused
  <2>1. Only(Told) /\ UNCHANGED <<live, last>> /\ op.pc = "check"
    BY <1>2, <1>n DEF PromoteRefused
  <2>2. op'.pc \in {"idle", "end"}
    BY <1>2, EndsAt DEF PromoteRefused
  <2> QED BY <2>1, <2>2 DEF LiveTraced, Told
<1>3. CASE MoveAlias
  <2> PICK a \in Answers :
        /\ live' = IF TakesEffect(a) THEN op.to ELSE live
        /\ op' = [op EXCEPT !.pc = IF a = "ok" THEN "deploy" ELSE "undo",
                            !.moved = a \in {"ok", "halfway"}]
        /\ Notes(a)
    BY <1>3 DEF MoveAlias
  <2>1. /\ Only(Told) /\ a \in {"ok"} \union Told /\ (a # "ok" => faults' # <<>>)
        /\ op.pc = "alias" /\ UNCHANGED last
    BY <1>3, <1>n DEF MoveAlias
  <2>2. live = last.to /\ op.from = live
    BY <2>1 DEF LiveTraced, Told
  <2>3. /\ op'.pc = IF a = "ok" THEN "deploy" ELSE "undo"
        /\ op'.to = op.to /\ op'.from = op.from /\ (op'.moved <=> a \in {"ok", "halfway"})
    BY <1>0 DEF Ops
  <2>4. live' = IF op'.moved THEN op'.to ELSE op'.from
    BY <2>1, <2>2, <2>3 DEF TakesEffect, Told
  <2> QED BY <2>1, <2>2, <2>3, <2>4 DEF LiveTraced
<1>4. CASE Deploy
  <2> PICK a \in Answers :
        /\ op' = [op EXCEPT !.pc = IF a = "ok" THEN "commit" ELSE "revert",
                            !.deployed = a = "ok"]
        /\ Notes(a)
    BY <1>4 DEF Deploy
  <2>1. Only(Told) /\ (a # "ok" => faults' # <<>>) /\ op.pc = "deploy" /\ UNCHANGED <<live, last>>
    BY <1>4, <1>n DEF Deploy
  <2>2. /\ op'.pc = IF a = "ok" THEN "commit" ELSE "revert"
        /\ op'.to = op.to /\ op'.from = op.from /\ op'.moved = op.moved
    BY <1>0 DEF Ops
  <2> QED BY <2>1, <2>2 DEF LiveTraced, Told
<1>5. CASE RevertDeploy
  <2>1. Only(Told) /\ UNCHANGED <<live, last>> /\ op.pc = "revert"
    BY <1>5, <1>n DEF RevertDeploy
  <2>2. op'.pc = "undo" /\ op'.to = op.to /\ op'.from = op.from /\ op'.moved = op.moved
    BY <1>0, <1>5 DEF RevertDeploy, Goto, Ops
  <2>3. faults' # <<>>
    BY <1>5, <1>n, <2>1 DEF RevertDeploy, LiveTraced, Told, Notes
  <2> QED BY <2>1, <2>2, <2>3 DEF LiveTraced, Told
<1>6. CASE CommitMove
  <2> PICK a \in Answers \ {"halfway"} :
       /\ IF TakesEffect(a) THEN last' = [from |-> op.from, to |-> op.to, by |-> op.r] ELSE UNCHANGED last
       /\ IF a = "ok" THEN Succeeds ELSE Goto("undo")
       /\ Notes(a)
    BY <1>6 DEF CommitMove
  <2>1. /\ Only(Told) /\ a \in {"ok"} \union Told /\ (a # "ok" => faults' # <<>>)
        /\ op.pc = "commit" /\ UNCHANGED live
    BY <1>6, <1>n DEF CommitMove
  <2>2. live = op.to /\ op.from = last.to /\ op.moved
    BY <2>1 DEF LiveTraced, Told
  <2>3. CASE a = "ok"
    <3>1. last'.to = op.to /\ op'.pc \in {"idle", "clear"}
      BY <1>0, <2>3 DEF TakesEffect, Succeeds, Done, Goto, Idle, Ops
    <3> QED BY <2>1, <2>2, <3>1 DEF LiveTraced
  <2>4. CASE a # "ok"
    <3>1. UNCHANGED last
      BY <2>1, <2>4 DEF TakesEffect, Told
    <3>2. op'.pc = "undo" /\ op'.to = op.to /\ op'.from = op.from /\ op'.moved = op.moved
      BY <1>0, <2>4 DEF Goto, Ops
    <3> QED BY <2>1, <2>2, <2>4, <3>1, <3>2 DEF LiveTraced
  <2> QED BY <2>3, <2>4
<1>7. CASE UndoMove
  <2>1. op.pc = "undo" /\ UNCHANGED last
    BY <1>7 DEF UndoMove
  <2>2. Only(Told)
    BY <1>7, <1>n, <1>u DEF UndoMove
  <2>3. op.from = last.to /\ faults # <<>> /\ live = IF op.moved THEN op.to ELSE op.from
    BY <2>1, <2>2 DEF LiveTraced, Told
  <2>4. CASE op.deployed
    <3>1. UNCHANGED live /\ op' = [op EXCEPT !.deployed = FALSE]
      BY <1>7, <2>4 DEF UndoMove
    <3>2. op'.pc = "undo" /\ op'.to = op.to /\ op'.from = op.from /\ op'.moved = op.moved
      BY <1>0, <2>1, <3>1 DEF Ops
    <3>3. faults' # <<>>
      BY <1>7, <1>n, <2>3, <2>4 DEF UndoMove, Notes
    <3> QED BY <2>1, <2>3, <3>1, <3>2, <3>3 DEF LiveTraced
  <2>5. CASE ~op.deployed
    <3>1. op'.pc \in {"idle", "end"}
      BY <1>7, <2>5, EndsAt DEF UndoMove
    <3>2. live' = op.from
      BY <1>7, <1>n, <2>3, <2>5 DEF UndoMove, RestoreAlias, TakesEffect
    <3> QED BY <2>1, <2>3, <3>1, <3>2 DEF LiveTraced
  <2> QED BY <2>4, <2>5
<1> QED BY <1>1, <1>2, <1>3, <1>4, <1>5, <1>6, <1>7 DEF Move

\* Outside a move, LIVE and the history stay as they are.
LEMMA RestShape ==
  ASSUME TypeOK, OpFits,
         \/ Control
         \/ \E r \in Rollouts : Operation(r)
         \/ \E v \in Versions : Rollback(v)
  PROVE  /\ UNCHANGED <<live, last, keys, overtaken>>
         /\ op.pc \notin Moving /\ op'.pc \notin Moving \ {"check"}
         /\ UNCHANGED faults \/ \E a \in Answers : Notes(a)
<1> USE DEF rows, history, serving
<1>0. op \in Ops
  BY DEF TypeOK
<1>1. CASE Control
  <2>1. UNCHANGED <<live, last, keys, overtaken>>
    BY <1>1 DEF Control, ClearSplit, RecordPromoted, Split, RecordSplit, UndoTraffic, RecordEnd
  <2>2. op.pc \in {"clear", "promoted", "split", "splitDone", "end", "endDone"}
    BY <1>1 DEF Control, ClearSplit, RecordPromoted, Split, RecordSplit, UndoTraffic, RecordEnd
  <2>3. op'.pc \in {"idle", "promoted", "splitDone", "end", "endDone"}
    BY <1>0, <1>1, EndsAt DEF Control, ClearSplit, RecordPromoted, Split, RecordSplit,
       UndoTraffic, RecordEnd, Goto, Ops
  <2>4. UNCHANGED faults \/ \E a \in Answers : Notes(a)
    BY <1>1 DEF Control, ClearSplit, RecordPromoted, Split, RecordSplit, UndoTraffic, RecordEnd
  <2> QED BY <2>1, <2>2, <2>3, <2>4 DEF Moving
<1>2. ASSUME NEW r \in Rollouts, Operation(r)
      PROVE  /\ UNCHANGED <<live, last, keys, overtaken, faults>>
             /\ op.pc = "idle" /\ op'.pc \notin Moving \ {"check"}
  <2>1. UNCHANGED <<live, last, keys, overtaken, faults>> /\ op = Idle /\ op.pc = "idle"
    BY <1>2, StartShape, OperationShape DEF Operation, OpFits, OpIdle
  <2>2. op' \in Starts(r) \union {op} \/ Opening(op', r)
    BY <1>2, StartShape, OperationShape DEF Operation, Starts
  <2>3. CASE op' \in Starts(r) \union {op}
    BY <2>1, <2>3, StartsFit DEF StartFits, Moving, Idle
  <2>4. CASE Opening(op', r)
    BY <2>1, <2>4, OpeningFits DEF Moving
  <2> QED BY <2>1, <2>2, <2>3, <2>4
<1>3. ASSUME NEW v \in Versions, Rollback(v)
      PROVE  /\ UNCHANGED <<live, last, keys, overtaken, faults>>
             /\ op.pc = "idle" /\ op'.pc \notin Moving \ {"check"}
  BY <1>3 DEF Rollback, Begins, Quiet, Promoting, Idle, Moving
<1> QED BY <1>1, <1>2, <1>3 DEF Moving

\* A crash is neither a refusal nor an unreachable call.
LEMMA CrashTold ==
  ASSUME TypeOK, Crash
  PROVE  ~Only(Told)' /\ ~Only({"refused", "halfway"})'
<1>1. "crash" \in {"ok"} \union FaultKinds /\ Notes("crash")
  BY DEF Crash, Notes, FaultKinds
<1> QED BY <1>1, OnlyStep DEF Told

\* Every step keeps LIVE explained.
LEMMA LiveStep ==
  ASSUME TypeOK, OpFits, LiveTraced, [Next]_vars
  PROVE  LiveTraced'
<1>1. CASE Move
  BY <1>1, LiveMove
<1>2. CASE \/ Control
           \/ \E r \in Rollouts : Operation(r)
           \/ \E v \in Versions : Rollback(v)
  <2> SUFFICES ASSUME Only(Told)' PROVE LiveTraced'
    BY DEF LiveTraced, Told
  <2>1. Only(Told)
    <3>1. UNCHANGED faults => Only(Told)
      BY DEF Only
    <3> QED BY <1>2, <3>1, RestShape, AnswerKinds, OnlyStep
  <2> QED BY <1>2, <2>1, RestShape DEF LiveTraced, Moving, Told
<1>3. CASE Crash
  BY <1>3, CrashTold DEF LiveTraced, Told
<1>4. CASE UNCHANGED vars
  BY <1>4 DEF vars, history, LiveTraced, Only
<1> QED BY <1>1, <1>2, <1>3, <1>4 DEF Next

-----------------------------------------------------------------------------
(* What serves.                                                            *)

Refused == {"refused", "halfway"}

\* A stored promotion ends its rollout.
LEMMA KeysStep ==
  ASSUME TypeOK, OpFits, KeysEnd, [Next]_vars
  PROVE  KeysEnd'
<1> USE DEF rows, history
<1>0. op \in Ops /\ keys \subseteq Rollouts /\ state \in [Rollouts -> States] /\ NoRollout \notin keys
  BY DeliveryConstants DEF TypeOK, States
<1>c. CASE Crash
  BY <1>c, CrashTold DEF KeysEnd
<1>s. CASE UNCHANGED vars
  BY <1>s DEF vars, KeysEnd, Only
<1>n. CASE ~Crash /\ Next
  <2> SUFFICES ASSUME Only(Refused)', NEW r \in keys'
               PROVE  state'[r] = "PROMOTED" \/ (op'.r = r /\ op'.pc \in {"clear", "promoted"})
    BY DEF KeysEnd, Refused
  <2>u. UNCHANGED faults => Only(Refused)
    BY DEF Only
  <2>n. ASSUME NEW a \in Answers, Notes(a)
        PROVE  Only(Refused) /\ (a # "ok" => a \in Refused)
    BY <2>n, AnswerKinds, OnlyStep
  <2>o. Only(Refused)
    <3>1. CASE Move
      BY <3>1, <2>u, <2>n DEF Move, PromoteChecks, PromoteRefused, MoveAlias, Deploy, RevertDeploy,
         CommitMove, UndoMove
    <3>2. CASE ~Move
      BY <3>2, <1>n, <2>u, <2>n, RestShape DEF Next
    <3> QED BY <3>1, <3>2
  <2>k. \A q \in keys : state[q] = "PROMOTED" \/ (op.r = q /\ op.pc \in {"clear", "promoted"})
    BY <2>o DEF KeysEnd, Refused
  <2>1. CASE Move
    <3>0. UNCHANGED state /\ op.pc \in Moving
      BY <2>1 DEF Move, PromoteChecks, PromoteRefused, MoveAlias, Deploy, RevertDeploy,
         CommitMove, UndoMove, Moving
    <3>1. CASE r \in keys
      BY <2>k, <3>0, <3>1 DEF Moving
    <3>2. CASE r \notin keys
      <4>1. op.r = r /\ r # NoRollout /\ Succeeds
        <5>1. CASE PromoteChecks
          BY <1>0, <3>2, <5>1 DEF PromoteChecks
        <5>2. CASE CommitMove
          <6> PICK a \in Answers \ {"halfway"} :
               /\ IF TakesEffect(a) THEN keys' = keys \union ({op.r} \ {NoRollout})
                                    ELSE UNCHANGED keys
               /\ IF a = "ok" THEN Succeeds ELSE Goto("undo")
               /\ Notes(a)
            BY <5>2 DEF CommitMove
          <6>1. a \in {"ok", "refused"}
            BY <2>n DEF Refused
          <6> QED BY <1>0, <3>2, <6>1 DEF TakesEffect
        <5>3. UNCHANGED keys \/ PromoteChecks \/ CommitMove
          BY <2>1 DEF Move, PromoteRefused, MoveAlias, Deploy, RevertDeploy, UndoMove
        <5> QED BY <3>2, <5>1, <5>2, <5>3
      <4> QED BY <1>0, <4>1, EndsAt DEF Succeeds, Goto, Ops
    <3> QED BY <3>1, <3>2
  <2>2. CASE Control
    <3>0. /\ UNCHANGED keys /\ op.r \in Rollouts
          /\ op.pc \in {"clear", "promoted", "split", "splitDone", "end", "endDone"}
          /\ state[op.r] # "PROMOTED"
      <4>1. op.pc \in {"clear", "promoted", "split", "splitDone", "end", "endDone"}
        BY <2>2 DEF Control, ClearSplit, RecordPromoted, Split, RecordSplit, UndoTraffic, RecordEnd
      <4> QED BY <2>2, <4>1, RestShape, ControlRow DEF Active
    <3>1. \A q \in Rollouts \ {op.r} : state'[q] = state[q]
      BY <1>0, <2>2 DEF Control, ClearSplit, RecordPromoted, Split, RecordSplit, UndoTraffic,
         RecordEnd, Abandon
    <3>2. CASE r # op.r
      BY <1>0, <2>k, <3>0, <3>1, <3>2
    <3>3. CASE r = op.r
      <4>1. op.pc \in {"clear", "promoted"}
        BY <2>k, <3>0, <3>3
      <4>2. CASE RecordPromoted
        BY <1>0, <3>0, <3>3, <4>2 DEF RecordPromoted
      <4>3. CASE ClearSplit
        <5>1. Goto("promoted")
          BY <2>n, <4>3 DEF ClearSplit, Refused
        <5> QED BY <1>0, <3>3, <5>1 DEF Goto, Ops
      <4> QED BY <2>2, <4>1, <4>2, <4>3 DEF Control, Split, RecordSplit, UndoTraffic, RecordEnd
    <3> QED BY <3>2, <3>3
  <2>3. ASSUME NEW q \in Rollouts, Operation(q)
        PROVE  state'[r] = "PROMOTED"
    <3>1. UNCHANGED keys /\ op.pc = "idle" /\ state[r] = "PROMOTED"
      BY <2>3, <2>k, StartShape, OperationShape DEF Operation
    <3>2. /\ state[q] = "NEW" \/ state[q] \in Active
          /\ state' = state \/ \E s \in Active : state' = [state EXCEPT ![q] = s]
      BY <2>3, StartShape, OperationShape DEF Operation, Active
    <3> QED BY <1>0, <3>1, <3>2 DEF Active
  <2>4. ASSUME NEW v \in Versions, Rollback(v)
        PROVE  state'[r] = "PROMOTED"
    BY <2>4, <2>k DEF Rollback, Begins, Quiet
  <2> QED BY <1>n, <2>1, <2>2, <2>3, <2>4 DEF Next
<1> QED BY <1>c, <1>s, <1>n

\* A step after which nothing was disturbed, disturbed nothing.
LEMMA UndisturbedBefore ==
  ASSUME TypeOK, OpFits, Next, Undisturbed'
  PROVE  /\ Undisturbed /\ ~Crash
         /\ Only(Told) /\ Only(Told)'
         /\ \A a \in Answers : Notes(a) /\ a # "ok" => a \in Refused /\ faults = <<>> /\ faults' # <<>>
<1> USE DEF history
<1>1. ~Crash
  BY CrashTold DEF Undisturbed
<1>2. UNCHANGED faults \/ \E a \in Answers : Notes(a)
  <2>1. CASE Move
    BY <2>1 DEF Move, PromoteChecks, PromoteRefused, MoveAlias, Deploy, RevertDeploy, CommitMove,
                UndoMove
  <2> QED BY <1>1, <2>1, RestShape DEF Next
<1>3. overtaken \subseteq overtaken'
  <2>1. CASE Move
    BY <2>1 DEF Move, PromoteChecks, PromoteRefused, MoveAlias, Deploy, RevertDeploy, CommitMove,
                UndoMove
  <2> QED BY <1>1, <2>1, RestShape DEF Next
<1>4. ASSUME NEW a \in Answers, Notes(a)
      PROVE  Only(Refused) /\ (a # "ok" => a \in Refused /\ faults = <<>> /\ faults' # <<>>)
  BY <1>4, AnswerKinds, OnlyStep DEF Undisturbed, Refused
<1>5. Only(Refused)
  <2>1. UNCHANGED faults => Only(Refused)
    BY DEF Only, Undisturbed, Refused
  <2> QED BY <1>2, <1>4, <2>1
<1>6. Only(Refused) => Only(Told)
  BY DEF Only, Refused, Told
<1>7. Only(Refused)' => Only(Told)'
  BY DEF Only, Refused, Told
<1> QED BY <1>1, <1>3, <1>4, <1>5, <1>6, <1>7 DEF Undisturbed, Refused

\* A move keeps the rollout measured against what was live before it.
LEMMA MeasuredMove ==
  ASSUME TypeOK, OpFits, OneActive, LiveTraced, KeysEnd, Measured, Move, Next
  PROVE  Measured'
<1> USE DEF rows, history, serving
<1> SUFFICES ASSUME Undisturbed', NEW r \in Rollouts, state'[r] \in Active \/ op'.r = r
             PROVE  IF op'.r = r /\ op'.pc \in {"clear", "promoted"} THEN live' = CandidateOf[r]
                    ELSE stable'[r] = Base'
  BY DEF Measured
<1>u. Undisturbed /\ Only(Told)
  BY UndisturbedBefore
<1>a. \A a \in Answers : Notes(a) /\ a # "ok" => a \in Refused /\ faults = <<>> /\ faults' # <<>>
  BY UndisturbedBefore
<1>0. op \in Ops /\ r # NoRollout /\ UNCHANGED <<state, stable>>
  BY FitsMove, DeliveryConstants DEF TypeOK
<1>m. op.pc \in Moving
  BY DEF Move, PromoteChecks, PromoteRefused, MoveAlias, Deploy, RevertDeploy, CommitMove,
         UndoMove, Moving
<1>s. state[r] \in Active \/ op.r = r => stable[r] = Base
  BY <1>m, <1>u DEF Measured, Moving
<1>1. CASE PromoteChecks
  <2>0. op.pc = "check" /\ Base = live /\ UNCHANGED live
    BY <1>1 DEF PromoteChecks, Base
  <2>1. op.r # NoRollout => op.r \notin keys /\ ~Conflict
    <3>1. ASSUME op.r # NoRollout
          PROVE  op.r \in Rollouts /\ state[op.r] \in Active /\ stable[op.r] = live
      BY <1>0, <1>u, <2>0, <3>1 DEF OpFits, OpRow, Started, Ops, Measured
    <3>2. op.r \in keys => state[op.r] = "PROMOTED"
      BY <1>u, <2>0 DEF KeysEnd, Undisturbed
    <3> QED BY <3>1, <3>2 DEF Conflict, Active
  <2>2. CASE op' = [op EXCEPT !.pc = "alias", !.from = live, !.before = served]
    <3>1. op'.pc = "alias" /\ op'.r = op.r
      BY <1>0, <2>2 DEF Ops
    <3> QED BY <1>0, <1>s, <2>0, <3>1 DEF Base
  <2>3. CASE op.r = NoRollout /\ op' = Idle
    BY <1>0, <1>s, <2>0, <2>3 DEF Base, Idle
  <2>4. CASE op.r # NoRollout /\ op' = [op EXCEPT !.pc = "clear"] /\ live = op.to
    <3>1. op'.pc = "clear" /\ op'.r = op.r
      BY <1>0, <2>4 DEF Ops
    <3>2. op.to = CandidateOf[op.r]
      BY <1>m, <2>4 DEF OpFits, OpMove
    <3> QED BY <1>0, <1>s, <2>0, <2>4, <3>1, <3>2 DEF Base
  <2> QED BY <1>0, <1>1, <2>1, <2>2, <2>3, <2>4, DeliveryConstants
          DEF PromoteChecks, Succeeds, Fails, Done, Goto, Conflict, TypeOK
<1>2. CASE PromoteRefused
  <2>1. op'.pc \in {"idle", "end"} /\ (op'.r = op.r \/ op'.r = NoRollout) /\ op.pc = "check"
        /\ UNCHANGED live
    BY <1>2, EndsAt DEF PromoteRefused
  <2> QED BY <1>0, <1>s, <2>1 DEF Base
<1>3. CASE MoveAlias
  <2>1. op'.pc \in {"deploy", "undo"} /\ op'.r = op.r /\ op'.from = op.from /\ op.pc = "alias"
    BY <1>0, <1>3 DEF MoveAlias, Ops
  <2>2. op.from = live
    BY <1>u, <2>1 DEF LiveTraced, Told
  <2> QED BY <1>0, <1>s, <2>1, <2>2 DEF Base
<1>4. CASE Deploy
  <2>1. op'.pc \in {"commit", "revert"} /\ op'.r = op.r /\ op'.from = op.from /\ op.pc = "deploy"
    BY <1>0, <1>4 DEF Deploy, Ops
  <2> QED BY <1>0, <1>s, <2>1 DEF Base
<1>5. CASE RevertDeploy
  <2>1. op'.pc = "undo" /\ op'.r = op.r /\ op'.from = op.from /\ op.pc = "revert"
    BY <1>0, <1>5 DEF RevertDeploy, Goto, Ops
  <2> QED BY <1>0, <1>s, <2>1 DEF Base
<1>6. CASE CommitMove
  <2> PICK a \in Answers \ {"halfway"} :
       /\ IF TakesEffect(a)
          THEN overtaken' = overtaken \union
                    {q \in Rollouts : op.r = NoRollout /\ state[q] \in Active}
          ELSE UNCHANGED overtaken
       /\ IF a = "ok" THEN Succeeds ELSE Goto("undo")
       /\ Notes(a)
    BY <1>6 DEF CommitMove
  <2>0. op.pc = "commit" /\ UNCHANGED live
    BY <1>6 DEF CommitMove
  <2>1. CASE a # "ok"
    <3>1. op'.pc = "undo" /\ op'.r = op.r /\ op'.from = op.from
      BY <1>0, <2>1 DEF Goto, Ops
    <3> QED BY <1>0, <1>s, <2>0, <3>1 DEF Base
  <2>2. CASE a = "ok" /\ op.r = NoRollout
    <3>1. op' = Idle /\ state[r] \notin Active
      BY <2>2 DEF Succeeds, Done, TakesEffect, Undisturbed
    <3> QED BY <1>0, <3>1 DEF Idle
  <2>3. CASE a = "ok" /\ op.r # NoRollout
    <3>1. op'.pc = "clear" /\ op'.r = op.r
      BY <1>0, <2>3 DEF Succeeds, Goto, Ops
    <3>2. r = op.r
      <4>1. op.r \in Rollouts /\ state[op.r] \in Active
        BY <1>0, <2>0, <2>3 DEF OpFits, OpRow, Started, Ops
      <4> QED BY <1>0, <3>1, <4>1 DEF OneActive
    <3>3. live = op.to /\ op.to = CandidateOf[op.r]
      BY <1>m, <1>u, <2>0, <2>3 DEF LiveTraced, Told, OpFits, OpMove
    <3> QED BY <2>0, <3>1, <3>2, <3>3
  <2> QED BY <2>1, <2>2, <2>3
<1>7. CASE UndoMove
  <2>0. op.pc = "undo" /\ faults # <<>> /\ op.from = last.to
        /\ live = IF op.moved THEN op.to ELSE op.from
    BY <1>7, <1>u DEF UndoMove, LiveTraced, Told
  <2>1. CASE op.deployed
    <3>1. op'.pc = "undo" /\ op'.r = op.r /\ op'.from = op.from
      BY <1>0, <1>7, <2>0, <2>1 DEF UndoMove, Ops
    <3> QED BY <1>0, <1>s, <2>0, <3>1 DEF Base
  <2>2. CASE ~op.deployed
    <3>1. op'.pc \in {"idle", "end"} /\ (op'.r = op.r \/ op'.r = NoRollout)
      BY <1>7, <2>2, EndsAt DEF UndoMove
    <3>2. live' = op.from
      BY <1>7, <1>a, <2>0, <2>2 DEF UndoMove, RestoreAlias, TakesEffect
    <3> QED BY <1>0, <1>s, <2>0, <3>1, <3>2 DEF Base
  <2> QED BY <2>1, <2>2
<1> QED BY <1>1, <1>2, <1>3, <1>4, <1>5, <1>6, <1>7 DEF Move

\* Every step keeps the rollout measured against what is live.
LEMMA MeasuredStep ==
  ASSUME TypeOK, OpFits, OneActive, LiveTraced, KeysEnd, Measured, [Next]_vars
  PROVE  Measured'
<1> USE DEF rows
<1>0. op \in Ops /\ state \in [Rollouts -> States] /\ stable \in [Rollouts -> AnyVersion]
      /\ NoRollout \notin Rollouts
  BY DeliveryConstants DEF TypeOK, States
<1>1. CASE UNCHANGED vars
  BY <1>1 DEF vars, history, Measured, Base, Undisturbed, Only
<1>2. CASE Next /\ Move
  BY <1>2, MeasuredMove
<1>3. CASE Next /\ ~Move
  <2> SUFFICES ASSUME Undisturbed', NEW r \in Rollouts, state'[r] \in Active \/ op'.r = r
               PROVE  IF op'.r = r /\ op'.pc \in {"clear", "promoted"} THEN live' = CandidateOf[r]
                      ELSE stable'[r] = Base'
    BY DEF Measured
  <2>u. Undisturbed /\ ~Crash
    BY <1>3, UndisturbedBefore
  <2>a. \A a \in Answers : Notes(a) /\ a # "ok" => a \in Refused
    BY <1>3, UndisturbedBefore
  <2>r. UNCHANGED live /\ op.pc \notin Moving /\ op'.pc \notin Moving \ {"check"}
    BY <1>3, <2>u, RestShape DEF Next
  <2>b. Base = live /\ Base' = live
    BY <2>r DEF Base, Moving
  <2>s. (state[r] \in Active \/ op.r = r) /\ ~(op.r = r /\ op.pc \in {"clear", "promoted"})
          => stable[r] = live
    BY <2>b, <2>u DEF Measured
  <2>1. CASE Control
    <3>0. op.pc \in {"clear", "promoted", "split", "splitDone", "end", "endDone"} /\ UNCHANGED stable
      BY <2>1 DEF Control, ClearSplit, RecordPromoted, Split, RecordSplit, UndoTraffic, RecordEnd
    <3>c. op.r \in Rollouts
      BY <3>0, ControlRow
    <3>1. r = op.r
      <4>1. op'.r \in {op.r, NoRollout}
        BY <1>0, <2>1, EndsAt DEF Control, ClearSplit, RecordPromoted, Split, RecordSplit,
           UndoTraffic, RecordEnd, Goto, Ops
      <4>2. ASSUME r # op.r
            PROVE  state[r] \in Active /\ state[op.r] \in Active
        <5>1. state'[r] = state[r]
          BY <1>0, <2>1, <4>2 DEF Control, ClearSplit, RecordPromoted, Split, RecordSplit,
             UndoTraffic, RecordEnd, Abandon
        <5>2. state[r] \in Active
          BY <1>0, <4>1, <4>2, <5>1
        <5> QED BY <3>0, <5>2, ControlRow DEF NoneActive
      <4> QED BY <3>c, <4>2 DEF OneActive
    <3>2. CASE op.pc \in {"clear", "promoted"}
      <4>1. live = CandidateOf[r]
        BY <2>u, <3>1, <3>2 DEF Measured
      <4>2. CASE ClearSplit
        <5>1. op' = [op EXCEPT !.pc = "promoted"]
          BY <2>a, <4>2 DEF ClearSplit, Refused, Goto
        <5> QED BY <1>0, <2>r, <3>1, <4>1, <5>1 DEF Ops
      <4>3. CASE RecordPromoted
        <5>1. state'[r] = "PROMOTED" /\ op'.r = NoRollout
          BY <1>0, <3>1, <4>3, EndsAt DEF RecordPromoted
        <5> QED BY <1>0, <5>1 DEF Active
      <4> QED BY <2>1, <3>2, <4>2, <4>3 DEF Control, Split, RecordSplit, UndoTraffic, RecordEnd
    <3>3. CASE op.pc \notin {"clear", "promoted"}
      <4>1. stable[r] = live
        BY <2>s, <3>1, <3>3
      <4>2. op'.pc \notin {"clear", "promoted"}
        BY <1>0, <2>1, <3>3, EndsAt DEF Control, ClearSplit, RecordPromoted, Split, RecordSplit,
           UndoTraffic, RecordEnd, Goto, Ops
      <4> QED BY <2>b, <3>0, <4>1, <4>2
    <3> QED BY <3>2, <3>3
  <2>2. ASSUME NEW q \in Rollouts, StartRollout(q)
        PROVE  stable'[r] = live /\ op'.pc \notin {"clear", "promoted"}
    <3>1. op'.pc \notin {"clear", "promoted"} /\ op'.r \in {q, NoRollout}
      <4>1. op' \in Starts(q) \/ Opening(op', q)
        BY <2>2, StartShape DEF Starts
      <4>2. CASE op' \in Starts(q)
        BY <4>2, StartsFit DEF StartFits, Idle
      <4>3. CASE Opening(op', q)
        BY <4>3, OpeningFits
      <4> QED BY <4>1, <4>2, <4>3
    <3>2. r = q
      <4>1. r # q => state'[r] = state[r] /\ state[r] \notin Active
        BY <1>0, <2>2, StartShape DEF NoneActive
      <4> QED BY <1>0, <3>1, <4>1
    <3> QED BY <1>0, <2>2, <3>1, <3>2, StartShape
  <2>3. ASSUME NEW q \in Rollouts, Tick(q) \/ Approve(q) \/ Reject(q)
        PROVE  stable'[r] = live /\ op'.pc \notin {"clear", "promoted"}
    <3>1. op = Idle /\ UNCHANGED stable /\ state[q] \in Active
      BY <2>3, OperationShape DEF OpFits, OpIdle
    <3>2. op'.pc \notin {"clear", "promoted"} /\ op'.r \in {q, NoRollout}
      <4>1. op' \in Starts(q)
        BY <2>3, <3>1, OperationShape DEF Starts
      <4> QED BY <4>1, StartsFit DEF StartFits, Idle
    <3>3. state[r] \in Active
      BY <1>0, <2>3, <3>1, <3>2, OperationShape
    <3>4. op.r # r
      BY <1>0, <3>1 DEF Idle
    <3> QED BY <2>s, <3>1, <3>2, <3>3, <3>4
  <2>4. ASSUME NEW v \in Versions, Rollback(v)
        PROVE  stable'[r] = live /\ op'.pc \notin {"clear", "promoted"}
    <3>1. /\ op = Idle /\ UNCHANGED <<stable, state>>
          /\ op' = Promoting(NoRollout, v)
      BY <2>4 DEF Rollback, Begins, OpFits, OpIdle
    <3>2. op'.r = NoRollout /\ op'.pc = "check" /\ op.r = NoRollout
      BY <3>1 DEF Promoting, Idle
    <3> QED BY <1>0, <2>s, <3>1, <3>2
  <2> QED BY <1>3, <2>u, <2>b, <2>1, <2>2, <2>3, <2>4 DEF Next, Operation
<1> QED BY <1>1, <1>2, <1>3

\* A move that ends, however it ends, leaves LIVE serving.
LEMMA ServedMove ==
  ASSUME TypeOK, OpFits, OpFlags, LiveTraced, ServedTraced, Move, Next
  PROVE  ServedTraced'
<1> USE DEF rows, history, serving
<1> SUFFICES ASSUME Undisturbed' PROVE ServedTraced'
  BY DEF ServedTraced
<1>u. Undisturbed /\ Only(Told)
  BY UndisturbedBefore
<1>a. \A a \in Answers : Notes(a) /\ a # "ok" => a \in Refused /\ faults = <<>> /\ faults' # <<>>
  BY UndisturbedBefore
<1>0. op \in Ops
  BY DEF TypeOK
<1>1. CASE PromoteChecks
  <2>0. op.pc = "check" /\ UNCHANGED <<live, served>> /\ served = live
    BY <1>1, <1>u DEF PromoteChecks, ServedTraced
  <2>1. \/ op'.pc \in {"idle", "end", "clear"}
        \/ op'.pc = "alias" /\ op'.from = live /\ op'.before = served
    BY <1>0, <1>1, EndsAt DEF PromoteChecks, Ops
  <2> QED BY <2>0, <2>1 DEF ServedTraced
<1>2. CASE PromoteRefused
  <2>1. op'.pc \in {"idle", "end"} /\ op.pc = "check" /\ UNCHANGED <<live, served>>
    BY <1>2, EndsAt DEF PromoteRefused
  <2> QED BY <1>u, <2>1 DEF ServedTraced
<1>3. CASE MoveAlias
  <2>1. /\ op'.pc \in {"deploy", "undo"} /\ op'.from = op.from /\ op'.before = op.before
        /\ op.pc = "alias" /\ UNCHANGED served
    BY <1>0, <1>3 DEF MoveAlias, Ops
  <2>2. served = live /\ op.from = live /\ op.before = op.from
    BY <1>u, <2>1 DEF ServedTraced, LiveTraced, Told
  <2> QED BY <2>1, <2>2 DEF ServedTraced
<1>4. CASE Deploy
  <2> PICK a \in Answers :
        /\ Serve(a, op.to)
        /\ op' = [op EXCEPT !.pc = IF a = "ok" THEN "commit" ELSE "revert",
                            !.deployed = a = "ok"]
    BY <1>4 DEF Deploy
  <2>1. /\ op'.pc = IF a = "ok" THEN "commit" ELSE "revert"
        /\ op'.from = op.from /\ op'.before = op.before /\ op'.to = op.to
        /\ op.pc = "deploy"
    BY <1>0, <1>4 DEF Deploy, Ops
  <2>2. a = "ok" => served' = op.to
    BY DEF Serve, TakesEffect
  <2> QED BY <1>u, <2>1, <2>2 DEF ServedTraced
<1>5. CASE RevertDeploy
  <2>1. /\ op'.pc = "undo" /\ op'.from = op.from /\ op'.before = op.before
        /\ op.pc = "revert"
    BY <1>0, <1>5 DEF RevertDeploy, Goto, Ops
  <2>2. served' = op.before
    <3>1. faults # <<>>
      BY <1>u, <2>1 DEF LiveTraced, Told
    <3> QED BY <1>5, <1>a, <3>1 DEF RevertDeploy, Serve, TakesEffect
  <2> QED BY <1>u, <2>1, <2>2 DEF ServedTraced
<1>6. CASE CommitMove
  <2>0. op.pc = "commit" /\ UNCHANGED <<live, served>> /\ served = op.to /\ live = op.to
    BY <1>6, <1>u DEF CommitMove, ServedTraced, LiveTraced, Told
  <2>1. CASE op'.pc \in {"idle", "clear"}
    BY <2>0, <2>1 DEF ServedTraced
  <2>2. CASE op' = [op EXCEPT !.pc = "undo"]
    <3>1. /\ op'.pc = "undo" /\ op'.from = op.from /\ op'.before = op.before
          /\ op'.deployed = op.deployed
      BY <1>0, <2>2 DEF Ops
    <3>2. op.deployed
      BY <2>0 DEF OpFlags
    <3> QED BY <1>u, <2>0, <3>1, <3>2 DEF ServedTraced
  <2> QED BY <1>6, <2>1, <2>2, EndsAt DEF CommitMove, Goto
<1>7. CASE UndoMove
  <2>0. /\ op.pc = "undo" /\ faults # <<>> /\ op.before = op.from
        /\ live = IF op.moved THEN op.to ELSE op.from
    BY <1>7, <1>u DEF UndoMove, LiveTraced, ServedTraced, Told
  <2>1. CASE op.deployed
    <3>1. op'.pc = "undo" /\ op'.from = op.from /\ op'.before = op.before
      BY <1>0, <1>7, <2>0, <2>1 DEF UndoMove, Ops
    <3>2. served' = op.before
      BY <1>7, <1>a, <2>0, <2>1 DEF UndoMove, Serve, TakesEffect
    <3> QED BY <2>0, <3>1, <3>2 DEF ServedTraced
  <2>2. CASE ~op.deployed
    <3>1. op'.pc \in {"idle", "end"} /\ UNCHANGED served
      BY <1>7, <2>2, EndsAt DEF UndoMove
    <3>2. live' = op.from
      BY <1>7, <1>a, <2>0, <2>2 DEF UndoMove, RestoreAlias, TakesEffect
    <3> QED BY <1>u, <2>0, <2>2, <3>1, <3>2 DEF ServedTraced
  <2> QED BY <2>1, <2>2
<1> QED BY <1>1, <1>2, <1>3, <1>4, <1>5, <1>6, <1>7 DEF Move

\* Every step keeps LIVE serving outside a move.
LEMMA ServedStep ==
  ASSUME TypeOK, OpFits, OpFlags, LiveTraced, Measured, ServedTraced, [Next]_vars
  PROVE  ServedTraced'
<1>1. CASE UNCHANGED vars
  BY <1>1 DEF vars, serving, history, ServedTraced, Undisturbed, Only
<1>2. CASE Next /\ Move
  BY <1>2, ServedMove
<1>3. CASE Next /\ ~Move
  <2> SUFFICES ASSUME Undisturbed' PROVE ServedTraced'
    BY DEF ServedTraced
  <2>u. Undisturbed /\ ~Crash
    BY <1>3, UndisturbedBefore
  <2>r. UNCHANGED live /\ op.pc \notin Moving /\ op'.pc \notin Moving \ {"check"}
    BY <1>3, <2>u, RestShape DEF Next
  <2>s. served = live
    BY <2>r, <2>u DEF ServedTraced, Moving
  <2>1. served' = live
    <3>1. CASE Control
      <4>1. op.pc \in {"clear", "promoted", "split", "splitDone", "end", "endDone"}
        BY <3>1 DEF Control, ClearSplit, RecordPromoted, Split, RecordSplit, UndoTraffic, RecordEnd
      <4>2. op.r \in Rollouts /\ Base = live
        BY <4>1, ControlRow DEF Base
      <4>3. op.pc \notin {"clear", "promoted"} => stable[op.r] = live
        BY <2>u, <4>2 DEF Measured
      <4>4. op.pc = "clear" => CandidateOf[op.r] = live
        BY <2>u, <4>2 DEF Measured
      <4>5. CASE ClearSplit
        BY <2>s, <4>4, <4>5 DEF ClearSplit, Traffic, serving
      <4>6. CASE Split
        BY <2>s, <4>3, <4>6 DEF Split, Traffic, serving
      <4>7. CASE UndoTraffic
        BY <2>s, <4>3, <4>7 DEF UndoTraffic, Traffic, serving
      <4>8. CASE RecordPromoted \/ RecordSplit \/ RecordEnd
        BY <2>s, <4>8 DEF RecordPromoted, RecordSplit, RecordEnd, serving
      <4> QED BY <3>1, <4>5, <4>6, <4>7, <4>8 DEF Control
    <3>2. ASSUME NEW q \in Rollouts, Operation(q)
          PROVE  UNCHANGED served
      BY <3>2, StartShape, OperationShape DEF Operation, serving
    <3>3. ASSUME NEW v \in Versions, Rollback(v)
          PROVE  UNCHANGED served
      BY <3>3 DEF Rollback, Quiet, serving
    <3> QED BY <1>3, <2>u, <2>s, <3>1, <3>2, <3>3 DEF Next
  <2> QED BY <2>1, <2>r DEF ServedTraced, Moving
<1> QED BY <1>1, <1>2, <1>3

-----------------------------------------------------------------------------
(* Candidate traffic.                                                      *)

\* The rollout r accounts for its candidate's traffic.
Owns(r) == state[r] \in Active \union {"PROMOTED", "VOID"} \/ (op.r = r /\ op.first)

\* A rollout that accounts for traffic goes on to, except when it ends, and then
\* there is none.
LEMMA OwnerStays ==
  ASSUME TypeOK, OpFits, SplitOwned, Next, NEW r \in Rollouts, Owns(r)
  PROVE  Owns(r)' \/ (RecordEnd /\ split = NoSplit /\ split' = NoSplit)
<1> USE DEF rows, serving
<1>0. op \in Ops /\ state \in [Rollouts -> States] /\ NoRollout \notin Rollouts
  BY DeliveryConstants DEF TypeOK, States
<1>1. CASE Move
  <2>1. UNCHANGED state /\ op.pc \in Moving
    BY <1>1 DEF Move, PromoteChecks, PromoteRefused, MoveAlias, Deploy, RevertDeploy, CommitMove,
           UndoMove, Moving
  <2>2. ~op.first
    BY <2>1 DEF OpFits, OpRow, Started, Moving
  <2> QED BY <2>1, <2>2 DEF Owns
<1>2. CASE Control \/ Crash
  <2>1. CASE op.r # r
    <3>1. UNCHANGED state \/ \E s : state' = [state EXCEPT ![op.r] = s]
      BY <1>2 DEF Control, ClearSplit, RecordPromoted, Split, RecordSplit, UndoTraffic, RecordEnd,
         Crash, Abandon
    <3> QED BY <1>0, <2>1, <3>1 DEF Owns
  <2>2. CASE op.r = r /\ RecordEnd
    BY <2>2 DEF RecordEnd, SplitOwned
  <2>3. CASE op.r = r /\ RecordPromoted
    BY <1>0, <2>3 DEF RecordPromoted, Owns
  <2>4. CASE op.r = r /\ RecordSplit
    BY <1>0, <2>4 DEF RecordSplit, Owns, OpFits, OpRecord, Active
  <2>5. CASE op.r = r /\ ClearSplit
    <3>1. UNCHANGED state /\ ~op.first
      BY <2>5 DEF ClearSplit, OpFits, OpRow, Started
    <3> QED BY <3>1 DEF Owns
  <2>6. CASE op.r = r /\ (op' = [op EXCEPT !.pc = op'.pc]) /\ UNCHANGED state
    <3>1. op'.r = op.r /\ op'.first = op.first
      BY <1>0, <2>6 DEF Ops
    <3> QED BY <2>6, <3>1 DEF Owns
  <2>7. CASE op.r = r /\ Abandon
    BY <1>0, <2>7 DEF Abandon, Owns
  <2>8. CASE op.r = r /\ Split
    <3>1. Abandon \/ (UNCHANGED state /\ \E pc \in {"splitDone", "end"} : op' = [op EXCEPT !.pc = pc])
      BY <2>8 DEF Split, Goto
    <3> QED BY <1>0, <2>6, <2>7, <2>8, <3>1 DEF Ops
  <2>9. CASE op.r = r /\ UndoTraffic
    <3>1. \/ Abandon
          \/ UNCHANGED state /\ op' = [op EXCEPT !.pc = "endDone"]
          \/ op.first /\ state' = [state EXCEPT ![op.r] = op.end]
      BY <2>9 DEF UndoTraffic, Goto
    <3>2. CASE op.first /\ state' = [state EXCEPT ![op.r] = op.end]
      BY <1>0, <2>9, <3>2 DEF Owns, OpFits, OpRecord, Active
    <3> QED BY <1>0, <2>6, <2>7, <2>9, <3>1, <3>2 DEF Ops
  <2> QED BY <1>2, <2>1, <2>2, <2>3, <2>4, <2>5, <2>7, <2>8, <2>9 DEF Control, Crash
<1>3. ASSUME NEW q \in Rollouts, Operation(q)
      PROVE  Owns(r)'
  <2>1. op = Idle
    BY <1>3, StartShape, OperationShape DEF Operation, OpFits, OpIdle
  <2>2. state[r] \in Active \union {"PROMOTED", "VOID"}
    BY <1>0, <2>1 DEF Owns, Idle
  <2>3. /\ state[q] = "NEW" \/ state[q] \in Active
        /\ state' = state \/ \E s \in Active : state' = [state EXCEPT ![q] = s]
    BY <1>3, StartShape, OperationShape DEF Operation, Active
  <2> QED BY <1>0, <2>2, <2>3 DEF Owns, Active
<1>4. ASSUME NEW v \in Versions, Rollback(v)
      PROVE  Owns(r)'
  <2>1. op = Idle /\ UNCHANGED state
    BY <1>4 DEF Rollback, Begins, OpFits, OpIdle
  <2> QED BY <1>0, <2>1 DEF Owns, Idle
<1> QED BY <1>1, <1>2, <1>3, <1>4 DEF Next

\* Every step keeps candidate traffic accounted for.
LEMMA SplitStep ==
  ASSUME TypeOK, OpFits, SplitOwned, [Next]_vars
  PROVE  SplitOwned'
<1> USE DEF rows, serving
<1>0. op \in Ops
  BY DEF TypeOK
<1>1. CASE UNCHANGED vars
  BY <1>1 DEF vars, SplitOwned
<1>2. CASE Next
  <2>1. \/ split' = split \/ split' = NoSplit
        \/ Split /\ split' = <<CandidateOf[op.r], op.pct>>
    <3>1. CASE Move
      BY <3>1 DEF Move, PromoteChecks, PromoteRefused, MoveAlias, Deploy, RevertDeploy, CommitMove,
             UndoMove, Serve
    <3>2. CASE Control \/ Crash
      BY <3>2 DEF Control, ClearSplit, RecordPromoted, Split, RecordSplit, UndoTraffic, RecordEnd,
         Crash, Traffic
    <3>3. ASSUME NEW q \in Rollouts, Operation(q)
          PROVE  UNCHANGED split
      BY <3>3, StartShape, OperationShape DEF Operation
    <3>4. ASSUME NEW v \in Versions, Rollback(v)
          PROVE  UNCHANGED split
      BY <3>4 DEF Rollback, Quiet
    <3> QED BY <1>2, <3>1, <3>2, <3>3, <3>4 DEF Next
  <2>2. split' # NoSplit => \E r \in Rollouts : CandidateOf[r] = split'[1] /\ Owns(r)'
    <3>1. CASE split' = split
      <4> SUFFICES ASSUME split # NoSplit
                   PROVE  \E r \in Rollouts : CandidateOf[r] = split'[1] /\ Owns(r)'
        BY <3>1
      <4> PICK r \in Rollouts : CandidateOf[r] = split[1] /\ Owns(r)
        BY DEF SplitOwned, Owns
      <4> QED BY <1>2, <3>1, OwnerStays
    <3>2. CASE Split /\ split' = <<CandidateOf[op.r], op.pct>>
      <4>1. PICK q \in Rollouts : q = op.r
        BY <3>2, ControlRow DEF Split
      <4>2. Owns(q)
        BY <3>2, <4>1, ControlRow DEF Split, Owns
      <4>3. ~RecordEnd
        BY <3>2 DEF Split, RecordEnd
      <4> QED BY <1>2, <3>2, <4>1, <4>2, <4>3, OwnerStays
    <3> QED BY <2>1, <3>1, <3>2
  <2>3. op'.pc = "endDone" => split' = NoSplit
    <3>1. CASE UndoTraffic
      BY <1>0, <3>1, EndsAt DEF UndoTraffic, HasTraffic, Traffic, TakesEffect, Goto, Ops
    <3>2. CASE ~UndoTraffic
      <4>1. CASE Move
        BY <1>0, <4>1, EndsAt DEF Move, PromoteChecks, PromoteRefused, MoveAlias, Deploy,
           RevertDeploy, CommitMove, UndoMove, Goto, Ops
      <4>2. CASE Control \/ Crash
        BY <1>0, <3>2, <4>2, EndsAt DEF Control, ClearSplit, RecordPromoted, Split, RecordSplit,
           RecordEnd, Crash, Goto, Ops
      <4>3. ASSUME NEW q \in Rollouts, Operation(q)
            PROVE  op'.pc # "endDone"
        <5>1. op = Idle
          BY <4>3, StartShape, OperationShape DEF Operation, OpFits, OpIdle
        <5>2. op' \in Starts(q) \/ Opening(op', q)
          BY <4>3, <5>1, StartShape, OperationShape DEF Operation, Starts
        <5> QED BY <5>2, StartsFit, OpeningFits DEF StartFits, Idle
      <4>4. ASSUME NEW v \in Versions, Rollback(v)
            PROVE  op'.pc # "endDone"
        BY <4>4 DEF Rollback, Begins, Promoting, Idle
      <4> QED BY <1>2, <4>1, <4>2, <4>3, <4>4 DEF Next
    <3> QED BY <3>1, <3>2
  <2> QED BY <2>2, <2>3 DEF SplitOwned, Owns
<1> QED BY <1>1, <1>2

-----------------------------------------------------------------------------
(* The theorems.                                                           *)

\* The invariant holds at the start.
LEMMA InvInit == Init => DeliveryInv
<1> SUFFICES ASSUME Init PROVE DeliveryInv
  OBVIOUS
<1>1. OpFits /\ OpFlags
  BY DEF Init, Idle, OpFits, OpIdle, OpRow, OpMove, OpRecord, OpFlags, Moving
<1>2. OneActive /\ NoneActive
  BY DEF Init, OneActive, NoneActive, Active
<1>3. LiveTraced /\ ServedTraced /\ KeysEnd /\ SplitOwned
  BY DEF Init, Idle, LiveTraced, ServedTraced, KeysEnd, SplitOwned
<1>4. Measured
  BY <1>2, DeliveryConstants DEF Init, Idle, Measured, NoneActive
<1> QED BY <1>1, <1>2, <1>3, <1>4, TypeInit DEF DeliveryInv

\* Every step keeps the invariant.
LEMMA InvStep == DeliveryInv /\ [Next]_vars => DeliveryInv'
<1> SUFFICES ASSUME DeliveryInv, [Next]_vars PROVE DeliveryInv'
  OBVIOUS
<1>1. TypeOK' /\ OpFits' /\ OpFlags' /\ OneActive'
  BY TypeStep, FitsStep, FlagsStep DEF DeliveryInv
<1>2. LiveTraced' /\ KeysEnd' /\ SplitOwned'
  BY LiveStep, KeysStep, SplitStep DEF DeliveryInv
<1>3. Measured' /\ ServedTraced'
  BY MeasuredStep, ServedStep DEF DeliveryInv
<1> QED BY <1>1, <1>2, <1>3 DEF DeliveryInv

\* The invariant of promotions, rollbacks and rollouts: the operation that holds
\* the model's lock fits the rollout it works on (promotion.py, controller.py).
THEOREM DeliverySafe == Spec => []DeliveryInv
  BY InvInit, InvStep, PTL DEF Spec

\* LIVE points where the history says, whichever one call of a promotion, a
\* rollback or a rollout fails and says so (promotion.py).
THEOREM AlwaysExplained == Spec => []LiveExplained
<1>1. DeliveryInv => LiveExplained
  BY DEF DeliveryInv, LiveTraced, LiveExplained
<1> QED BY <1>1, DeliverySafe, PTL

\* What serves traffic is LIVE once no rollout is active, for one refused or
\* unsettled change (deployment.py).
THEOREM AlwaysServesLive == Spec => []ServingIsLive
<1>1. DeliveryInv => ServingIsLive
  BY DEF DeliveryInv, ServedTraced, Undisturbed, ServingIsLive
<1> QED BY <1>1, DeliverySafe, PTL

\* Candidate traffic belongs to a rollout that will still undo it, whatever
\* failed or died on the way (controller.py).
THEOREM NeverStray == Spec => []NoStrayTraffic
<1>1. DeliveryInv => NoStrayTraffic
  <2> SUFFICES ASSUME DeliveryInv, op.pc = "idle", split # NoSplit
               PROVE  \E r \in Rollouts : CandidateOf[r] = split[1]
                        /\ state[r] \in Active \union {"PROMOTED", "VOID"}
    BY DEF NoStrayTraffic
  <2>1. ~op.first
    BY DEF DeliveryInv, OpFits, OpIdle, Idle
  <2> QED BY <2>1 DEF DeliveryInv, SplitOwned
<1> QED BY <1>1, DeliverySafe, PTL

\* The conditional promotion: a rollout moves LIVE only from the version it was
\* measured against (promote_version's expected_live).
THEOREM AlwaysFromStable == Spec => PromotesFromStable
<1> DEFINE Moves(r) == r \in keys' \ keys /\ last' # last
             => last' = [from |-> stable[r], to |-> CandidateOf[r], by |-> r]
<1>1. ASSUME DeliveryInv, [Next]_vars, NEW r \in Rollouts
      PROVE  Moves(r)
  <2> SUFFICES ASSUME r \in keys', r \notin keys, last' # last
               PROVE  last' = [from |-> stable[r], to |-> CandidateOf[r], by |-> r]
    OBVIOUS
  <2>0. TypeOK /\ OpFits
    BY <1>1 DEF DeliveryInv
  <2>1. CommitMove
    <3>1. CASE UNCHANGED vars
      BY <3>1 DEF vars, history
    <3>2. CASE Crash
      BY <3>2 DEF Crash, history
    <3>3. CASE Move
      BY <3>3 DEF Move, PromoteChecks, PromoteRefused, MoveAlias, Deploy, RevertDeploy, UndoMove,
                  history
    <3> QED BY <1>1, <2>0, <3>1, <3>2, <3>3, RestShape DEF Next
  <2>2. op.r = r /\ op.pc = "commit" /\ last' = [from |-> op.from, to |-> op.to, by |-> op.r]
    BY <2>1 DEF CommitMove, history
  <2>3. op.to = CandidateOf[r] /\ op.from = stable[r]
    BY <2>0, <2>2, DeliveryConstants DEF OpFits, OpMove, Moving
  <2> QED BY <2>2, <2>3
<1>2. DeliveryInv /\ [Next]_vars =>
        [\A r \in Rollouts :
           r \in keys' \ keys /\ last' # last => last' = [from |-> stable[r], to |-> CandidateOf[r], by |-> r]]_vars
  BY <1>1
<1> QED BY <1>2, DeliverySafe, PTL DEF Spec, PromotesFromStable

-----------------------------------------------------------------------------
(* Rollouts and rollbacks implement RolloutService.                        *)

\* The alias goes to another version, for a rollout whose move is not recorded
\* yet, and a rollout is promoted by a move that is.
KeyOnce ==
  /\ op.pc \in {"alias", "deploy", "revert", "commit"} => op.r \notin keys /\ op.from # op.to
  /\ op.pc \in {"clear", "promoted"} => op.r \in keys

\* Every step keeps the key of a promotion with its move.
LEMMA KeyOnceStep ==
  ASSUME TypeOK, OpFits, KeyOnce, [Next]_vars
  PROVE  KeyOnce'
<1> USE DEF rows, history
<1>0. op \in Ops /\ NoRollout \notin keys
  BY DeliveryConstants DEF TypeOK
<1>1. CASE Move
  <2>1. CASE PromoteChecks
    <3>1. CASE op' = [op EXCEPT !.pc = "alias", !.from = live, !.before = served]
      <4>1. op'.pc = "alias" /\ op'.r = op.r /\ op'.from = live /\ op'.to = op.to
        BY <1>0, <3>1 DEF Ops
      <4>2. op.r \notin keys /\ live # op.to /\ UNCHANGED keys
        <5>1. op.pc = "check"
          BY <2>1 DEF PromoteChecks
        <5>2. op' # Idle /\ op' # [op EXCEPT !.pc = "clear"]
              /\ op' # [op EXCEPT !.pc = "end", !.end = "ROLLED_BACK"]
          <6>1. Idle.pc = "idle" /\ [op EXCEPT !.pc = "clear"].pc = "clear"
                /\ [op EXCEPT !.pc = "end", !.end = "ROLLED_BACK"].pc = "end"
            BY <1>0 DEF Idle, Ops
          <6> QED BY <4>1, <6>1
        <5> QED BY <2>1, <5>2 DEF PromoteChecks, Succeeds, Fails, Done, Goto
      <4> QED BY <4>1, <4>2 DEF KeyOnce
    <3>2. CASE op' = Idle \/ op' = [op EXCEPT !.pc = "end", !.end = "ROLLED_BACK"]
      <4>1. op'.pc \in {"idle", "end"}
        <5>1. CASE op' = Idle
          BY <5>1 DEF Idle
        <5>2. CASE op' = [op EXCEPT !.pc = "end", !.end = "ROLLED_BACK"]
          BY <1>0, <5>2 DEF Ops
        <5> QED BY <3>2, <5>1, <5>2
      <4> QED BY <4>1 DEF KeyOnce
    <3>3. CASE op.r # NoRollout /\ op' = [op EXCEPT !.pc = "clear"]
      <4>1. op'.pc = "clear" /\ op'.r = op.r
        BY <1>0, <3>3 DEF Ops
      <4>2. op'.pc \notin {"alias", "end"}
        BY <4>1
      <4>3. op' # [op EXCEPT !.pc = "alias", !.from = live, !.before = served]
            /\ op' # [op EXCEPT !.pc = "end", !.end = "ROLLED_BACK"]
        BY <1>0, <4>2 DEF Ops
      <4>4. op.r \in keys'
        BY <2>1, <3>3, <4>3 DEF PromoteChecks, Fails
      <4> QED BY <4>1, <4>4 DEF KeyOnce
    <3> QED BY <2>1, <3>1, <3>2, <3>3 DEF PromoteChecks, Succeeds, Fails, Done, Goto
  <2>2. CASE PromoteRefused
    <3>1. op'.pc \in {"idle", "end"}
      BY <2>2, EndsAt DEF PromoteRefused
    <3> QED BY <3>1 DEF KeyOnce
  <2>3. CASE MoveAlias \/ Deploy \/ RevertDeploy
    <3>1. /\ op'.pc \in {"deploy", "commit", "revert", "undo"}
          /\ op'.r = op.r /\ op'.from = op.from /\ op'.to = op.to /\ UNCHANGED keys
          /\ op.pc \in {"alias", "deploy", "revert"}
      <4>1. CASE MoveAlias
        BY <1>0, <4>1 DEF MoveAlias, Ops
      <4>2. CASE Deploy
        BY <1>0, <4>2 DEF Deploy, Ops
      <4>3. CASE RevertDeploy
        BY <1>0, <4>3 DEF RevertDeploy, Goto, Ops
      <4> QED BY <2>3, <4>1, <4>2, <4>3
    <3> QED BY <3>1 DEF KeyOnce
  <2>4. CASE CommitMove
    <3> PICK a \in Answers \ {"halfway"} :
         /\ IF TakesEffect(a) THEN keys' = keys \union ({op.r} \ {NoRollout})
                              ELSE UNCHANGED keys
         /\ IF a = "ok" THEN Succeeds ELSE Goto("undo")
      BY <2>4 DEF CommitMove
    <3>1. CASE a = "ok"
      <4>1. op.r # NoRollout => op.r \in keys'
        BY <3>1 DEF TakesEffect
      <4>2. CASE op.r = NoRollout
        BY <3>1, <4>2 DEF Succeeds, Done, Idle, KeyOnce
      <4>3. CASE op.r # NoRollout
        <5>1. op'.pc = "clear" /\ op'.r = op.r
          BY <1>0, <3>1, <4>3 DEF Succeeds, Goto, Ops
        <5> QED BY <4>1, <4>3, <5>1 DEF KeyOnce
      <4> QED BY <4>2, <4>3
    <3>2. CASE a # "ok"
      <4>1. op'.pc = "undo"
        BY <1>0, <3>2 DEF Goto, Ops
      <4> QED BY <4>1 DEF KeyOnce
    <3> QED BY <3>1, <3>2
  <2>5. CASE UndoMove
    <3>1. op'.pc \in {"idle", "end", "undo"}
      BY <1>0, <2>5, EndsAt DEF UndoMove, Ops
    <3> QED BY <3>1 DEF KeyOnce
  <2> QED BY <1>1, <2>1, <2>2, <2>3, <2>4, <2>5 DEF Move
<1>2. CASE Control
  <2>1. UNCHANGED keys
    BY <1>2 DEF Control, ClearSplit, RecordPromoted, Split, RecordSplit, UndoTraffic, RecordEnd
  <2>2. CASE ClearSplit
    <3>1. op.pc = "clear" /\ (op' = Idle \/ op' = [op EXCEPT !.pc = "promoted"])
      BY <2>2 DEF ClearSplit, Done, Goto
    <3>2. op'.pc = "idle" \/ (op'.pc = "promoted" /\ op'.r = op.r)
      BY <1>0, <3>1 DEF Ops, Idle
    <3> QED BY <2>1, <3>1, <3>2 DEF KeyOnce
  <2>3. CASE ~ClearSplit
    <3>1. op'.pc \in {"idle", "splitDone", "end", "endDone"}
      BY <1>0, <1>2, <2>3, EndsAt DEF Control, RecordPromoted, Split, RecordSplit, UndoTraffic,
         RecordEnd, Goto, Ops
    <3> QED BY <3>1 DEF KeyOnce
  <2> QED BY <2>2, <2>3
<1>3. CASE Crash
  BY <1>3 DEF Crash, Done, Idle, KeyOnce
<1>4. ASSUME NEW r \in Rollouts, Operation(r)
      PROVE  KeyOnce'
  <2>1. op = Idle
    BY <1>4, StartShape, OperationShape DEF Operation, OpFits, OpIdle
  <2>2. op' \in Starts(r) \/ Opening(op', r)
    BY <1>4, <2>1, StartShape, OperationShape DEF Operation, Starts
  <2>3. op'.pc \notin {"alias", "deploy", "revert", "commit", "clear", "promoted"}
    BY <2>2, StartsFit, OpeningFits DEF StartFits, Idle
  <2> QED BY <2>3 DEF KeyOnce
<1>5. ASSUME NEW v \in Versions, Rollback(v)
      PROVE  KeyOnce'
  BY <1>5 DEF Rollback, Begins, Promoting, Idle, KeyOnce
<1>6. CASE UNCHANGED vars
  BY <1>6 DEF vars, KeyOnce
<1> QED BY <1>1, <1>2, <1>3, <1>4, <1>5, <1>6 DEF Next

\* Calls that said what they did before a step if they did after it.
LEMMA RefusedBefore ==
  ASSUME TypeOK, OpFits, [Next]_vars, Only(Refused)'
  PROVE  Only(Refused) /\ ~Crash /\ \A a \in Answers : Notes(a) => a \in {"ok"} \union Refused
<1>1. ~Crash
  BY CrashTold DEF Refused
<1>2. ASSUME NEW a \in Answers, Notes(a)
      PROVE  Only(Refused) /\ a \in {"ok"} \union Refused
  BY <1>2, AnswerKinds, OnlyStep
<1>3. UNCHANGED faults => Only(Refused)
  BY DEF Only
<1>4. UNCHANGED faults \/ \E a \in Answers : Notes(a)
  <2>1. CASE Move
    BY <2>1 DEF Move, PromoteChecks, PromoteRefused, MoveAlias, Deploy, RevertDeploy, CommitMove,
                UndoMove
  <2>2. CASE UNCHANGED vars
    BY <2>2 DEF vars
  <2> QED BY <1>1, <2>1, <2>2, RestShape DEF Next
<1> QED BY <1>1, <1>2, <1>3, <1>4

\* What the readers of the rows see.
Phase == [r \in Rollouts |-> PhaseOf(r)]

LEMMA OpenOrEnded ==
  ASSUME NEW r \in Rollouts
  PROVE  /\ state[r] \in Active => Phase[r] = "open"
         /\ op.first /\ op.r = r => Phase[r] = "open"
         /\ ~(op.first /\ op.r = r) /\ state[r] \notin Active => Phase[r] = state[r]
  BY DEF Phase, PhaseOf

\* The same, of the state after a step.
LEMMA OpenOrEndedNext ==
  ASSUME NEW r \in Rollouts
  PROVE  /\ state'[r] \in Active => Phase'[r] = "open"
         /\ op'.first /\ op'.r = r => Phase'[r] = "open"
         /\ ~(op'.first /\ op'.r = r) /\ state'[r] \notin Active => Phase'[r] = state'[r]
  BY DEF Phase, PhaseOf

\* Steps that change one rollout's phase.
LEMMA PhaseBecomes ==
  ASSUME NEW r \in Rollouts, NEW p, Phase'[r] = p,
         \A q \in Rollouts \ {r} : Phase'[q] = Phase[q]
  PROVE  Phase' = [Phase EXCEPT ![r] = p]
  BY DEF Phase

\* Steps that change none.
LEMMA PhaseStays ==
  ASSUME \A q \in Rollouts : Phase'[q] = Phase[q]
  PROVE  Phase' = Phase
  BY DEF Phase

Kept == UNCHANGED <<Phase, stable, last, keys>>

\* What a move does to what the readers see.
LEMMA ServiceMove ==
  ASSUME DeliveryInv, KeyOnce, Move, [Next]_vars
  PROVE  Service!Next \/ Kept
<1> USE DEF rows, history
<1>t. (Only(Refused)' => Only(Refused)) /\ Only(Refused)' \in BOOLEAN
  BY RefusedBefore DEF DeliveryInv, Only
<1>0. op \in Ops /\ NoRollout \notin Rollouts /\ last \in [from : AnyVersion, to : AnyVersion, by : Rollouts \union {NoRollout}]
  BY DeliveryConstants DEF DeliveryInv, TypeOK
<1>1. UNCHANGED <<state, stable>> /\ op.pc \in Moving
  BY FitsMove DEF DeliveryInv, Move, PromoteChecks, PromoteRefused, MoveAlias, Deploy, RevertDeploy,
     CommitMove, UndoMove, Moving
<1>2. ~op.first /\ ~op'.first
  <2>1. ~op.first
    BY <1>1 DEF DeliveryInv, OpFits, OpRow, Started, Moving
  <2>2. OpFits'
    BY FitsMove DEF DeliveryInv
  <2>3. op'.first = op.first \/ op' = Idle
    BY <1>0 DEF Move, PromoteChecks, PromoteRefused, MoveAlias, Deploy, RevertDeploy, CommitMove,
       UndoMove, Succeeds, Fails, Done, Goto, Ops
  <2> QED BY <2>1, <2>3 DEF Idle
<1>3. Phase' = Phase
  BY <1>1, <1>2, PhaseStays, OpenOrEnded, OpenOrEndedNext
<1>4. op.r # NoRollout => op.r \in Rollouts /\ Phase[op.r] = "open"
  BY <1>0, <1>1, <1>2, OpenOrEnded DEF DeliveryInv, OpFits, OpRow, Moving, Ops
<1>5. Only(Refused) => Only(Told)
  BY DEF Only, Refused, Told
<1>6. CASE PromoteChecks
  <2>1. CASE UNCHANGED keys
    BY <1>1, <1>3, <1>6, <2>1 DEF Kept, PromoteChecks
  <2>2. CASE keys' # keys
    <3>1. /\ op.pc = "check" /\ op.r # NoRollout /\ op.r \notin keys /\ live = op.to
          /\ keys' = keys \union {op.r} /\ UNCHANGED last
      BY <1>0, <1>6, <2>2 DEF PromoteChecks
    <3>2. Only(Refused) => last.to = CandidateOf[op.r]
      BY <1>1, <1>5, <3>1 DEF DeliveryInv, LiveTraced, Told, OpFits, OpMove
    <3>3. Service!Find(op.r)
      BY <1>1, <1>3, <1>4, <3>1, <3>2 DEF Service!Find, Phase, Refused
    <3> QED BY <1>4, <1>t, <3>1, <3>3 DEF Service!Next, Service!Trust, Refused
  <2> QED BY <2>1, <2>2
<1>7. CASE CommitMove
  <2> PICK a \in Answers \ {"halfway"} :
       IF TakesEffect(a)
       THEN /\ last' = [from |-> op.from, to |-> op.to, by |-> op.r]
            /\ keys' = keys \union ({op.r} \ {NoRollout})
       ELSE UNCHANGED <<last, keys>>
    BY <1>7 DEF CommitMove
  <2>1. CASE ~TakesEffect(a)
    BY <1>1, <1>3, <2>1 DEF Kept
  <2>2. CASE TakesEffect(a)
    <3>1. op.pc = "commit" /\ op.r \notin keys /\ op.from # op.to
      BY <1>7 DEF CommitMove, KeyOnce
    <3>2. Only(Refused) => op.from = last.to
      BY <1>5, <3>1 DEF DeliveryInv, LiveTraced, Told
    <3>3. CASE op.r = NoRollout
      <4>1. op.from \in Versions \union {NoVersion} /\ op.to \in Versions \union {NoVersion}
        BY <1>0 DEF Ops, AnyVersion
      <4>2. Service!Moves(NoRollout, op.from, op.to)
        BY <2>2, <3>1, <3>2, <3>3 DEF Service!Moves, Refused
      <4>3. Service!Rollback
        BY <1>1, <1>3, <2>2, <3>3, <4>1, <4>2 DEF Service!Rollback, Phase
      <4> QED BY <1>t, <4>3 DEF Service!Next, Service!Trust, Refused
    <3>4. CASE op.r # NoRollout
      <4>1. op.from = stable[op.r] /\ op.to = CandidateOf[op.r]
        BY <3>1, <3>4 DEF DeliveryInv, OpFits, OpMove, Moving
      <4>2. Service!Moves(op.r, stable[op.r], CandidateOf[op.r])
        BY <2>2, <3>1, <3>2, <4>1 DEF Service!Moves, Refused
      <4>3. Service!Deliver(op.r)
        BY <1>1, <1>3, <1>4, <2>2, <3>1, <3>4, <4>2 DEF Service!Deliver, Phase
      <4> QED BY <1>4, <1>t, <3>4, <4>3 DEF Service!Next, Service!Trust, Refused
    <3> QED BY <3>3, <3>4
  <2> QED BY <2>1, <2>2
<1>8. CASE ~PromoteChecks /\ ~CommitMove
  <2>1. UNCHANGED <<last, keys>>
    BY <1>8 DEF Move, PromoteRefused, MoveAlias, Deploy, RevertDeploy, UndoMove
  <2> QED BY <1>1, <1>3, <2>1 DEF Kept
<1> QED BY <1>6, <1>7, <1>8

\* Giving up an operation ends a rollout whose start was not stored.
LEMMA PhaseAbandoned ==
  ASSUME DeliveryInv, NEW r \in Rollouts, op.r = r, op.first \/ state[r] \in Active, Done, Abandon
  PROVE  Phase' = [Phase EXCEPT ![r] = IF op.first THEN "VOID" ELSE "open"]
<1>0. state \in [Rollouts -> States] /\ ~op'.first /\ (op.first => state[r] = "NEW")
      /\ "VOID" \notin Active
  BY DeliveryConstants DEF DeliveryInv, TypeOK, States, Done, Idle, OpFits, OpRow, Active
<1>1. \A q \in Rollouts \ {r} : state'[q] = state[q]
  BY <1>0 DEF Abandon
<1>2. \A q \in Rollouts \ {r} : Phase'[q] = Phase[q]
  BY <1>0, <1>1, OpenOrEnded, OpenOrEndedNext
<1>3. op.first => state'[r] = "VOID"
  BY <1>0 DEF Abandon
<1>4. ~op.first => state' = state
  BY DEF Abandon
<1>5. Phase'[r] = IF op.first THEN "VOID" ELSE "open"
  BY <1>0, <1>3, <1>4, OpenOrEndedNext
<1> QED BY <1>2, <1>5, PhaseBecomes

\* A rollout that is open already stays so.
LEMMA StillOpen ==
  ASSUME NEW r \in Rollouts, Phase[r] = "open", Phase' = [Phase EXCEPT ![r] = "open"]
  PROVE  Phase' = Phase
  BY DEF Phase

\* Ends of a rollout are ends of the service's.
LEMMA ServiceEnds ==
  ASSUME NEW r \in Rollouts, Phase[r] = "open", UNCHANGED <<stable, last, keys>>,
         NEW p \in {"ROLLED_BACK", "EXPIRED", "REJECTED", "VOID"},
         Phase' = [Phase EXCEPT ![r] = p],
         Only(Refused)' => Only(Refused) /\ r \notin keys /\ p # "VOID"
  PROVE  Service!Next
<1>1. Service!Becomes(r, p)
  BY DEF Service!Becomes, Phase
<1>2. Service!End(r)
  BY <1>1 DEF Service!End, Phase, Refused
<1> QED BY <1>2 DEF Service!Next, Service!Trust, Refused, Only

\* What the controller's own sequences do to what the readers see.
LEMMA ServiceControl ==
  ASSUME DeliveryInv, KeyOnce, Control, [Next]_vars
  PROVE  Service!Next \/ Kept
<1> USE DEF rows, history
<1>t. Only(Refused)' => Only(Refused) /\ \A a \in Answers : Notes(a) => a \in {"ok"} \union Refused
  BY RefusedBefore DEF DeliveryInv
<1>0. /\ op \in Ops /\ state \in [Rollouts -> States]
      /\ op.pc \in {"clear", "promoted", "split", "splitDone", "end", "endDone"}
  BY DEF Control, ClearSplit, RecordPromoted, Split, RecordSplit, UndoTraffic, RecordEnd,
         DeliveryInv, TypeOK, States
<1> PICK r \in Rollouts : r = op.r
  BY <1>0, ControlRow DEF DeliveryInv
<1>1. /\ UNCHANGED <<last, keys, stable>>
  BY DEF Control, ClearSplit, RecordPromoted, Split, RecordSplit, UndoTraffic, RecordEnd
<1>2. op.first \/ state[r] \in Active
  BY <1>0, ControlRow DEF DeliveryInv
<1>3. Phase[r] = "open"
  BY <1>2, OpenOrEnded
<1>4. op.pc \in {"clear", "promoted"} => ~op.first
  BY DEF DeliveryInv, OpFits, OpRow, Started
<1>5. r \in keys /\ Only(Refused) => op.pc \in {"clear", "promoted"}
  BY <1>0, <1>2, ControlRow DEF DeliveryInv, KeysEnd, Refused, Active
<1>g. ASSUME NEW pc, op' = [op EXCEPT !.pc = pc], UNCHANGED state PROVE Kept
  <2>1. op'.r = op.r /\ op'.first = op.first
    BY <1>0, <1>g DEF Ops
  <2>2. \A q \in Rollouts : Phase'[q] = Phase[q]
    BY <1>g, <2>1, OpenOrEnded, OpenOrEndedNext
  <2> QED BY <1>1, <2>2, PhaseStays DEF Kept
<1>a. ASSUME NEW a \in Answers, Notes(a), a \in {"down", "lost"} \/ ~op.first, Done, Abandon
      PROVE  Service!Next \/ Kept
  <2>1. Phase' = [Phase EXCEPT ![r] = IF op.first THEN "VOID" ELSE "open"]
    BY <1>2, <1>a, PhaseAbandoned
  <2>2. CASE ~op.first
    BY <1>1, <1>3, <2>1, <2>2, StillOpen DEF Kept
  <2>3. CASE op.first
    <3>1. ~Only(Refused)'
      BY <1>a, <1>t, <2>3 DEF Refused
    <3> QED BY <1>1, <1>3, <2>1, <2>3, <3>1, ServiceEnds
  <2> QED BY <2>2, <2>3
<1>r. ASSUME NEW p, Done, state' = [state EXCEPT ![r] = p]
      PROVE  Phase' = [Phase EXCEPT ![r] = IF p \in Active THEN "open" ELSE p]
  <2>1. ~op'.first /\ state'[r] = p /\ \A q \in Rollouts \ {r} : state'[q] = state[q]
    BY <1>0, <1>r DEF Done, Idle
  <2>2. \A q \in Rollouts \ {r} : Phase'[q] = Phase[q]
    BY <2>1, OpenOrEnded, OpenOrEndedNext
  <2>3. Phase'[r] = IF p \in Active THEN "open" ELSE p
    BY <2>1, OpenOrEndedNext
  <2> QED BY <2>2, <2>3, PhaseBecomes
<1>6. CASE ClearSplit
  <2>1. UNCHANGED state /\ ~op.first
    BY <1>4, <1>6 DEF ClearSplit
  <2>2. CASE Goto("promoted")
    BY <1>g, <2>1, <2>2 DEF Goto
  <2>3. CASE Done
    <3>1. Abandon
      BY <2>1 DEF Abandon
    <3>2. Phase' = [Phase EXCEPT ![r] = "open"]
      BY <1>2, <2>1, <2>3, <3>1, PhaseAbandoned
    <3> QED BY <1>1, <1>3, <3>2, StillOpen DEF Kept
  <2> QED BY <1>6, <2>2, <2>3 DEF ClearSplit
<1>7. CASE RecordPromoted
  <2>1. Phase' = [Phase EXCEPT ![r] = "PROMOTED"]
    BY <1>7, <1>r DEF RecordPromoted, Active
  <2>2. r \in keys
    BY <1>7 DEF RecordPromoted, KeyOnce
  <2>3. Service!Promote(r)
    BY <1>1, <1>3, <2>1, <2>2 DEF Service!Promote, Service!Becomes, Phase
  <2> QED BY <1>t, <2>3 DEF Service!Next, Service!Trust, Refused, Only
<1>8. CASE Split
  <2> PICK a \in Answers :
       /\ Notes(a)
       /\ \/ a = "ok" /\ Goto("splitDone") /\ UNCHANGED state
          \/ /\ a \in {"refused", "halfway"} /\ op.first
             /\ Goto("end") /\ UNCHANGED state
          \/ /\ a # "ok" /\ (op.first => a \in {"down", "lost"})
             /\ Done /\ Abandon
    BY <1>8 DEF Split
  <2>1. CASE Done /\ Abandon /\ (op.first => a \in {"down", "lost"})
    BY <1>a, <2>1
  <2>2. CASE (Goto("splitDone") \/ Goto("end")) /\ UNCHANGED state
    BY <1>g, <2>2 DEF Goto
  <2> QED BY <2>1, <2>2
<1>9. CASE RecordSplit
  <2>1. op.end \in {"CANARY", "AB"}
    BY <1>9 DEF RecordSplit, DeliveryInv, OpFits, OpRecord
  <2>2. Phase' = [Phase EXCEPT ![r] = "open"]
    BY <1>9, <1>r, <2>1 DEF RecordSplit, Active
  <2> QED BY <1>1, <1>3, <2>2, StillOpen DEF Kept
<1>10. CASE UndoTraffic
  <2> PICK a \in Answers :
       /\ Notes(a)
       /\ \/ a = "ok" /\ Goto("endDone") /\ UNCHANGED state
          \/ /\ a \in {"refused", "halfway"} /\ op.first /\ Done
             /\ state' = [state EXCEPT ![op.r] = op.end]
          \/ /\ a # "ok" /\ (op.first => a \in {"down", "lost"})
             /\ Done /\ Abandon
    BY <1>10 DEF UndoTraffic
  <2>1. CASE Done /\ Abandon /\ (op.first => a \in {"down", "lost"})
    BY <1>a, <2>1
  <2>2. CASE Goto("endDone") /\ UNCHANGED state
    BY <1>g, <2>2 DEF Goto
  <2>3. CASE op.first /\ Done /\ state' = [state EXCEPT ![op.r] = op.end]
    <3>1. op.end \in {"CANARY", "AB"}
      BY <2>3 DEF DeliveryInv, OpFits, OpRecord
    <3>2. Phase' = [Phase EXCEPT ![r] = "open"]
      BY <1>r, <2>3, <3>1 DEF Active
    <3> QED BY <1>1, <1>3, <3>2, StillOpen DEF Kept
  <2> QED BY <2>1, <2>2, <2>3
<1>11. CASE RecordEnd
  <2>1. PICK p \in {"ROLLED_BACK", "EXPIRED", "REJECTED"} :
          state' = [state EXCEPT ![r] = p] /\ Done
    <3>1. (IF op.first THEN "ROLLED_BACK" ELSE op.end) \in {"ROLLED_BACK", "EXPIRED", "REJECTED"}
      BY <1>11 DEF RecordEnd, DeliveryInv, OpFits, OpRecord
    <3> QED BY <1>11, <3>1 DEF RecordEnd
  <2>2. Phase' = [Phase EXCEPT ![r] = p]
    BY <1>r, <2>1 DEF Active
  <2>3. Only(Refused)' => Only(Refused) /\ r \notin keys
    BY <1>5, <1>11, <1>t DEF RecordEnd
  <2> QED BY <1>1, <1>3, <2>2, <2>3, ServiceEnds
<1> QED BY <1>6, <1>7, <1>8, <1>9, <1>10, <1>11 DEF Control

\* Every step is a step of the service or leaves what the readers see alone.
LEMMA DeliveryServiceStep ==
  ASSUME DeliveryInv, KeyOnce, [Next]_vars
  PROVE  Service!Next \/ Kept
<1> USE DEF rows, history
<1>t. Only(Refused)' => Only(Refused)
  BY RefusedBefore DEF DeliveryInv
<1>0. op \in Ops /\ state \in [Rollouts -> States] /\ NoRollout \notin Rollouts
  BY DeliveryConstants DEF DeliveryInv, TypeOK, States
<1>1. CASE Move
  BY <1>1, ServiceMove
<1>2. CASE Control
  BY <1>2, ServiceControl
<1>3. CASE Crash
  <2>0. UNCHANGED <<last, keys, stable>> /\ Done /\ Abandon
    BY <1>3 DEF Crash
  <2>1. CASE op.r = NoRollout
    <3>1. ~op.first /\ ~op'.first /\ UNCHANGED state
      BY <2>0, <2>1 DEF DeliveryInv, OpFits, OpRow, Abandon, Done, Idle
    <3> QED BY <2>0, <3>1, PhaseStays, OpenOrEnded, OpenOrEndedNext DEF Kept
  <2>2. CASE op.r # NoRollout
    <3> PICK r \in Rollouts : r = op.r
      BY <1>0, <2>2 DEF Ops
    <3>1. op.first \/ state[r] \in Active
      BY <1>3, <2>2 DEF DeliveryInv, OpFits, OpRow
    <3>2. Phase[r] = "open"
      BY <3>1, OpenOrEnded
    <3>3. Phase' = [Phase EXCEPT ![r] = IF op.first THEN "VOID" ELSE "open"]
      BY <2>0, <3>1, PhaseAbandoned
    <3>4. ~Only(Refused)'
      BY <1>3, CrashTold DEF DeliveryInv, Refused
    <3>5. CASE op.first
      BY <2>0, <3>2, <3>3, <3>4, <3>5, ServiceEnds
    <3>6. CASE ~op.first
      BY <2>0, <3>2, <3>3, <3>6, StillOpen DEF Kept
    <3> QED BY <3>5, <3>6
  <2> QED BY <2>1, <2>2
<1>4. ASSUME NEW r \in Rollouts, StartRollout(r) PROVE Service!Next
  <2>1. /\ op.pc = "idle" /\ state[r] = "NEW" /\ NoneActive /\ live # NoVersion
        /\ stable' = [stable EXCEPT ![r] = live] /\ UNCHANGED <<last, keys, faults>>
    BY <1>4, StartShape DEF DeliveryInv
  <2>2. ~op.first
    BY <2>1 DEF DeliveryInv, OpFits, OpIdle, Idle
  <2>3. \A q \in Rollouts : Phase[q] = state[q] /\ Phase[q] # "open"
    BY <1>0, <2>1, <2>2, OpenOrEnded DEF NoneActive, States, Active, Final
  <2>4. /\ \A q \in Rollouts \ {r} : state'[q] = state[q] /\ (op'.first => op'.r # q)
        /\ state'[r] \in Active \/ (op'.first /\ op'.r = r)
    <3>1. CASE op' = Idle
      BY <1>0, <1>4, <3>1, StartShape DEF DeliveryInv, Idle, Active, Opening, Splitting, Promoting
    <3>2. CASE Opening(op', r) /\ state' = state
      BY <3>2, OpeningFits
    <3>3. CASE op' = Promoting(r, CandidateOf[r]) /\ state' = [state EXCEPT ![r] = "CANARY"]
      BY <1>0, <3>3 DEF Promoting, Idle, Active
    <3> QED BY <1>4, <3>1, <3>2, <3>3, StartShape DEF DeliveryInv
  <2>5. Phase' = [Phase EXCEPT ![r] = "open"]
    <3>1. Phase'[r] = "open"
      BY <2>4, OpenOrEndedNext
    <3>2. \A q \in Rollouts \ {r} : Phase'[q] = Phase[q]
      BY <2>1, <2>2, <2>4, OpenOrEnded, OpenOrEndedNext
    <3> QED BY <3>1, <3>2, PhaseBecomes
  <2>6. live \in Versions
    BY <2>1 DEF DeliveryInv, TypeOK, AnyVersion
  <2>7. Only(Refused) => live = last.to
    <3>1. Only(Refused) => Only(Told)
      BY DEF Only, Refused, Told
    <3> QED BY <2>1, <3>1 DEF DeliveryInv, LiveTraced, Told
  <2>8. Service!Start(r)
    BY <2>1, <2>3, <2>5, <2>6, <2>7 DEF Service!Start, Service!Becomes, Phase, Refused
  <2> QED BY <1>t, <2>8 DEF Service!Next, Service!Trust, Refused, Only
<1>5. ASSUME NEW r \in Rollouts, Tick(r) \/ Approve(r) \/ Reject(r) PROVE Kept
  <2>1. /\ op.pc = "idle" /\ op' \in Starts(r) \union {op} /\ state[r] \in Active
        /\ \/ state' = state
           \/ state' = [state EXCEPT ![r] = "AWAITING_APPROVAL"]
        /\ UNCHANGED <<last, keys, stable>>
    BY <1>5, OperationShape DEF DeliveryInv
  <2>2. op = Idle
    BY <2>1 DEF DeliveryInv, OpFits, OpIdle
  <2>3. ~op.first /\ ~op'.first
    BY <2>1, <2>2, StartsFit DEF StartFits, Idle
  <2>4. \A q \in Rollouts : state'[q] = state[q] \/ (state[q] \in Active /\ state'[q] \in Active)
    BY <1>0, <2>1 DEF Active
  <2>5. \A q \in Rollouts : Phase'[q] = Phase[q]
    BY <2>3, <2>4, OpenOrEnded, OpenOrEndedNext
  <2> QED BY <2>1, <2>5, PhaseStays DEF Kept
<1>6. ASSUME NEW v \in Versions, Rollback(v) PROVE Kept
  <2>1. UNCHANGED <<last, keys, stable, state>> /\ op.pc = "idle" /\ ~op'.first
    BY <1>6 DEF Rollback, Begins, Quiet, Promoting, Idle
  <2>2. ~op.first
    BY <2>1 DEF DeliveryInv, OpFits, OpIdle, Idle
  <2> QED BY <2>1, <2>2, PhaseStays, OpenOrEnded, OpenOrEndedNext DEF Kept
<1>7. CASE UNCHANGED vars
  <2>1. UNCHANGED <<last, keys, stable, state, op>>
    BY <1>7 DEF vars
  <2> QED BY <2>1, PhaseStays, OpenOrEnded, OpenOrEndedNext DEF Kept
<1> QED BY <1>1, <1>2, <1>3, <1>4, <1>5, <1>6, <1>7 DEF Next, Operation

\* Rollouts and rollbacks of a model implement the service their rows promise: a
\* rollout moves LIVE at most once and only while it is open, and calls that say
\* what they did leave a history that is a chain (controller.py, promotion.py).
THEOREM Refinement == Spec => ImplementsService
<1>1. Init => Service!Init /\ KeyOnce
  BY DEF Init, Service!Init, PhaseOf, Idle, Active, Only, KeyOnce
<1>2. DeliveryInv /\ KeyOnce /\ [Next]_vars => KeyOnce'
  BY KeyOnceStep DEF DeliveryInv
<1>3. DeliveryInv /\ KeyOnce /\ [Next]_vars
        => [Service!Next]_<<[r \in Rollouts |-> PhaseOf(r)], stable, last, keys,
                            Only({"refused", "halfway"})>>
  <2> SUFFICES ASSUME DeliveryInv, KeyOnce, [Next]_vars, Kept
               PROVE  Service!Next
    BY DeliveryServiceStep
  <2>1. Only(Refused)' => Only(Refused)
    BY RefusedBefore DEF DeliveryInv
  <2>2. Service!Distrust
    BY DEF Kept, Service!Distrust, Phase
  <2> QED BY <2>1, <2>2 DEF Service!Next, Service!Trust, Refused, Only
<1> QED BY <1>1, <1>2, <1>3, DeliverySafe, PTL DEF Spec, ImplementsService, Service!Spec
=============================================================================
