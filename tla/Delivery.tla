------------------------------ MODULE Delivery ------------------------------
(***************************************************************************)
(* How a registered version reaches traffic: promote_version and           *)
(* rollback_model (registry/promotion.py), the Deployer                    *)
(* (registry/deployment.py) and the rollout controller                     *)
(* (delivery/controller.py), for one model.                                *)
(*                                                                         *)
(* The registry's LIVE alias, the serving system and the database are      *)
(* three systems with no common transaction.  One action is one call that  *)
(* changes one of them.  An operation holds the model's lock from its      *)
(* first step to its last, so one runs at a time; it can fail at every     *)
(* call, and its process can die between any two.                          *)
(*                                                                         *)
(* The serving system splits traffic (the traffic_split feature, without   *)
(* which canary and A/B rollouts are refused at startup).  Health verdicts *)
(* and the outcome of an A/B test are nondeterministic.                    *)
(***************************************************************************)
EXTENDS Integers, Sequences, FiniteSets

CONSTANTS
  Rollouts,      \* rollout ids
  CandidateOf,   \* Rollouts -> the version each delivers
  First,         \* the version live at the start
  Older,         \* versions registered before it
  NoVersion, NoRollout,
  CanarySteps,   \* policy.canary_steps: increasing percentages that end at 100
  AbPercent,     \* policy.ab_percent
  MaxFaults      \* bound: failed calls and crashes

Versions == {First} \union Older \union {CandidateOf[r] : r \in Rollouts}

ASSUME DeliveryConstants ==
  /\ NoVersion \notin {First} \union Older /\ NoRollout \notin Rollouts
  /\ \A r \in Rollouts : CandidateOf[r] \notin {First, NoVersion} \union Older
  /\ \A q, r \in Rollouts : CandidateOf[q] = CandidateOf[r] => q = r
  /\ CanarySteps \in Seq(1 .. 100) /\ CanarySteps # <<>>
  /\ \A i \in 1 .. Len(CanarySteps) : CanarySteps[i] = 100 <=> i = Len(CanarySteps)
  /\ AbPercent \in 1 .. 99
  /\ MaxFaults \in Nat

VARIABLES
  live,              \* what the LIVE alias points at
  served, split,     \* the serving system: stable version, <<candidate, percent>>
  last,              \* the latest APPLIED model_promotion row, with its idempotency key
  keys,              \* rollouts whose promotion row (idempotency key) is stored
  state, stable, step, percent,  \* the rollout rows
  policy,            \* ... and their <<shadow_then, approval_then>>
  op,                \* the operation that holds the model's lock
  faults,            \* the failures so far
  overtaken          \* history: rollouts during which a rollback moved LIVE

serving  == <<served, split>>
history  == <<last, keys, overtaken>>
rows     == <<state, stable, step, percent, policy>>
vars == <<live, serving, history, rows, op, faults>>

Active == {"SHADOW", "CANARY", "AB", "AWAITING_APPROVAL"}
Final  == {"PROMOTED", "ROLLED_BACK", "EXPIRED", "REJECTED"}

NoSplit == <<NoVersion, 0>>

\* pc: the next call.  r: the rollout, or NoRollout for a rollback or an inline
\* promotion.  to, from, before: the move, and what served before it.  end:
\* the state to record.  pct, at: the split and step to enter.  moved,
\* deployed: promote_version's alias_moved and deployed.  first: the rollout's
\* row is not committed yet.
Idle == [pc |-> "idle", r |-> NoRollout, to |-> NoVersion, from |-> NoVersion,
         before |-> NoVersion, end |-> "none", pct |-> 0, at |-> 0,
         moved |-> FALSE, deployed |-> FALSE, first |-> FALSE]

PCs == {"idle", "check", "alias", "deploy", "revert", "commit", "undo", "clear",
        "promoted", "split", "splitDone", "end", "endDone"}

\* policy.shadow_then and policy.approval_then, which only matters once the
\* rollout needs an approval.
Policies == {<<"promote", "promote">>, <<"canary", "promote">>,
             <<"manual", "promote">>, <<"manual", "canary">>}

FaultKinds == {"refused", "halfway", "down", "lost", "crash"}

AnyVersion == Versions \union {NoVersion}

Ops == [pc : PCs, r : Rollouts \union {NoRollout},
        to : AnyVersion, from : AnyVersion, before : AnyVersion,
        end : {"none", "CANARY", "AB", "ROLLED_BACK", "EXPIRED", "REJECTED"},
        pct : 0 .. 100, at : 0 .. Len(CanarySteps),
        moved : BOOLEAN, deployed : BOOLEAN, first : BOOLEAN]

TypeOK ==
  /\ live \in AnyVersion /\ served \in AnyVersion
  /\ last \in [from : AnyVersion, to : AnyVersion, by : Rollouts \union {NoRollout}]
  /\ split \in (Versions \X (1 .. 99)) \union {NoSplit}
  /\ keys \subseteq Rollouts /\ overtaken \subseteq Rollouts
  /\ state \in [Rollouts -> {"NEW", "VOID"} \union Active \union Final]
  /\ stable \in [Rollouts -> AnyVersion]
  /\ step \in [Rollouts -> 1 .. Len(CanarySteps)]
  /\ percent \in [Rollouts -> 0 .. 100]
  /\ policy \in [Rollouts -> Policies]
  /\ op \in Ops
  /\ faults \in Seq(FaultKinds) /\ Len(faults) <= MaxFaults

Init ==
  /\ live = First /\ served = First /\ split = NoSplit
  /\ last = [from |-> NoVersion, to |-> First, by |-> NoRollout]   \* as onboarded
  /\ keys = {} /\ overtaken = {}
  /\ state = [r \in Rollouts |-> "NEW"]
  /\ stable = [r \in Rollouts |-> NoVersion]
  /\ step = [r \in Rollouts |-> 1]
  /\ percent = [r \in Rollouts |-> 0]
  /\ policy = [r \in Rollouts |-> <<"manual", "promote">>]
  /\ op = Idle
  /\ faults = <<>>

-----------------------------------------------------------------------------
(* Calls to the registry and the serving system.                           *)

\* A call succeeds ("ok"), is refused or never reads back (DeploymentError:
\* "refused" had no effect, "halfway" had), or cannot be reached
\* (DeploymentUnavailableError and the like: "down" had no effect, "lost" had).
Answers == {"ok"} \union (IF Len(faults) < MaxFaults THEN FaultKinds \ {"crash"} ELSE {})
TakesEffect(a) == a \in {"ok", "halfway", "lost"}
Notes(a) == faults' = IF a = "ok" THEN faults ELSE Append(faults, a)

\* set_traffic, and the read-back of split: v serves, and s of the traffic goes
\* to a candidate.
Traffic(a, v, s) ==
  IF TakesEffect(a) THEN served' = v /\ split' = s ELSE UNCHANGED serving

\* deploy and restore.  Some systems drop a split when a version is deployed
\* (KServe), some keep it (aliases).
Serve(a, v) ==
  IF TakesEffect(a) THEN served' = v /\ split' \in {split, NoSplit} ELSE UNCHANGED serving

Goto(pc) == op' = [op EXCEPT !.pc = pc]
Done == op' = Idle

-----------------------------------------------------------------------------
(* promote_version.                                                        *)

\* "LIVE moved since this promotion was planned" (expected_live).
Conflict == op.r # NoRollout /\ live # stable[op.r]

\* What the caller does with a PromotionError or ConflictError: a rollout is
\* rolled back, anything else reports it.
Fails == op' = IF op.r = NoRollout THEN Idle ELSE [op EXCEPT !.pc = "end", !.end = "ROLLED_BACK"]

Succeeds == IF op.r = NoRollout THEN Done ELSE Goto("clear")

\* Everything before the first change: a stored key, LIVE moved, already live;
\* the artifact's checksum and what serves now.
PromoteChecks ==
  /\ op.pc = "check"
  /\ IF op.r \in keys THEN Succeeds /\ UNCHANGED history
     ELSE IF Conflict THEN Fails /\ UNCHANGED history
     ELSE IF live = op.to
     THEN /\ Succeeds
          /\ keys' = keys \union ({op.r} \ {NoRollout})
          /\ UNCHANGED <<last, overtaken>>
     ELSE /\ op' = [op EXCEPT !.pc = "alias", !.from = live, !.before = served]
          /\ UNCHANGED history
  /\ UNCHANGED <<live, serving, rows, faults>>

\* LIVE cannot be read, the artifact fails its check or cannot be fetched
\* (raised as it is), or the serving system's status cannot be read (a
\* PromotionError).
PromoteRefused ==
  /\ op.pc = "check" /\ op.r \notin keys
  /\ \E a \in Answers \cap {"refused", "down"} :
       /\ Notes(a)
       /\ \/ a = "down" /\ Done
          \/ a = "refused" /\ ~Conflict /\ live # op.to /\ Fails
  /\ UNCHANGED <<live, serving, history, rows>>

\* set_alias and its read-back ("halfway": only the read-back failed).
MoveAlias ==
  /\ op.pc = "alias"
  /\ \E a \in Answers :
       /\ live' = IF TakesEffect(a) THEN op.to ELSE live
       /\ op' = [op EXCEPT !.pc = IF a = "ok" THEN "deploy" ELSE "undo",
                           !.moved = a \in {"ok", "halfway"}]
       /\ Notes(a)
  /\ UNCHANGED <<serving, history, rows>>

\* Deployer.rollout: deploy and read back.
Deploy ==
  /\ op.pc = "deploy"
  /\ \E a \in Answers :
       /\ Serve(a, op.to)
       /\ op' = [op EXCEPT !.pc = IF a = "ok" THEN "commit" ELSE "revert",
                           !.deployed = a = "ok"]
       /\ Notes(a)
  /\ UNCHANGED <<live, history, rows>>

\* Mutant: a deployment that failed is left as it is.
RevertDeployNot ==
  /\ op.pc = "revert" /\ Goto("undo")
  /\ UNCHANGED <<live, serving, history, rows, faults>>

\* ... and put the previous version back when that failed.
RevertDeploy ==
  /\ op.pc = "revert"
  /\ \E a \in Answers : Serve(a, op.before) /\ Notes(a)
  /\ Goto("undo")
  /\ UNCHANGED <<live, history, rows>>

\* Status tags, audit and commit; "lost": committed, but the answer was not
\* received.
CommitMove ==
  /\ op.pc = "commit"
  /\ \E a \in Answers \ {"halfway"} :
       /\ IF TakesEffect(a)
          THEN /\ last' = [from |-> op.from, to |-> op.to, by |-> op.r]
               /\ keys' = keys \union ({op.r} \ {NoRollout})
               /\ overtaken' = overtaken \union
                    {r \in Rollouts : op.r = NoRollout /\ state[r] \in Active}
          ELSE UNCHANGED history
       /\ IF a = "ok" THEN Succeeds ELSE Goto("undo")
       /\ Notes(a)
  /\ UNCHANGED <<live, serving, rows>>

\* Mutant: a failed move leaves the alias where it is.
UndoMoveServes ==
  /\ op.pc = "undo"
  /\ IF op.deployed
     THEN /\ \E a \in Answers : Serve(a, op.before) /\ Notes(a)
          /\ op' = [op EXCEPT !.deployed = FALSE]
     ELSE Fails /\ UNCHANGED <<serving, faults>>
  /\ UNCHANGED <<live, history, rows>>

\* _restore_alias: a failure is only logged.
RestoreAlias(a) == live' = IF TakesEffect(a) THEN op.from ELSE live

\* The except clause: the serving system first, then the alias; each is tried
\* once.
UndoMove ==
  /\ op.pc = "undo"
  /\ IF op.deployed
     THEN /\ \E a \in Answers : Serve(a, op.before) /\ Notes(a)
          /\ op' = [op EXCEPT !.deployed = FALSE]
          /\ UNCHANGED live
     ELSE /\ Fails
          /\ UNCHANGED serving
          /\ IF op.moved
             THEN \E a \in Answers : Notes(a) /\ RestoreAlias(a)
             ELSE UNCHANGED <<live, faults>>
  /\ UNCHANGED <<history, rows>>

-----------------------------------------------------------------------------
(* The controller's own sequences.                                         *)

\* Mutant: a split that cannot be removed ends the rollout.
ClearSplitOrEnd ==
  /\ op.pc = "clear"
  /\ IF percent[op.r] > 0
     THEN \E a \in Answers :
            /\ Traffic(a, CandidateOf[op.r], NoSplit)
            /\ IF a = "ok" THEN Goto("promoted") ELSE Fails
            /\ Notes(a)
     ELSE Goto("promoted") /\ UNCHANGED <<serving, faults>>
  /\ UNCHANGED <<live, history, rows>>

\* _promote after the move: remove the split.  A DeploymentError is noted.
ClearSplit ==
  /\ op.pc = "clear"
  /\ IF percent[op.r] > 0
     THEN \E a \in Answers :
            /\ Traffic(a, CandidateOf[op.r], NoSplit)
            /\ IF a \in {"down", "lost"} THEN Done ELSE Goto("promoted")
            /\ Notes(a)
     ELSE Goto("promoted") /\ UNCHANGED <<serving, faults>>
  /\ UNCHANGED <<live, history, rows>>

RecordPromoted ==
  /\ op.pc = "promoted"
  /\ state' = [state EXCEPT ![op.r] = "PROMOTED"]
  /\ percent' = [percent EXCEPT ![op.r] = 100]
  /\ Done
  /\ UNCHANGED <<live, serving, history, stable, step, policy, faults>>

\* The row of a rollout that was still being started is rolled back.
Abandon == IF op.first THEN state' = [state EXCEPT ![op.r] = "VOID"] ELSE UNCHANGED state

\* _split towards the candidate, in a canary step or the start of a rollout.
Split ==
  /\ op.pc = "split"
  /\ \E a \in Answers :
       /\ Traffic(a, stable[op.r], <<CandidateOf[op.r], op.pct>>)
       /\ Notes(a)
       /\ \/ a = "ok" /\ Goto("splitDone") /\ UNCHANGED state
          \/ /\ a \in {"refused", "halfway"} /\ op.first
             /\ Goto("end") /\ UNCHANGED state
          \/ /\ a # "ok" /\ (op.first => a \in {"down", "lost"})
             /\ Done /\ Abandon
  /\ UNCHANGED <<live, history, stable, step, percent, policy>>

\* _record of the state the split leads to.
RecordSplit ==
  /\ op.pc = "splitDone"
  /\ state' = [state EXCEPT ![op.r] = op.end]
  /\ percent' = [percent EXCEPT ![op.r] = op.pct]
  /\ step' = [step EXCEPT ![op.r] = op.at]
  /\ Done
  /\ UNCHANGED <<live, serving, history, stable, policy, faults>>

\* Mutant: the recorded percentage is trusted, the serving system is not asked.
HasTrafficRecorded(r) == percent[r] > 0

\* _undo_traffic removes a split that is recorded or that the system reports.
HasTraffic(r) == percent[r] > 0 \/ split # NoSplit

\* _end_without_promotion: undo the traffic first; when that fails the rollout
\* stays as it was (one being started is then stored in its first state).
UndoTraffic ==
  /\ op.pc = "end"
  /\ \E a \in Answers :
       /\ IF HasTraffic(op.r) THEN Traffic(a, stable[op.r], NoSplit) ELSE UNCHANGED serving
       /\ Notes(a)
       /\ \/ a = "ok" /\ Goto("endDone") /\ UNCHANGED state
          \/ /\ a \in {"refused", "halfway"} /\ op.first /\ Done
             /\ state' = [state EXCEPT ![op.r] = op.end]
          \/ /\ a # "ok" /\ (op.first => a \in {"down", "lost"})
             /\ Done /\ Abandon
  /\ UNCHANGED <<live, history, stable, step, percent, policy>>

RecordEnd ==
  /\ op.pc = "endDone"
  /\ state' = [state EXCEPT ![op.r] = IF op.first THEN "ROLLED_BACK" ELSE op.end]
  /\ percent' = [percent EXCEPT ![op.r] = 0]
  /\ Done
  /\ UNCHANGED <<live, serving, history, stable, step, policy, faults>>

-----------------------------------------------------------------------------
(* Operations: each takes the model's lock.                                *)

\* _lock: taken when nobody holds the model.
Begins(o) == op.pc = "idle" /\ op' = o
Quiet == UNCHANGED <<live, serving, history, faults>>
NoneActive == \A r \in Rollouts : state[r] \notin Active

Promoting(r, v) == [Idle EXCEPT !.pc = "check", !.r = r, !.to = v]
Ending(r, s) == [Idle EXCEPT !.pc = "end", !.r = r, !.end = s]
Splitting(r, s, p, i) == [Idle EXCEPT !.pc = "split", !.r = r, !.end = s, !.pct = p, !.at = i]

\* A canary step: the one at 100 percent is the promotion.
CanaryStep(r, i) ==
  IF CanarySteps[i] >= 100 THEN Promoting(r, CandidateOf[r])
  ELSE Splitting(r, "CANARY", CanarySteps[i], i)

\* start_rollout, by the job that registered the candidate (pipeline._deliver).
\* A shadow or manual rollout is stored at once; a canary or A/B one with its
\* first split, unless its only step is the promotion.
StartRollout(r) ==
  /\ state[r] = "NEW" /\ NoneActive /\ live # NoVersion
  /\ stable' = [stable EXCEPT ![r] = live]
  /\ \E p \in Policies :
       /\ policy' = [policy EXCEPT ![r] = p]
       /\ \/ state' = [state EXCEPT ![r] = "SHADOW"] /\ Begins(Idle)
          \/ /\ p[1] = "manual"
             /\ state' = [state EXCEPT ![r] = "AWAITING_APPROVAL"] /\ Begins(Idle)
          \/ /\ p[1] = "manual"
             /\ Begins([Splitting(r, "AB", AbPercent, 1) EXCEPT !.first = TRUE])
             /\ UNCHANGED state
          \/ /\ p[1] = "canary"
             /\ Begins([CanaryStep(r, 1) EXCEPT !.first = CanarySteps[1] < 100])
             /\ state' = IF CanarySteps[1] < 100 THEN state ELSE [state EXCEPT ![r] = "CANARY"]
  /\ Quiet /\ UNCHANGED <<step, percent>>

\* _advance ends a rollout: no approval or no verdict in time, a breach, a worse
\* or inconclusive A/B test.
EndRollout(r) ==
  /\ \/ state[r] \in {"SHADOW", "AWAITING_APPROVAL"} /\ Begins(Ending(r, "EXPIRED"))
     \/ state[r] \in {"SHADOW", "CANARY", "AB"} /\ Begins(Ending(r, "ROLLED_BACK"))
  /\ Quiet /\ UNCHANGED rows

\* A healthy shadow, or a better (or inconclusive) A/B test.
PromoteRollout(r) ==
  /\ state[r] = "AB" \/ (state[r] = "SHADOW" /\ policy[r][1] = "promote")
  /\ Begins(Promoting(r, CandidateOf[r]))
  /\ Quiet /\ UNCHANGED rows

\* A healthy shadow goes on as a canary; a canary step that held goes to the
\* next.  (A canary that is at its last step already, because the promotion of
\* canary_steps == [100] could not be made, has none: policy.canary_steps[nxt]
\* raises and the tick changes nothing.)
AdvanceCanary(r) ==
  /\ \/ state[r] = "SHADOW" /\ policy[r][1] = "canary" /\ Begins(CanaryStep(r, 1))
     \/ /\ state[r] = "CANARY" /\ step[r] < Len(CanarySteps)
        /\ Begins(CanaryStep(r, step[r] + 1))
  /\ Quiet /\ UNCHANGED rows

\* _locked_action: an operator's action on a rollout that has not ended.
LockedAction(r, o) == state[r] \in Active /\ Begins(o)

\* An approval, in time or too late.
Approve(r) ==
  /\ state[r] = "AWAITING_APPROVAL"
  /\ \/ policy[r][2] = "promote" /\ LockedAction(r, Promoting(r, CandidateOf[r]))
     \/ policy[r][2] = "canary" /\ LockedAction(r, CanaryStep(r, 1))
     \/ LockedAction(r, Ending(r, "EXPIRED"))
  /\ Quiet /\ UNCHANGED rows

Reject(r) ==
  /\ LockedAction(r, Ending(r, "REJECTED"))
  /\ Quiet /\ UNCHANGED rows

\* A shadow or an A/B test that needs an operator.
AskApproval(r) ==
  /\ state[r] = "AB" \/ (state[r] = "SHADOW" /\ policy[r][1] = "manual")
  /\ op.pc = "idle"
  /\ state' = [state EXCEPT ![r] = "AWAITING_APPROVAL"]
  /\ Quiet /\ UNCHANGED <<stable, step, percent, policy, op>>

\* Versions the registry holds.
Registered == {First} \union Older \union {CandidateOf[r] : r \in {q \in Rollouts : state[q] # "NEW"}}

\* rollback_model, to a version asked for or the one before the last promotion;
\* no rollout is looked for.  A job that promotes or reuses a version itself
\* does the same, when no rollout is active.
Rollback(v) ==
  /\ v \in Registered \union ({last.from} \ {NoVersion})
  /\ Begins(Promoting(NoRollout, v))
  /\ Quiet /\ UNCHANGED rows

\* The process dies; the lock expires and what it committed stays.
Crash ==
  /\ op.pc # "idle" /\ Len(faults) < MaxFaults
  /\ faults' = Append(faults, "crash")
  /\ Done /\ Abandon
  /\ UNCHANGED <<live, serving, history, stable, step, percent, policy>>

Move == PromoteChecks \/ PromoteRefused \/ MoveAlias \/ Deploy \/ RevertDeploy
          \/ CommitMove \/ UndoMove

Control == ClearSplit \/ RecordPromoted \/ Split \/ RecordSplit \/ UndoTraffic \/ RecordEnd

\* tick, of one of the active rollouts: nothing, or one thing _advance finds due.
Tick(r) == EndRollout(r) \/ PromoteRollout(r) \/ AdvanceCanary(r) \/ AskApproval(r)

Operation(r) == StartRollout(r) \/ Tick(r) \/ Approve(r) \/ Reject(r)

Next ==
  \/ Move \/ Control \/ Crash
  \/ \E r \in Rollouts : Operation(r)
  \/ \E v \in Versions : Rollback(v)

Spec == Init /\ [][Next]_vars

-----------------------------------------------------------------------------
(* What delivery promises.                                                 *)

\* At most one call failed, of these kinds, and no process died.
Only(kinds) == Len(faults) <= 1 /\ \A i \in 1 .. Len(faults) : faults[i] \in kinds

\* LIVE points where the history says (promotion.py: "LIVE never ends up
\* pointing somewhere the history does not explain"), whichever call of a
\* promotion, a rollback or a rollout fails, as long as the call reports what
\* it did and the restore succeeds.
LiveExplained ==
  op.pc = "idle" /\ Only({"refused", "halfway", "down"}) => live = last.to

\* What serves traffic is LIVE once no rollout is active (deployment.py: "LIVE
\* and what serves traffic never disagree after a failed move"), for one
\* refused or unsettled change, if no rollback moved LIVE during a rollout.
ServingIsLive ==
  op.pc = "idle" /\ NoneActive /\ overtaken = {} /\ Only({"refused", "halfway"})
    => served = live

\* Candidate traffic belongs to a rollout that will still undo it or that made
\* the candidate live, whatever failed or died on the way; the one exception is
\* a rollout whose row was lost while it was being started.
NoStrayTraffic ==
  op.pc = "idle" /\ split # NoSplit =>
    \E r \in Rollouts : CandidateOf[r] = split[1]
                        /\ state[r] \in Active \union {"PROMOTED", "VOID"}

\* A rollout moves LIVE only from the version it was measured against, even
\* when rollbacks moved LIVE during it or its promotion is retried.
PromotesFromStable ==
  [][\A r \in Rollouts :
       r \in keys' \ keys /\ last' # last
         => last' = [from |-> stable[r], to |-> CandidateOf[r], by |-> r]]_vars

\* A rollout being started is open: the model's lock is held for it.
PhaseOf(r) == IF state[r] \in Active \/ (op.first /\ op.r = r) THEN "open" ELSE state[r]

Service == INSTANCE RolloutService WITH
  phase <- [r \in Rollouts |-> PhaseOf(r)], planned <- stable, history <- last, moved <- keys,
  told <- Only({"refused", "halfway"})

\* Rollouts and rollbacks keep the promises of RolloutService (rollout_metrics.md,
\* promotion.py), whatever fails: LIVE moves at most once for a rollout and only
\* while it is open, its row ends once, and calls that tell what they did leave a
\* history that is a chain and no promoted rollout that reports another end.
ImplementsService == Service!Spec

\* rollout_metrics.md: "the rollout ends ROLLED_BACK.  LIVE never moved, so
\* nothing else needs undoing": with no failed call at all, what serves traffic
\* is LIVE when a rollout is rolled back.
NothingElseToUndo ==
  [][\A r \in Rollouts :
       state[r] # "ROLLED_BACK" /\ state'[r] = "ROLLED_BACK" /\ faults = <<>>
         => served = live]_vars
=============================================================================
