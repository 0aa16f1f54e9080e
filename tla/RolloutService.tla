--------------------------- MODULE RolloutService ---------------------------
(***************************************************************************)
(* What rollouts and rollbacks of one model promise to who reads their     *)
(* rows, without the serving system, locks, splits and compensation: a     *)
(* rollout opens when no other is open and ends once; it moves LIVE at     *)
(* most once, from the version it was measured against to its candidate;   *)
(* and, as long as every call says what it did, the history of moves is a  *)
(* chain, a rollout that moved LIVE is promoted, and no row is lost.       *)
(***************************************************************************)
CONSTANTS Rollouts, CandidateOf, Versions, First, NoVersion, NoRollout

VARIABLES phase,    \* rollout -> NEW, open, or how it ended
          planned,  \* rollout -> the version it is measured against
          history,  \* the last move, and the rollout it was for
          moved,    \* rollouts whose candidate became LIVE
          told      \* every call so far told what it did

Init ==
  /\ phase = [r \in Rollouts |-> "NEW"]
  /\ planned = [r \in Rollouts |-> NoVersion]
  /\ history = [from |-> NoVersion, to |-> First, by |-> NoRollout]
  /\ moved = {}
  /\ told = TRUE

\* A call that fails without a word may come with any step.
Trust == told' \in BOOLEAN /\ (told' => told)

Becomes(r, p) == phase' = [phase EXCEPT ![r] = p]

Start(r) ==
  /\ phase[r] = "NEW" /\ \A q \in Rollouts : phase[q] # "open"
  /\ Becomes(r, "open")
  /\ \E v \in Versions : planned' = [planned EXCEPT ![r] = v] /\ (told => v = history.to)
  /\ UNCHANGED <<history, moved>>

\* LIVE moves from one version to another, for a rollout or an operator.
Moves(r, v, w) ==
  /\ history' = [from |-> v, to |-> w, by |-> r]
  /\ v # w /\ (told => v = history.to)

Deliver(r) ==
  /\ phase[r] = "open" /\ r \notin moved
  /\ Moves(r, planned[r], CandidateOf[r])
  /\ moved' = moved \union {r}
  /\ UNCHANGED <<phase, planned>>

\* An operator has made the candidate LIVE already.
Find(r) ==
  /\ phase[r] = "open" /\ r \notin moved
  /\ told => history.to = CandidateOf[r]
  /\ moved' = moved \union {r}
  /\ UNCHANGED <<phase, planned, history>>

Rollback ==
  /\ \E v, w \in Versions \union {NoVersion} : Moves(NoRollout, v, w)
  /\ UNCHANGED <<phase, planned, moved>>

Promote(r) ==
  /\ phase[r] = "open" /\ r \in moved /\ Becomes(r, "PROMOTED")
  /\ UNCHANGED <<planned, history, moved>>

End(r) ==
  /\ phase[r] = "open"
  /\ \/ Becomes(r, "ROLLED_BACK") \/ Becomes(r, "EXPIRED") \/ Becomes(r, "REJECTED")
     \/ ~told' /\ Becomes(r, "VOID")
  /\ told' => r \notin moved
  /\ UNCHANGED <<planned, history, moved>>

Distrust == UNCHANGED <<phase, planned, history, moved>>

Next ==
  /\ Trust
  /\ \/ Rollback \/ Distrust
     \/ \E r \in Rollouts : Start(r) \/ Deliver(r) \/ Find(r) \/ Promote(r) \/ End(r)

Spec == Init /\ [][Next]_<<phase, planned, history, moved, told>>
=============================================================================
