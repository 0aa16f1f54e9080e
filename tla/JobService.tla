----------------------------- MODULE JobService -----------------------------
(***************************************************************************)
(* What the job queue promises to the callers of the API, without leases,  *)
(* locks, workers or the reaper: a submitted job waits, runs, perhaps      *)
(* waits again, and ends once; a model has at most one job that has not    *)
(* ended, and a newer job is accepted in its place only by ending it.      *)
(***************************************************************************)
EXTENDS JobStates

CONSTANTS Jobs, ModelOf

VARIABLE phase

Active == {"waiting", "running"}

Init == phase = [j \in Jobs |-> "none"]

\* A job is accepted when its model has no other active one, or ends that one.
Accept(j) ==
  /\ phase[j] = "none"
  /\ \E old \in SUBSET {k \in Jobs : ModelOf[k] = ModelOf[j] /\ phase[k] \in Active} :
       phase' = [k \in Jobs |-> IF k = j THEN "waiting"
                                ELSE IF k \in old THEN "FAILED" ELSE phase[k]]
  /\ \A k \in Jobs : k # j /\ ModelOf[k] = ModelOf[j] => phase'[k] \notin Active

Start(j) == phase[j] = "waiting" /\ phase' = [phase EXCEPT ![j] = "running"]

Retry(j) == phase[j] = "running" /\ phase' = [phase EXCEPT ![j] = "waiting"]

\* A waiting job ends only by a cancel or its deadline; a running one anyhow.
End(j) ==
  \E s \in Terminal :
    /\ phase[j] = "running" \/ (phase[j] = "waiting" /\ s \in {"CANCELLED", "TIMED_OUT"})
    /\ phase' = [phase EXCEPT ![j] = s]

Next == \E j \in Jobs : Accept(j) \/ Start(j) \/ Retry(j) \/ End(j)

Spec == Init /\ [][Next]_phase
=============================================================================
