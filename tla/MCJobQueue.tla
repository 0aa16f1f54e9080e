----------------------------- MODULE MCJobQueue -----------------------------
(* Small instances of JobQueue. *)
EXTENDS JobQueue, TLC

CONSTANTS j1, j2, m1, w1, w2, t1, x1

\* Both events are about the one model; both jobs belong to the one tenant.
OneModel == [j \in Jobs |-> m1]
OneTenant == [j \in Jobs |-> t1]
LimitOne == [t \in Tenants |-> 1]
Unlimited == [t \in Tenants |-> 0]
\* The path of an event answered by an existing version: the shortest one
\* that passes every kind of checkpoint and reaches the registry.
ReusePath == {r \in StageReports : r[1] \in {"DATA_PREPARING", "EVALUATING_VERSIONS",
                                             "REUSE_DECISION"}
                                  /\ r[2] # "DECISION_PENDING"}
\* Attempts that get no further than evaluating the versions.
FirstStage == {<<"DATA_PREPARING", "EVALUATING_VERSIONS">>}
Symmetry == Permutations(Jobs) \union Permutations(Workers)
=============================================================================
