------------------------------ MODULE JobStates ------------------------------
(***************************************************************************)
(* The statuses of an adaptation job and the moves between them            *)
(* (core/enums.py, core/state_machine.py), and the stages a pipeline       *)
(* attempt reports (orchestrator/pipeline.py).  The three statuses kept    *)
(* only for rows of older releases (ANALYZING, MODEL_COMPARISON,           *)
(* DECISION_MADE) are never entered and are left out.                      *)
(***************************************************************************)

\* TERMINAL_STATUSES.
Terminal == {"COMPLETED", "FAILED", "ROLLED_BACK", "TIMED_OUT", "CANCELLED"}

\* The statuses a job has while an attempt of it runs.  _try_claim moves it
\* through VALIDATING to DATA_PREPARING in one transaction, so VALIDATING is
\* never visible.
Stages == {"DATA_PREPARING", "EVALUATING_VERSIONS", "REUSE_DECISION",
           "DECISION_PENDING", "ADAPTING", "VALIDATING_CANDIDATE",
           "REGISTERING", "PROMOTING"}

\* jobs._REGISTRY_STAGES.
RegistryStages == {"REGISTERING", "PROMOTING"}

Status == {"RECEIVED", "QUEUED", "VALIDATING"} \union Stages \union Terminal

\* state_machine._ALLOWED.
Forward == [s \in Status \ Terminal |->
  CASE s = "RECEIVED"             -> {"QUEUED", "VALIDATING", "FAILED"}
    [] s = "QUEUED"               -> {"VALIDATING", "FAILED"}
    [] s = "VALIDATING"           -> {"DATA_PREPARING", "FAILED"}
    [] s = "DATA_PREPARING"       -> {"EVALUATING_VERSIONS", "DECISION_PENDING",
                                      "COMPLETED", "FAILED"}
    [] s = "EVALUATING_VERSIONS"  -> {"REUSE_DECISION", "FAILED"}
    [] s = "REUSE_DECISION"       -> {"PROMOTING", "DECISION_PENDING", "FAILED"}
    [] s = "DECISION_PENDING"     -> {"ADAPTING", "COMPLETED", "FAILED"}
    [] s = "ADAPTING"             -> {"VALIDATING_CANDIDATE", "FAILED"}
    [] s = "VALIDATING_CANDIDATE" -> {"REGISTERING", "COMPLETED", "FAILED"}
    [] s = "REGISTERING"          -> {"PROMOTING", "FAILED"}
    [] s = "PROMOTING"            -> {"COMPLETED", "ROLLED_BACK", "FAILED"}]

\* Mutant: a failed promotion may not end its job ROLLED_BACK.
AllowedNextStrict(s) ==
  IF s \in Terminal THEN {}
  ELSE (Forward[s] \ {"ROLLED_BACK"}) \union {"TIMED_OUT", "CANCELLED", "QUEUED"}

\* allowed_next: nothing leaves a terminal status; a deadline or a cancel
\* strikes anywhere else; a job that was started may go back to the queue.
AllowedNext(s) ==
  IF s \in Terminal THEN {}
  ELSE Forward[s] \union {"TIMED_OUT", "CANCELLED"}
                  \union (IF s \in {"RECEIVED", "QUEUED"} THEN {} ELSE {"QUEUED"})

\* The stage reports of _run_adaptation_job and _deliver, in the order the
\* pipeline can make them: reporting s when the attempt is in stage f.
StageReports ==
  {<<"DATA_PREPARING", "EVALUATING_VERSIONS">>,
   <<"EVALUATING_VERSIONS", "REUSE_DECISION">>,
   <<"REUSE_DECISION", "PROMOTING">>,           \* an existing version is reused
   <<"REUSE_DECISION", "DECISION_PENDING">>,
   <<"DATA_PREPARING", "DECISION_PENDING">>,    \* versions cannot be scored
   <<"DECISION_PENDING", "ADAPTING">>,
   <<"ADAPTING", "VALIDATING_CANDIDATE">>,
   <<"VALIDATING_CANDIDATE", "REGISTERING">>,
   <<"REGISTERING", "PROMOTING">>}              \* promote, or start a rollout

\* The results an attempt returns: ROLLED_BACK when the promotion or the
\* rollout failed, else COMPLETED (NO_ACTION, ROLLOUT_IN_PROGRESS, REUSED,
\* REJECTED, REGISTERED, DELIVERING).
Results ==
  {<<"DATA_PREPARING", "COMPLETED">>, <<"DECISION_PENDING", "COMPLETED">>,
   <<"VALIDATING_CANDIDATE", "COMPLETED">>, <<"PROMOTING", "COMPLETED">>,
   <<"PROMOTING", "ROLLED_BACK">>}
=============================================================================
