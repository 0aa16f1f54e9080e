----------------------------- MODULE MCPlatform -----------------------------
(***************************************************************************)
(* Small instances of what surrounds an adaptation: the deployment         *)
(* adapters, the attempt and its sandbox, access to the API, and the       *)
(* metrics of the ports.  They share no state: a behaviour is about one of *)
(* them and the others stay where they start.                              *)
(***************************************************************************)
EXTENDS Serving, Execution, Access, Measurements

VARIABLE part

OneServing == svBackend = "kube" /\ svLive = SvNone
OneAttempt == exMode = "process" /\ exBackend = "subprocess" /\ exTries = 1
OneGate == acBackend = "oidc"

Init ==
    /\ \/ part = "serving" /\ OneAttempt /\ OneGate
       \/ part = "execution" /\ OneServing /\ OneGate
       \/ part = "access" /\ OneServing /\ OneAttempt
       \/ part = "measurements" /\ OneServing /\ OneAttempt /\ OneGate
    /\ SvInit /\ ExInit /\ AcInit /\ MsInit

Next ==
    \/ part = "serving" /\ SvNext /\ UNCHANGED <<exVars, acVars, msVars, part>>
    \/ part = "execution" /\ ExNext /\ UNCHANGED <<svVars, acVars, msVars, part>>
    \/ part = "access" /\ AcNext /\ UNCHANGED <<svVars, exVars, msVars, part>>
    \/ part = "measurements" /\ MsNext /\ UNCHANGED <<svVars, exVars, acVars, part>>

Spec == Init /\ [][Next]_<<svVars, exVars, acVars, msVars, part>>
=============================================================================
