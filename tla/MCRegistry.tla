----------------------------- MODULE MCRegistry -----------------------------
(***************************************************************************)
(* Small instances of the registry adapters and of model onboarding.  They *)
(* share no state: a behaviour is about one of them.                       *)
(***************************************************************************)
EXTENDS FileRegistry, MirrorRegistry, CloudRegistries, Onboarding

VARIABLE part

OneStore == fsStore = "filesystem"
OneMode == mrMode = "fail"
OneBackend == cnBackend = "vertex"
OneAsk == obReq = [r \in ObRequests |->
             [asks |-> [kind |-> "attach", model |-> CHOOSE m \in ObModels : TRUE,
                        target |-> TRUE, drifted |-> FALSE, named |-> FALSE, data |-> FALSE],
              at |-> "new", ver |-> 0, why |-> "none"]]

Init ==
    /\ \/ part = "files" /\ OneMode /\ OneBackend /\ OneAsk
       \/ part = "mirror" /\ OneStore /\ OneBackend /\ OneAsk
       \/ part = "cloud" /\ OneStore /\ OneMode /\ OneAsk
       \/ part = "onboarding" /\ OneStore /\ OneMode /\ OneBackend
    /\ FsInit /\ MrInit /\ CnInit /\ ObInit

Next ==
    \/ part = "files" /\ FsNext /\ UNCHANGED <<mrVars, cnVars, obVars, part>>
    \/ part = "mirror" /\ MrNext /\ UNCHANGED <<fsVars, cnVars, obVars, part>>
    \/ part = "cloud" /\ CnNext /\ UNCHANGED <<fsVars, mrVars, obVars, part>>
    \/ part = "onboarding" /\ ObNext /\ UNCHANGED <<fsVars, mrVars, cnVars, part>>

Spec == Init /\ [][Next]_<<fsVars, mrVars, cnVars, obVars, part>>
=============================================================================
