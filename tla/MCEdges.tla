------------------------------- MODULE MCEdges -------------------------------
(***************************************************************************)
(* Small instances of the system's edges: the wake-ups of a queued job,    *)
(* the notification sinks, the health rules of a rollout, the start of a   *)
(* process, its heartbeats, the request middleware, the intake of drift    *)
(* events, and the metrics a model is judged by.  They share no state: a   *)
(* behaviour is about one of them and the others stay where they start.    *)
(***************************************************************************)
EXTENDS WakeUps, Sinks, Health, Startup, Heartbeats, Requests, Intake, Evaluation

VARIABLE part

HeV == {-2, 0, 1, 3}
EvV == {-1, 0, 1}
EvTr == <<0, 1, 1>>

\* A job that has ended: nothing of the wake-ups is under way.
JobEnded ==
    /\ wkBackend = "database" /\ wkCut = FALSE /\ wkJob = [status |-> "ended", attempt |-> 1]
    /\ wkReady = TRUE /\ wkPublished = "never"
    /\ wkPublisher = [p \in WkPublishers |-> [at |-> "idle", attempt |-> 0]]
    /\ wkMessages = 0 /\ wkObjects = {} /\ wkRan = 1 /\ wkFaults = 0
OneSink == skSink = "log"
OneRule ==
    /\ heRule = [direction |-> "lower", limit |-> FALSE, degradation |-> FALSE,
                 ratio |-> FALSE, required |-> FALSE]
    /\ heSource = "api"
OneFile == cfFile = << >>
OneTiming == hbSettings = [heartbeat |-> 1, poll |-> 1, lease |-> 2 * HbMaxUnits + 1,
                           maxAge |-> 2 * HbMaxUnits + 1]
OnePayload == inPayload = << >>
OneModel == evDeclared = EvNone /\ evEstimator = "other"

Init ==
    /\ \/ part = "wakeups" /\ WkInit
       \/ part \in {"sinks", "health", "startup", "heartbeats", "requests", "intake",
                   "evaluation"} /\ JobEnded
    /\ part # "sinks" => OneSink
    /\ part # "health" => OneRule
    /\ part # "startup" => OneFile
    /\ part # "heartbeats" => OneTiming
    /\ part # "intake" => OnePayload
    /\ part # "evaluation" => OneModel
    /\ SkInit /\ HeInit /\ CfInit /\ HbInit /\ RqInit /\ InInit /\ EvInit

\* The first two rows are in the same slice: their order tells nothing.
RowsOrdered == evData' # EvNone => evData'[1] <= evData'[2]

\* A process starts from a file that linted clean; the variable set is a
\* secret or names the environment.
CleanStart ==
    /\ cfProcess' # cfProcess => cfLint = "clean"
    /\ DOMAIN cfVault' # {} => cfLint = "clean"
    /\ DOMAIN cfEnv' # {} => cfLint = "clean"
    /\ DOMAIN cfEnv' \subseteq CfSecrets \cup {"environment"}

Next ==
    \/ part = "wakeups" /\ WkNext
       /\ UNCHANGED <<skVars, heVars, cfVars, hbVars, rqVars, inVars, evVars, part>>
    \/ part = "sinks" /\ SkNext
       /\ UNCHANGED <<wkVars, heVars, cfVars, hbVars, rqVars, inVars, evVars, part>>
    \/ part = "health" /\ HeNext
       /\ UNCHANGED <<wkVars, skVars, cfVars, hbVars, rqVars, inVars, evVars, part>>
    \/ part = "startup" /\ CfNext /\ CleanStart
       /\ UNCHANGED <<wkVars, skVars, heVars, hbVars, rqVars, inVars, evVars, part>>
    \/ part = "heartbeats" /\ HbNext
       /\ UNCHANGED <<wkVars, skVars, heVars, cfVars, rqVars, inVars, evVars, part>>
    \/ part = "requests" /\ RqNext
       /\ UNCHANGED <<wkVars, skVars, heVars, cfVars, hbVars, inVars, evVars, part>>
    \/ part = "intake" /\ InNext
       /\ UNCHANGED <<wkVars, skVars, heVars, cfVars, hbVars, rqVars, evVars, part>>
    \/ part = "evaluation" /\ EvNext /\ RowsOrdered
       /\ UNCHANGED <<wkVars, skVars, heVars, cfVars, hbVars, rqVars, inVars, part>>

vars == <<wkVars, skVars, heVars, cfVars, hbVars, rqVars, inVars, evVars, part>>

Spec == Init /\ [][Next]_vars /\ WkFairness
=============================================================================
