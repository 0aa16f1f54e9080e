---------------------------- MODULE MCAdaptation ----------------------------
(***************************************************************************)
(* Small instances of the pipeline and of two parts of it that share no    *)
(* state with it: the rows of one job, and the guard of the LLM calls.  A  *)
(* behaviour is about one of the three; the others stay where they start.  *)
(***************************************************************************)
EXTENDS Adaptation, TrainingData, LlmGuard, TLC

VARIABLE part

Engines == {"FINE_TUNING", "FULL_RETRAINING"}

\* A model every engine can adapt, under each metric, gate and delivery setting.
PlainWorlds ==
    {[higher |-> h, reuse |-> TRUE, superiority |-> s, llm |-> FALSE, blueGreen |-> s,
      partialFit |-> TRUE, schema |-> TRUE, psiHigh |-> FALSE, performance |-> FALSE, strict |-> TRUE,
      engines |-> Engines, capable |-> Engines] : h \in BOOLEAN, s \in BOOLEAN}

EngineWorlds ==
    {[higher |-> TRUE, reuse |-> r, superiority |-> TRUE, llm |-> l, blueGreen |-> TRUE,
      partialFit |-> p, schema |-> s, psiHigh |-> h, performance |-> q, strict |-> h,
      engines |-> e, capable |-> c] :
        r \in BOOLEAN, l \in BOOLEAN, p \in BOOLEAN, s \in BOOLEAN, h \in BOOLEAN, q \in BOOLEAN,
        e \in SUBSET Engines, c \in SUBSET Engines}

AllWorlds == PlainWorlds \union {w \in EngineWorlds : w.capable \subseteq w.engines}

\* One initial state of a part that is not looked at.
OneOfJobs ==
    /\ world = CHOOSE w \in PlainWorlds : TRUE
    /\ versions = <<[value |-> 1, fits |-> TRUE, by |-> None]>>
    /\ live = 1 /\ links = <<1>> /\ event = [j \in Jobs |-> None]
OneOfRows ==
    /\ rows = [i \in Positions |-> [ver |-> 1, at |-> 1, key |-> NoValue, val |-> NoValue]]
    /\ erased = {} /\ checks = TRUE /\ future = TRUE

\* Two onboarded versions, the newer of which may not load; or one version, for a model that
\* only some engines can adapt.
JobsInit ==
    \/ /\ world \in PlainWorlds /\ Len(versions) = 2 /\ versions[1].fits
       /\ versions[1].value = 1 /\ (live = None => links = <<>>)
    \/ /\ world \notin PlainWorlds /\ versions = <<[value |-> 1, fits |-> TRUE, by |-> None]>>
       /\ live = 1 /\ links = <<1>>

Init ==
    /\ \/ part = "jobs" /\ OneOfRows
       \/ part = "rows" /\ OneOfJobs
       \/ part = "guard" /\ OneOfJobs /\ OneOfRows
    /\ AdaptationInit /\ RowsInit /\ GuardInit
    /\ part = "jobs" => JobsInit

\* Faults and moves matter to the plain worlds only.
JobsNext == AdaptationNext /\ (world \in PlainWorlds \/ (faults' = faults /\ moves' = moves))

Next ==
    \/ part = "jobs" /\ JobsNext /\ UNCHANGED <<rowVars, guardVars, part>>
    \/ part = "rows" /\ RowsNext /\ UNCHANGED <<adaptationVars, guardVars, part>>
    \/ part = "guard" /\ GuardNext /\ UNCHANGED <<adaptationVars, rowVars, part>>

Symmetry == Permutations(Jobs) \union Permutations(Callers)

Spec == Init /\ [][Next]_<<adaptationVars, rowVars, guardVars, part>>
=============================================================================
