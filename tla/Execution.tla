------------------------------ MODULE Execution ------------------------------
(***************************************************************************)
(* One job's attempts on one host: the job executor (job_executors.py), the *)
(* attempt it supervises, and the generated code the attempt runs in the    *)
(* sandbox (llm_adapter.py, sandbox/).  The attempts of a job share its     *)
(* work directory; each try of an attempt has a directory below it.  The    *)
(* host is POSIX.                                                          *)
(***************************************************************************)
EXTENDS Naturals, FiniteSets

CONSTANTS ExAttempts,  \* bound: attempts of the job
          ExTries,     \* ADAPTATION_AGENT_MAX_ATTEMPTS is at most this
          ExMaxRuns,   \* bound: tries of all attempts together
          ExNobody     \* no run

ASSUME ExAssumption == {ExAttempts, ExTries, ExMaxRuns} \subseteq Nat \ {0}

ExRuns == (1..ExAttempts) \X (1..ExTries)
ASSUME ExNobodyAssumption == ExNobody \notin ExRuns

VARIABLES exMode,     \* the job executor: process or thread
          exBackend,  \* the sandbox: subprocess or docker
          exTries,    \* ADAPTATION_AGENT_MAX_ATTEMPTS
          exNow,      \* the attempt the worker is at, 0 before the first
          exSuper,    \* what execute is doing with it
          exEnd,      \* how execute ended, attempt by attempt
          exProc,     \* the attempt's process (or thread)
          exAt,       \* what adapt_via_llm is doing in it, and at which try
          exSnap,     \* the descendants a killer has listed
          exCode,     \* the generated code of each run
          exCli,      \* the docker client of each run
          exFiles,    \* who wrote the artifact and the manifest of each directory
          exLoaded,   \* what each attempt read back
          exStray,    \* an attempt was started while something of an earlier one was alive
          exEarly     \* history: the runs whose code ended with status 0 before it wrote anything

exConfig == <<exMode, exBackend, exTries>>

exVars == <<exMode, exBackend, exTries, exNow, exSuper, exEnd, exProc, exAt, exSnap, exCode, exCli,
            exFiles, exLoaded, exStray, exEarly>>

ExFirst == [pc |-> "ask", try |-> 1]

ExInit ==
    /\ exMode \in {"process", "thread"} /\ exBackend \in {"subprocess", "docker"}
    /\ exTries \in 1..ExTries
    /\ exNow = 0 /\ exSuper = "idle"
    /\ exEnd = [a \in 1..ExAttempts |-> "none"]
    /\ exProc = [a \in 1..ExAttempts |-> "none"]
    /\ exAt = [a \in 1..ExAttempts |-> ExFirst]
    /\ exSnap = [a \in 1..ExAttempts |-> {}]
    /\ exCode = [r \in ExRuns |-> "none"] /\ exCli = [r \in ExRuns |-> "none"]
    /\ exFiles = [t \in 1..ExTries |-> [artifact |-> ExNobody, manifest |-> ExNobody]]
    /\ exLoaded = [a \in 1..ExAttempts |-> ExNobody]
    /\ exStray = FALSE /\ exEarly = {}

ExRunning == {"run", "artifact", "manifest"}   \* code that is still running
ExAliveOf(a) == {r \in ExRuns : r[1] = a /\ exCode[r] \in ExRunning}
ExCliOf(a) == {r \in ExRuns : r[1] = a /\ exCli[r] = "run"}
ExRun(a) == <<a, exAt[a].try>>

\* descendants(): the sandbox process is one, the docker client is one, what
\* runs in the container is not.
ExDescendants(a) == IF exBackend = "docker" THEN ExCliOf(a) ELSE ExAliveOf(a)

\* terminate() each of them.
ExTerminate(runs) ==
    IF exBackend = "docker"
    THEN exCli' = [r \in ExRuns |-> IF r \in runs THEN "dead" ELSE exCli[r]] /\ exCode' = exCode
    ELSE exCode' = [r \in ExRuns |-> IF r \in runs /\ exCode[r] \in ExRunning THEN "failed"
                                     ELSE exCode[r]] /\ exCli' = exCli

-----------------------------------------------------------------------------
(* The generated code in its sandbox                                       *)

\* _SCRIPT_TEMPLATE: adapt(), then the artifact, then the manifest, then exit 0.
ExScript(r) ==
    /\ \/ /\ exCode[r] = "run" /\ exCode' = [exCode EXCEPT ![r] = "artifact"]
          /\ exFiles' = [exFiles EXCEPT ![r[2]].artifact = r]
       \/ /\ exCode[r] = "artifact" /\ exCode' = [exCode EXCEPT ![r] = "manifest"]
          /\ exFiles' = [exFiles EXCEPT ![r[2]].manifest = r]
       \/ /\ exCode[r] = "manifest" /\ exCode' = [exCode EXCEPT ![r] = "ok"]
          /\ exFiles' = exFiles
    /\ UNCHANGED <<exConfig, exNow, exSuper, exEnd, exProc, exAt, exSnap, exCli,
                   exLoaded, exStray, exEarly>>

\* adapt() may end the process itself: SystemExit is not a name the scan refuses,
\* and with status 0 the run counts as one that has written its output.
ExScriptLeaves(r) ==
    /\ exCode[r] = "run" /\ exCode' = [exCode EXCEPT ![r] = "ok"]
    /\ exEarly' = exEarly \cup {r}
    /\ UNCHANGED <<exConfig, exNow, exSuper, exEnd, exProc, exAt, exSnap, exCli,
                   exFiles, exLoaded, exStray>>

\* It raises, or exceeds the container's memory.
ExScriptFails(r) ==
    /\ exCode[r] \in {"run", "artifact"} /\ exCode' = [exCode EXCEPT ![r] = "failed"]
    /\ UNCHANGED <<exConfig, exNow, exSuper, exEnd, exProc, exAt, exSnap, exCli,
                   exFiles, exLoaded, exStray, exEarly>>

-----------------------------------------------------------------------------
(* The attempt                                                             *)

ExWorks(a) == exProc[a] = "run"
ExGone(a) == exProc' = [exProc EXCEPT ![a] = "dead"] /\ exAt' = [exAt EXCEPT ![a] = ExFirst]
ExMove(a, pc) == exAt' = [exAt EXCEPT ![a].pc = pc]

\* A failed try goes back to the LLM; the last one raises.
ExNextTry(a) ==
    exAt' = [exAt EXCEPT ![a] = IF @.try < exTries THEN [pc |-> "ask", try |-> @.try + 1]
                                ELSE [@ EXCEPT !.pc = "raised"]]

\* What generated code can contain, as far as the scan tells it apart.
ExConstructs == {"allowed_import", "other_import", "refused_name", "refused_attribute",
                 "evaluating_call"}

\* check_code_safety: an allow-list of imports, block-lists of the rest.
ExSafe(code) == code.parses /\ code.uses \subseteq {"allowed_import"}

ExAsk(a) ==
    /\ ExWorks(a) /\ exAt[a].pc = "ask"
    /\ \/ ExMove(a, "raised")                                    \* LlmUnavailableError
       \/ \E parses \in BOOLEAN, uses \in {{c} : c \in ExConstructs} :
             IF ExSafe([parses |-> parses, uses |-> uses])
             THEN ExMove(a, "start") ELSE ExNextTry(a)
    /\ UNCHANGED <<exConfig, exNow, exSuper, exEnd, exProc, exSnap, exCode, exCli,
                   exFiles, exLoaded, exStray, exEarly>>

\* run_sandboxed: the script is started in the directory of the try.
ExSpawn(a) ==
    /\ ExWorks(a) /\ exAt[a].pc = "start"
    /\ exCode' = [exCode EXCEPT ![ExRun(a)] = "run"]
    /\ exCli' = [exCli EXCEPT ![ExRun(a)] = IF exBackend = "docker" THEN "run" ELSE "none"]
    /\ ExMove(a, "wait")
    /\ UNCHANGED <<exConfig, exNow, exSuper, exEnd, exProc, exSnap, exFiles, exLoaded,
                   exStray, exEarly>>

ExExitOk(r) == exCode[r] = "ok" /\ exCli[r] # "dead"

\* communicate() returns: the output is read if the exit status is 0.
ExWait(a) ==
    /\ ExWorks(a) /\ exAt[a].pc = "wait"
    /\ exCode[ExRun(a)] \notin ExRunning \/ exCli[ExRun(a)] = "dead"
    /\ exCli' = [exCli EXCEPT ![ExRun(a)] = "none"]
    /\ exCode' = [exCode EXCEPT ![ExRun(a)] = IF @ \in ExRunning THEN @ ELSE "none"]
    /\ IF ExExitOk(ExRun(a)) THEN ExMove(a, "load") ELSE ExNextTry(a)
    /\ UNCHANGED <<exConfig, exNow, exSuper, exEnd, exProc, exSnap, exFiles, exLoaded,
                   exStray, exEarly>>

\* The docker sandbox's timeout: the client is killed and the container
\* removed, unless the removal fails too.
ExDockerTimeout(a, removed) ==
    /\ ExWorks(a) /\ exAt[a].pc = "wait" /\ exBackend = "docker" /\ ExRun(a) \in ExCliOf(a)
    /\ exCli' = [exCli EXCEPT ![ExRun(a)] = "none"]
    /\ exCode' = [exCode EXCEPT ![ExRun(a)] = IF removed \/ @ \notin ExRunning THEN "none" ELSE @]
    /\ IF removed THEN ExNextTry(a) ELSE ExMove(a, "raised")
    /\ UNCHANGED <<exConfig, exNow, exSuper, exEnd, exProc, exSnap, exFiles, exLoaded,
                   exStray, exEarly>>

\* The subprocess sandbox's timeout or memory watchdog: the tree is killed.
ExKillTree(a) ==
    /\ ExWorks(a) /\ exAt[a].pc = "wait" /\ exBackend = "subprocess"
    /\ exCode[ExRun(a)] \in ExRunning
    /\ exCode' = [exCode EXCEPT ![ExRun(a)] = "none"]
    /\ ExNextTry(a)
    /\ UNCHANGED <<exConfig, exNow, exSuper, exEnd, exProc, exSnap, exCli, exFiles,
                   exLoaded, exStray, exEarly>>

\* The manifest names the artifact's format and class.
ExReadable(t) == exFiles[t].manifest # ExNobody /\ exFiles[t].artifact # ExNobody

\* _load_output: the manifest, then the artifact it names; refused when one
\* is missing, cannot be loaded or needs a type that is not trusted.
ExLoad(a, trusted) ==
    LET t == exAt[a].try
    IN  /\ ExWorks(a) /\ exAt[a].pc = "load"
        /\ IF ExReadable(t) /\ trusted
           THEN exLoaded' = [exLoaded EXCEPT ![a] = exFiles[t].artifact] /\ ExMove(a, "done")
           ELSE exLoaded' = exLoaded /\ ExNextTry(a)
        /\ UNCHANGED <<exConfig, exNow, exSuper, exEnd, exProc, exSnap, exCode, exCli,
                       exFiles, exStray, exEarly>>

\* _worker_main sends its one message and exits; a thread's future is done.
ExReport(a) ==
    /\ ExWorks(a) /\ exAt[a].pc \in {"done", "raised"}
    /\ exProc' = [exProc EXCEPT ![a] = "sent"]
    /\ UNCHANGED <<exConfig, exNow, exSuper, exEnd, exAt, exSnap, exCode, exCli,
                   exFiles, exLoaded, exStray, exEarly>>

\* The attempt's process dies by itself; its children run on.
ExDies(a) ==
    /\ exMode = "process" /\ ExWorks(a) /\ ExGone(a)
    /\ UNCHANGED <<exConfig, exNow, exSuper, exEnd, exSnap, exCode, exCli,
                   exFiles, exLoaded, exStray, exEarly>>

-----------------------------------------------------------------------------
(* The executor                                                            *)

\* Something of the attempt still runs.
ExAlive(a) == exProc[a] \in {"run", "leaving"} \/ ExAliveOf(a) # {}

ExExecute ==
    /\ exSuper = "idle" /\ exNow < ExAttempts /\ (exNow + 1) * exTries <= ExMaxRuns
    /\ exNow' = exNow + 1
    /\ exProc' = [exProc EXCEPT ![exNow + 1] = "run"]
    /\ exSuper' = "watch"
    /\ exStray' = (exStray \/ \E a \in 1..exNow : ExAlive(a))
    /\ UNCHANGED <<exConfig, exEnd, exAt, exSnap, exCode, exCli, exFiles, exLoaded, exEarly>>

ExReturn(how) ==
    /\ exEnd' = [exEnd EXCEPT ![exNow] = how]
    /\ exSuper' = "idle"

\* The message is there, or the pipe is closed and there is none; the worker
\* is joined, and stopped if it lingers.
ExCollect ==
    /\ exSuper = "watch" /\ exProc[exNow] \in {"sent", "dead"}
    /\ ExReturn(IF exProc[exNow] = "dead" THEN "lost"
                ELSE IF exAt[exNow].pc = "done" THEN "ok" ELSE "error")
    /\ ExGone(exNow)
    /\ UNCHANGED <<exConfig, exNow, exSnap, exCode, exCli, exFiles, exLoaded, exStray, exEarly>>

\* The timeout has passed, or on_tick says to stop.  A thread is left to
\* itself; for a process, its descendants are listed.
ExStop ==
    /\ exSuper = "watch"
    /\ IF exMode = "thread"
       THEN ExReturn("stopped") /\ exSnap' = exSnap
       ELSE /\ exSnap' = [exSnap EXCEPT ![exNow] = ExDescendants(exNow)]
            /\ exSuper' = "kill" /\ exEnd' = exEnd
    /\ UNCHANGED <<exConfig, exNow, exProc, exAt, exCode, exCli, exFiles, exLoaded,
                   exStray, exEarly>>

ExKillListed ==
    /\ exSuper = "kill" /\ ExTerminate(exSnap[exNow]) /\ exSuper' = "group"
    /\ exSnap' = [exSnap EXCEPT ![exNow] = {}]
    /\ UNCHANGED <<exConfig, exNow, exEnd, exProc, exAt, exFiles, exLoaded, exStray, exEarly>>

\* Mutant: only the worker itself is terminated.
ExWorkerOnly(a) == {}

\* killpg: what the worker has started since the list was made is in its group.
ExGroup(a) == ExDescendants(a)

\* The group is signalled, the worker joined, killed after the grace period.
ExKillGroup ==
    /\ exSuper = "group" /\ ExTerminate(ExGroup(exNow))
    /\ ExGone(exNow)
    /\ exEnd' = [exEnd EXCEPT ![exNow] = "stopped"] /\ exSuper' = "idle"
    /\ UNCHANGED <<exConfig, exNow, exSnap, exFiles, exLoaded, exStray, exEarly>>

\* The job worker is killed, and a replacement claims the job later.  A
\* thread dies with it, its sandbox process does not.
ExWorkerKilled ==
    /\ exSuper # "idle"
    /\ exEnd' = [exEnd EXCEPT ![exNow] = "killed"] /\ exSuper' = "idle"
    /\ IF exMode = "thread" \/ exProc[exNow] # "run" THEN ExGone(exNow)
       ELSE UNCHANGED <<exProc, exAt>>
    /\ exSnap' = [exSnap EXCEPT ![exNow] = {}]
    /\ UNCHANGED <<exConfig, exNow, exCode, exCli, exFiles, exLoaded, exStray, exEarly>>

\* _exit_with_parent: the pipe closes; the attempt's descendants are listed,
\* then killed and the attempt exits.
ExParentGone(a) ==
    /\ exMode = "process" /\ exEnd[a] = "killed" /\ exProc[a] = "run"
    /\ exSnap' = [exSnap EXCEPT ![a] = ExDescendants(a)]
    /\ exProc' = [exProc EXCEPT ![a] = "leaving"]
    /\ UNCHANGED <<exConfig, exNow, exSuper, exEnd, exAt, exCode, exCli, exFiles,
                   exLoaded, exStray, exEarly>>

\* The thread that runs the attempt goes on until the process exits.
ExLateSpawn(a) ==
    /\ exProc[a] = "leaving" /\ exAt[a].pc = "start"
    /\ exCode' = [exCode EXCEPT ![ExRun(a)] = "run"]
    /\ exCli' = [exCli EXCEPT ![ExRun(a)] = IF exBackend = "docker" THEN "run" ELSE "none"]
    /\ ExMove(a, "wait")
    /\ UNCHANGED <<exConfig, exNow, exSuper, exEnd, exProc, exSnap, exFiles, exLoaded,
                   exStray, exEarly>>

ExLeave(a) ==
    /\ exProc[a] = "leaving" /\ ExTerminate(exSnap[a])
    /\ ExGone(a) /\ exSnap' = [exSnap EXCEPT ![a] = {}]
    /\ UNCHANGED <<exConfig, exNow, exSuper, exEnd, exFiles, exLoaded, exStray, exEarly>>

ExNext ==
    \/ ExExecute \/ ExCollect \/ ExStop \/ ExKillListed \/ ExKillGroup \/ ExWorkerKilled
    \/ \E r \in ExRuns : ExScript(r) \/ ExScriptLeaves(r) \/ ExScriptFails(r)
    \/ \E a \in 1..ExAttempts :
          \/ ExAsk(a) \/ ExSpawn(a) \/ ExWait(a) \/ ExKillTree(a) \/ ExReport(a) \/ ExDies(a)
          \/ ExParentGone(a) \/ ExLateSpawn(a) \/ ExLeave(a)
          \/ \E b \in BOOLEAN : ExDockerTimeout(a, b) \/ ExLoad(a, b)

ExSpec == ExInit /\ [][ExNext]_exVars

-----------------------------------------------------------------------------
(* Properties                                                              *)

\* An attempt that was stopped, however its steps and the killing interleave,
\* leaves none of its processes behind: neither the worker, nor a sandbox
\* process or docker client, one started after the descendants were listed
\* included (ProcessJobExecutor._stop, "the worker's whole process tree is
\* terminated").
ExNothingRunsOn ==
    \A a \in 1..ExAttempts :
        exMode = "process" /\ exEnd[a] = "stopped" =>
            exProc[a] = "dead" /\ ExDescendants(a) = {}

\* The model an attempt reads back was written by code it ran itself, not by an
\* earlier attempt that failed, was killed or timed out in the same directory;
\* unless something of an earlier attempt was still running when it started, or
\* the code of that try ended with status 0 before it wrote its own
\* (_load_output, run_in_sandbox, run_in_docker).
ExOwnOutput ==
    \A a \in 1..ExAttempts :
        exLoaded[a] # ExNobody /\ ~exStray /\ <<a, exLoaded[a][2]>> \notin exEarly =>
            exLoaded[a][1] = a

\* Stopping an attempt ends all of it, and nothing of another is taken for its
\* result (job_executors.py, sandbox/runner.py).
ExAttemptsApart == ExNothingRunsOn /\ ExOwnOutput

\* llm_adapter.py:130: "Each retry gets a fresh sandbox directory, so no
\* output of a failed attempt is read."  A retry of the job does not: its first
\* try works where the first try of the attempt before it did, and when its code
\* ends with status 0 without an output of its own, that one's is read; here
\* with nothing of the earlier attempt left running.
ExFreshOutput ==
    \A a \in 1..ExAttempts : exLoaded[a] # ExNobody /\ ~exStray => exLoaded[a][1] = a
=============================================================================
