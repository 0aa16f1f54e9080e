---------------------------- MODULE Measurements ----------------------------
(***************************************************************************)
(* The metrics of adapter calls (core/observed.py) and how those of a      *)
(* job's attempt, a process with a registry of its own, reach the process  *)
(* that serves /metrics (core/metrics.py, adapters/job_executors.py).  One *)
(* histogram and one error counter per port; a duration is the bucket it   *)
(* falls in, and adds its number less one to the sum.                      *)
(***************************************************************************)
EXTENDS Integers, Sequences, FiniteSetsExt

CONSTANTS MsPorts,     \* ports whose adapters are observed
          MsAttempts,  \* attempt processes
          MsWorker,    \* the process that runs them
          MsBuckets,   \* buckets of the histogram, the last one unbounded
          MsMaxCalls,  \* bound: calls
          MsMaxDepth   \* bound: calls inside each other

ASSUME MsAssumption ==
    MsWorker \notin MsAttempts /\ {MsBuckets, MsMaxCalls, MsMaxDepth} \subseteq Nat \ {0}

VARIABLES msRegistry,  \* process -> port -> what the client library holds
          msStack,     \* process -> calls under way, the innermost first
          msAttempt,   \* attempt -> new, running, sent, applied or lost
          msReport,    \* attempt -> the delta it sent
          msDone,      \* history: process -> port -> durations of the calls that
                       \* count, with those of the attempts it has applied
          msCalls

msVars == <<msRegistry, msStack, msAttempt, msReport, msDone, msCalls>>

MsProcesses == MsAttempts \cup {MsWorker}
MsZero == [count |-> [i \in 1..MsBuckets |-> 0], sum |-> 0, errors |-> 0]

MsInit ==
    /\ msRegistry = [p \in MsProcesses |-> [o \in MsPorts |-> MsZero]]
    /\ msStack = [p \in MsProcesses |-> <<>>]
    /\ msAttempt = [a \in MsAttempts |-> "new"]
    /\ msReport = [a \in MsAttempts |-> [o \in MsPorts |-> <<>>]]
    /\ msDone = [p \in MsProcesses |-> [o \in MsPorts |-> MsZero]]
    /\ msCalls = 0

MsLives(p) == p \in MsAttempts => msAttempt[p] = "running"

-----------------------------------------------------------------------------
(* _Timed                                                                  *)

\* _inside, while the call at this place of the stack runs.
MsInside(stack) == IF stack = <<>> THEN {} ELSE stack[1].inside

\* A call on a port whose adapter is already being called is passed through.
MsCall(p, port) ==
    LET active == MsInside(msStack[p]) IN
    /\ MsLives(p) /\ msCalls < MsMaxCalls /\ Len(msStack[p]) < MsMaxDepth
    /\ msCalls' = msCalls + 1
    /\ msStack' = [msStack EXCEPT ![p] =
           <<[port |-> port, timed |-> port \notin active, inside |-> active \cup {port}]>> \o @]
    /\ UNCHANGED <<msRegistry, msAttempt, msReport, msDone>>

MsObserved(r, bucket, raises) ==
    [count |-> [r.count EXCEPT ![bucket] = @ + 1], sum |-> r.sum + bucket - 1,
     errors |-> IF raises THEN r.errors + 1 ELSE r.errors]

\* The call returns or raises; the metrics are written either way.
MsReturn(p, bucket, raises) ==
    LET call == Head(msStack[p])
        outer == \A i \in 2..Len(msStack[p]) : msStack[p][i].port # call.port
    IN /\ MsLives(p) /\ msStack[p] # <<>>
       /\ msRegistry' = IF ~call.timed THEN msRegistry
                        ELSE [msRegistry EXCEPT ![p][call.port] = MsObserved(@, bucket, raises)]
       /\ msDone' = IF ~outer THEN msDone
                    ELSE [msDone EXCEPT ![p][call.port] = MsObserved(@, bucket, raises)]
       /\ msStack' = [msStack EXCEPT ![p] = Tail(@)]
       /\ UNCHANGED <<msAttempt, msReport, msCalls>>

-----------------------------------------------------------------------------
(* Forwarding                                                              *)

MsSpawn(a) ==
    /\ msAttempt[a] = "new" /\ msAttempt' = [msAttempt EXCEPT ![a] = "running"]
    /\ UNCHANGED <<msRegistry, msStack, msReport, msDone, msCalls>>

\* _values: a bucket's sample is the count of all up to its bound.
MsSamples(r) ==
    LET upTo[i \in 0..MsBuckets] == IF i = 0 THEN 0 ELSE upTo[i - 1] + r.count[i]
    IN upTo

\* delta_since, of a registry that was empty: the samples that have moved.
MsDelta(r) ==
    LET s == MsSamples(r) IN
    [buckets |-> [i \in {j \in 1..MsBuckets : s[j] # 0} |-> s[i]], sum |-> r.sum,
     errors |-> r.errors]

\* _worker_main sends its one message when the attempt has returned or raised.
MsSend(a) ==
    /\ msAttempt[a] = "running" /\ msStack[a] = <<>>
    /\ msReport' = [msReport EXCEPT ![a] = [o \in MsPorts |-> MsDelta(msRegistry[a][o])]]
    /\ msAttempt' = [msAttempt EXCEPT ![a] = "sent"]
    /\ UNCHANGED <<msRegistry, msStack, msDone, msCalls>>

\* A killed worker reports nothing, and what it has sent is not read.
MsKill(a) ==
    /\ msAttempt[a] \in {"running", "sent"}
    /\ msAttempt' = [msAttempt EXCEPT ![a] = "lost"]
    /\ msStack' = [msStack EXCEPT ![a] = <<>>]
    /\ UNCHANGED <<msRegistry, msReport, msDone, msCalls>>

\* The count up to each bound; a bound without a sample has moved as little as
\* the one before it.
MsCumulative(delta) ==
    LET upTo[i \in 0..MsBuckets] ==
            IF i = 0 THEN 0
            ELSE Max({upTo[i - 1], IF i \in DOMAIN delta THEN delta[i] ELSE upTo[i - 1]})
    IN upTo

\* A mutant: the sample is added as it is.
MsIncrementWhole(upTo, i) == upTo[i]

\* What goes into the bucket itself.
MsIncrement(upTo, i) == upTo[i] - upTo[i - 1]

\* apply_delta
MsApplied(r, delta) ==
    [count |-> [i \in 1..MsBuckets |->
                  r.count[i] + MsIncrement(MsCumulative(delta.buckets), i)],
     sum |-> r.sum + delta.sum, errors |-> r.errors + delta.errors]

\* The calls of two processes.
MsTogether(r, s) ==
    [count |-> [i \in 1..MsBuckets |-> r.count[i] + s.count[i]], sum |-> r.sum + s.sum,
     errors |-> r.errors + s.errors]

\* ProcessJobExecutor.execute, when the message has come.
MsApply(a) ==
    /\ msAttempt[a] = "sent" /\ msAttempt' = [msAttempt EXCEPT ![a] = "applied"]
    /\ msRegistry' = [msRegistry EXCEPT ![MsWorker] =
           [o \in MsPorts |-> MsApplied(@[o], msReport[a][o])]]
    /\ msDone' = [msDone EXCEPT ![MsWorker] =
           [o \in MsPorts |-> MsTogether(@[o], msDone[a][o])]]
    /\ UNCHANGED <<msStack, msReport, msCalls>>

MsNext ==
    \/ \E p \in MsProcesses :
          \/ \E port \in MsPorts : MsCall(p, port)
          \/ \E bucket \in 1..MsBuckets, raises \in BOOLEAN : MsReturn(p, bucket, raises)
    \/ \E a \in MsAttempts : MsSpawn(a) \/ MsSend(a) \/ MsKill(a) \/ MsApply(a)

MsSpec == MsInit /\ [][MsNext]_msVars

-----------------------------------------------------------------------------
(* Properties                                                              *)

\* The served metrics hold every outermost adapter call of the worker and of
\* the attempts that reported, once, in its bucket, and no call an adapter
\* makes to itself (metrics.py apply_delta: "so nothing is estimated";
\* observed.py: "only the outermost call on a port is measured").
MsNothingEstimated == msRegistry[MsWorker] = msDone[MsWorker]
=============================================================================
