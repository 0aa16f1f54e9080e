--------------------------- MODULE JobQueueProofs ---------------------------
(***************************************************************************)
(* Proofs about JobQueue, for any number of jobs, models, workers and      *)
(* tenants and any limits.  IInv is inductive: one lemma per conjunct      *)
(* shows that a step preserves it.  JobSteps sums up what a step can do to *)
(* the job, lock and slot rows, so that most of those lemmas look at ten   *)
(* kinds of step instead of at every action.                               *)
(***************************************************************************)
EXTENDS JobQueue, TLAPS

\* Facts about the status sets, used without expanding them.
LEMMA StatusSets ==
  /\ "NEW" \notin Stages \union Terminal
  /\ "QUEUED" \notin Stages \union Terminal
  /\ Stages \intersect Terminal = {}
  /\ RegistryStages \subseteq Stages
  /\ "DATA_PREPARING" \in Stages \ RegistryStages
  /\ {"FAILED", "CANCELLED", "TIMED_OUT"} \subseteq Terminal
  /\ {"DRAINED", "LEASE_LOST", "WORKER_LOST", "RETRYABLE"} \subseteq EndKinds \ Terminal
  /\ Terminal \subseteq EndKinds
  /\ "none" \notin Stages \union EndKinds
BY DEF Stages, Terminal, RegistryStages, EndKinds

-----------------------------------------------------------------------------
(* Types.                                                                  *)

\* The lock rows keep their type however they are written.
LEMMA LockTypes ==
  ASSUME TypeOK, NEW m \in Models, NEW h \in Holders,
         SetLock(m, h) \/ ReleaseLock(m, h) \/ RenewLock(m, h)
  PROVE  lock' \in [Models -> Holders] /\ lockLapsed' \in [Models -> BOOLEAN]
<1> USE DEF TypeOK, Holders, SetLock, lockVars
<1>1. CASE SetLock(m, h)
  BY <1>1
<1>2. CASE ReleaseLock(m, h)
  BY <1>2 DEF ReleaseLock
<1>3. CASE RenewLock(m, h)
  BY <1>3 DEF RenewLock
<1> QED
  BY <1>1, <1>2, <1>3

\* So do the rows that the end of an attempt writes.
LEMMA EndAttemptTypes ==
  ASSUME TypeOK, NEW j \in Jobs, NEW s \in {"QUEUED"} \union Terminal, EndAttempt(j, s)
  PROVE  /\ status' \in [Jobs -> {"NEW", "QUEUED"} \union Stages \union Terminal]
         /\ lease' \in [Jobs -> Nat] /\ lapsed' \in [Jobs -> BOOLEAN]
         /\ slot' \in [Jobs -> Nat]
         /\ lock' \in [Models -> Holders] /\ lockLapsed' \in [Models -> BOOLEAN]
<1> USE ConstantTypes DEF EndAttempt
<1>1. lock' \in [Models -> Holders] /\ lockLapsed' \in [Models -> BOOLEAN]
  BY LockTypes DEF Holders, lockVars, TypeOK
<1> QED
  BY <1>1 DEF TypeOK

\* Losing an attempt is one way for it to end.
LEMMA LoseEnds ==
  ASSUME NEW j \in Jobs, Lose(j)
  PROVE  \E s \in {"QUEUED"} \union Terminal : EndAttempt(j, s)
BY StatusSets DEF Lose

\* So a lost attempt keeps the types as well.
LEMMA LoseTypes ==
  ASSUME TypeOK, NEW j \in Jobs, Lose(j)
  PROVE  /\ status' \in [Jobs -> {"NEW", "QUEUED"} \union Stages \union Terminal]
         /\ lease' \in [Jobs -> Nat] /\ lapsed' \in [Jobs -> BOOLEAN]
         /\ slot' \in [Jobs -> Nat]
         /\ lock' \in [Models -> Holders] /\ lockLapsed' \in [Models -> BOOLEAN]
         /\ lost' \in [Jobs -> Nat] /\ quarantined' \in [Jobs -> BOOLEAN]
         /\ UNCHANGED <<attempt, cancel, claims>>
<1>1. PICK s \in {"QUEUED"} \union Terminal : EndAttempt(j, s)
  BY LoseEnds
<1>2. lost' \in [Jobs -> Nat] /\ UNCHANGED <<attempt, cancel, claims>>
  BY DEF Lose, TypeOK
<1>3. quarantined' \in [Jobs -> BOOLEAN]
  BY Zenon DEF Lose, TypeOK
<1> QED
  BY <1>1, <1>2, <1>3, EndAttemptTypes

\* A slot taken is a natural number.
LEMMA SlotTypes ==
  ASSUME TypeOK, NEW j \in Jobs, TakeSlot(j)
  PROVE  slot' \in [Jobs -> Nat]
<1>1. LiveSlots(j) \in [Jobs -> Nat]
  BY DEF LiveSlots, TypeOK
<1>2. FreeSlots(j) \subseteq Nat
  BY ConstantTypes DEF FreeSlots
<1> QED
  BY <1>1, <1>2 DEF TakeSlot, TypeOK

\* What the commit of a submission does when it succeeds: the job is stored
\* with its lock, without or with failing the job whose lock it took over.
StoresJob(j) ==
  /\ status[j] = "NEW"
  /\ lock[ModelOf[j]] = NoOne \/ lockLapsed[ModelOf[j]]
  /\ SetLock(ModelOf[j], j)
  /\ status' = [status EXCEPT ![j] = "QUEUED"]
  /\ UNCHANGED <<lease, lapsed, slot>>

TakesOver(j, h) ==
  /\ status[j] = "NEW" /\ h # j /\ status[h] \notin Terminal
  /\ lock[ModelOf[j]] # NoOne /\ lockLapsed[ModelOf[j]]
  /\ SetLock(ModelOf[j], j)
  /\ status' = [[status EXCEPT ![h] = "FAILED"] EXCEPT ![j] = "QUEUED"]
  /\ lease' = [lease EXCEPT ![h] = 0]
  /\ lapsed' = [lapsed EXCEPT ![h] = FALSE]
  /\ slot' = [slot EXCEPT ![h] = 0]

\* The commit of a submission does one of these or nothing.
LEMMA SubmitCases ==
  ASSUME NEW j, NEW h, SubmitCommits(j, h)
  PROVE  \/ UNCHANGED <<lockVars, status, lease, lapsed, slot>>
         \/ /\ StoresJob(j)
            /\ lockLapsed[ModelOf[j]] => h \notin Jobs \/ h = j \/ status[h] \in Terminal
                                         \/ lock[ModelOf[j]] = NoOne
         \/ h \in Jobs /\ TakesOver(j, h)
BY ZenonT(60) DEF SubmitCommits, StoresJob, TakesOver, Abandons, TakeOverDue, KeyFree

\* Every step keeps the types.
LEMMA TypeStep == TypeOK /\ [Next]_vars => TypeOK'
<1> SUFFICES ASSUME TypeOK, [Next]_vars PROVE TypeOK'
  OBVIOUS
<1> USE ConstantTypes, DistinctHolders, StatusSets DEF jobVars, lockVars, workerVars, drainVars, TypeOK
<1>1. ASSUME NEW j \in Jobs, SubmitChecks(j) PROVE TypeOK'
  BY <1>1 DEF SubmitChecks
<1>2. ASSUME NEW j \in Jobs, NEW h \in Holders, SubmitCommits(j, h) PROVE TypeOK'
  <2>1. /\ checked' \subseteq checked
        /\ UNCHANGED <<attempt, lost, quarantined, cancel, claims, running, token, stage,
                       ending, draining, drains, seen, acting>>
    BY <1>2 DEF SubmitCommits
  <2>2. CASE UNCHANGED <<lockVars, status, lease, lapsed, slot>>
    BY <2>1, <2>2
  <2>3. CASE StoresJob(j)
    <3>1. lock' \in [Models -> Holders] /\ lockLapsed' \in [Models -> BOOLEAN]
      BY <2>3, LockTypes DEF StoresJob, Holders
    <3> QED
      BY <2>1, <2>3, <3>1 DEF StoresJob
  <2>4. CASE h \in Jobs /\ TakesOver(j, h)
    <3>1. lock' \in [Models -> Holders] /\ lockLapsed' \in [Models -> BOOLEAN]
      BY <2>4, LockTypes DEF TakesOver, Holders
    <3> QED
      BY <2>1, <2>4, <3>1 DEF TakesOver
  <2> QED
    BY <1>2, <2>2, <2>3, <2>4, SubmitCases
<1>3. ASSUME NEW j \in Jobs, RequestCancel(j) PROVE TypeOK'
  BY <1>3, LockTypes DEF RequestCancel, Holders
<1>4. ASSUME NEW j \in Jobs, ReapScans(j) PROVE TypeOK'
  BY <1>4 DEF ReapScans
<1>5. ASSUME NEW j \in Jobs, ReapTakes(j) PROVE TypeOK'
  BY <1>5, LoseTypes DEF ReapTakes
<1>6. ASSUME NEW j \in Jobs, ReapOverdue(j) PROVE TypeOK'
  BY <1>6, LockTypes DEF ReapOverdue, Holders
<1>7. ASSUME NEW j \in Jobs, LeaseLapses(j) PROVE TypeOK'
  BY <1>7 DEF LeaseLapses
<1>8. ASSUME NEW m \in Models, LockLapses(m) PROVE TypeOK'
  BY <1>8 DEF LockLapses
<1>9. ASSUME NEW x \in External, NEW m \in Models, ExternalLocks(x, m) PROVE TypeOK'
  BY <1>9, LockTypes DEF ExternalLocks, Holders
<1>10. ASSUME NEW x \in External, ExternalUnlocks(x) PROVE TypeOK'
  BY <1>10, LockTypes DEF ExternalUnlocks, Holders
<1>11. ASSUME NEW w \in Workers, NEW j \in Jobs, Claim(w, j) PROVE TypeOK'
  BY <1>11, LockTypes, SlotTypes DEF Claim, Holders
<1>12. ASSUME NEW w \in Workers, NEW s \in Stages, ReportStage(w, s) PROVE TypeOK'
  BY <1>12 DEF ReportStage, Fence
<1>13. ASSUME NEW w \in Workers, NEW s \in Stages, ReportRefused(w, s) PROVE TypeOK'
  BY <1>13 DEF ReportRefused, EndsWith, Fence
<1>14. ASSUME NEW w \in Workers, NEW r \in EndKinds, AttemptReturns(w, r) PROVE TypeOK'
  BY <1>14 DEF AttemptReturns, EndsWith
<1>15. ASSUME NEW w \in Workers, ProcessDies(w) PROVE TypeOK'
  BY <1>15 DEF ProcessDies, EndsWith
<1>16. ASSUME NEW w \in Workers, TimesOut(w) PROVE TypeOK'
  BY <1>16 DEF TimesOut, EndsWith
<1>17. ASSUME NEW w \in Workers, TickRenews(w) PROVE TypeOK'
  BY <1>17, LockTypes DEF TickRenews, Holders, Holds
<1>18. ASSUME NEW w \in Workers, TickDrains(w) PROVE TypeOK'
  BY <1>18, LockTypes DEF TickDrains, Holders, Holds
<1>19. ASSUME NEW w \in Workers, TickLoses(w) PROVE TypeOK'
  BY <1>19 DEF TickLoses, EndsWith
<1>20. ASSUME NEW w \in Workers, RecordOutcome(w) PROVE TypeOK'
  BY <1>20, EndAttemptTypes DEF RecordOutcome, Freed, Holders, Holds
<1>21. ASSUME NEW w \in Workers, RequeueDrained(w) PROVE TypeOK'
  BY <1>21, EndAttemptTypes DEF RequeueDrained, Freed, Holders, Holds
<1>22. ASSUME NEW w \in Workers, RetryOrFail(w) PROVE TypeOK'
  BY <1>22, EndAttemptTypes DEF RetryOrFail, Freed, Holders, Holds
<1>23. ASSUME NEW w \in Workers, RecordLost(w) PROVE TypeOK'
  BY <1>23, LoseTypes DEF RecordLost, Freed, Holds
<1>24. ASSUME NEW w \in Workers, DropAttempt(w) PROVE TypeOK'
  BY <1>24 DEF DropAttempt, Freed
<1>25. ASSUME NEW w \in Workers, Crash(w) PROVE TypeOK'
  BY <1>25 DEF Crash, Freed
<1>26. ASSUME NEW w \in Workers, Drain(w) PROVE TypeOK'
  BY <1>26 DEF Drain
<1>27. ASSUME NEW w \in Workers, Replace(w) PROVE TypeOK'
  BY <1>27 DEF Replace
<1>28. ASSUME ReapSlots PROVE TypeOK'
  BY <1>28 DEF ReapSlots
<1>29. CASE UNCHANGED vars
  BY <1>29 DEF vars
<1> QED
  BY <1>1, <1>2, <1>3, <1>4, <1>5, <1>6, <1>7, <1>8, <1>9, <1>10, <1>11, <1>12, <1>13, <1>14, <1>15, <1>16, <1>17, <1>18, <1>19, <1>20, <1>21, <1>22, <1>23, <1>24, <1>25, <1>26, <1>27, <1>28, <1>29 DEF Next, Submission, Reaper, Attempt, Tick, Record

-----------------------------------------------------------------------------
(* The kinds of step, as the rows of the database see them.                *)

\* The attempt of a running job ends, and its lease and slot go with it.
EndsAttempt(j) ==
  /\ status[j] \in Stages
  /\ \E s \in {"QUEUED"} \union Terminal :
       /\ EndAttempt(j, s)
       /\ s = "CANCELLED" => status[j] \notin RegistryStages
  /\ UNCHANGED <<checked, acting>>

\* Nothing but renewed expiries.
QuietStep ==
  /\ UNCHANGED <<status, lease, slot, lock, checked>>
  /\ \A m \in Models : lockLapsed'[m] => lockLapsed[m]

\* A worker that holds a lease holds it for a running job.
LEMMA HoldsRunning ==
  ASSUME IInv, NEW w \in Workers, Holds(w)
  PROVE  /\ running[w] \in Jobs
         /\ status[running[w]] \in Stages
         /\ lease[running[w]] # 0
BY DEF IInv, TypeOK, TokensFresh, LeaseMatchesStage, Holds

\* Renewing a lock only renews it.
LEMMA RenewIsQuiet ==
  ASSUME TypeOK, NEW m \in Models, NEW h, RenewLock(m, h)
  PROVE  UNCHANGED lock /\ \A n \in Models : lockLapsed'[n] => lockLapsed[n]
BY DEF RenewLock, TypeOK

\* Every step is of one of these kinds.
LEMMA JobSteps ==
  ASSUME IInv, [Next]_vars
  PROVE  \/ \E j \in Jobs, h \in Holders : SubmitCommits(j, h)
         \/ \E j \in Jobs : SubmitChecks(j) \/ RequestCancel(j) \/ ReapOverdue(j)
         \/ \E w \in Workers, j \in Jobs : Claim(w, j)
         \/ \E w \in Workers, s \in Stages : ReportStage(w, s)
         \/ \E j \in Jobs : EndsAttempt(j)
         \/ ReapSlots
         \/ \E m \in Models : LockLapses(m)
         \/ \E x \in External : ExternalUnlocks(x) \/ \E m \in Models : ExternalLocks(x, m)
         \/ QuietStep
<1> DEFINE Goal == \/ \E j \in Jobs : EndsAttempt(j)
                   \/ QuietStep
<1> USE ConstantTypes, StatusSets DEF jobVars, lockVars, workerVars, drainVars
<1>1. ASSUME NEW j \in Jobs, ReapScans(j) \/ LeaseLapses(j) PROVE QuietStep
  BY <1>1 DEF ReapScans, LeaseLapses, QuietStep
<1>2. ASSUME NEW j \in Jobs, ReapTakes(j) PROVE EndsAttempt(j)
  <2>1. status[j] \in Stages
    BY <1>2 DEF ReapTakes, IInv, LeaseMatchesStage
  <2> QED
    BY <1>2, <2>1 DEF ReapTakes, Lose, EndsAttempt
<1>3. ASSUME NEW w \in Workers, NEW s \in Stages, ReportRefused(w, s) PROVE QuietStep
  BY <1>3 DEF ReportRefused, EndsWith, QuietStep
<1>4. ASSUME NEW w \in Workers, NEW r \in EndKinds, AttemptReturns(w, r) PROVE QuietStep
  BY <1>4 DEF AttemptReturns, EndsWith, QuietStep
<1>5. ASSUME NEW w \in Workers, ProcessDies(w) \/ TimesOut(w) \/ TickLoses(w) PROVE QuietStep
  BY <1>5 DEF ProcessDies, TimesOut, TickLoses, EndsWith, QuietStep
<1>6. ASSUME NEW w \in Workers, TickRenews(w) PROVE QuietStep
  BY <1>6, HoldsRunning, RenewIsQuiet DEF TickRenews, QuietStep, IInv
<1>7. ASSUME NEW w \in Workers, TickDrains(w) PROVE QuietStep
  BY <1>7, HoldsRunning, RenewIsQuiet DEF TickDrains, QuietStep, IInv
<1>8. ASSUME NEW w \in Workers, RecordOutcome(w) PROVE EndsAttempt(running[w])
  <2>1. ending[w] = "CANCELLED" => status[running[w]] \notin RegistryStages
    BY <1>8 DEF RecordOutcome, IInv, AttemptInStep
  <2> QED
    BY <1>8, <2>1, HoldsRunning DEF RecordOutcome, EndsAttempt
<1>9. ASSUME NEW w \in Workers, RequeueDrained(w) PROVE EndsAttempt(running[w])
  BY <1>9, HoldsRunning DEF RequeueDrained, EndsAttempt
<1>10. ASSUME NEW w \in Workers, RetryOrFail(w) PROVE EndsAttempt(running[w])
  BY <1>10, HoldsRunning DEF RetryOrFail, EndsAttempt
<1>11. ASSUME NEW w \in Workers, RecordLost(w) PROVE EndsAttempt(running[w])
  BY <1>11, HoldsRunning DEF RecordLost, Lose, EndsAttempt
<1>12. ASSUME NEW w \in Workers, DropAttempt(w) \/ Crash(w) \/ Drain(w) \/ Replace(w)
       PROVE QuietStep
  BY <1>12 DEF DropAttempt, Crash, Drain, Replace, QuietStep
<1>13. CASE UNCHANGED vars
  BY <1>13 DEF vars, QuietStep
<1>14. ASSUME NEW w \in Workers, Record(w) PROVE Goal
  BY <1>14, <1>8, <1>9, <1>10, <1>11, <1>12, HoldsRunning
     DEF Record, RecordOutcome, RequeueDrained, RetryOrFail, RecordLost
<1>15. ASSUME NEW w \in Workers, Tick(w) PROVE QuietStep
  BY <1>15, <1>5, <1>6, <1>7 DEF Tick
<1>16. ASSUME NEW w \in Workers, Attempt(w)
       PROVE  QuietStep \/ \E s \in Stages : ReportStage(w, s)
  BY <1>16, <1>3, <1>4, <1>5 DEF Attempt
<1> QED
  BY <1>1, <1>2, <1>12, <1>13, <1>14, <1>15, <1>16 DEF Next, Submission, Reaper

-----------------------------------------------------------------------------
(* Each conjunct of the inductive invariant is preserved.                  *)

\* A stage report is made under the lease, so the job was running before it.
LEMMA ReportsRunning ==
  ASSUME IInv, NEW w \in Workers, NEW s \in Stages, ReportStage(w, s)
  PROVE  /\ running[w] \in Jobs /\ Holds(w)
         /\ status[running[w]] \in Stages
         /\ status' = [status EXCEPT ![running[w]] = s]
         /\ UNCHANGED <<lease, slot, lock, lockLapsed, checked>>
<1>1. Holds(w)
  BY DEF ReportStage, Fence, Holds
<1> QED
  BY <1>1, HoldsRunning DEF ReportStage, lockVars

\* A job has a lease exactly while an attempt of it is under way.
LEMMA LeaseStep ==
  ASSUME IInv, [Next]_vars
  PROVE  LeaseMatchesStage'
<1> USE StatusSets DEF IInv, TypeOK, LeaseMatchesStage, jobVars, lockVars
<1>1. ASSUME NEW j \in Jobs, NEW h \in Holders, SubmitCommits(j, h) PROVE LeaseMatchesStage'
  <2>1. CASE UNCHANGED <<lockVars, status, lease, lapsed, slot>>
    BY <2>1
  <2>2. CASE StoresJob(j)
    BY <2>2 DEF StoresJob
  <2>3. CASE h \in Jobs /\ TakesOver(j, h)
    BY <2>3 DEF TakesOver
  <2> QED
    BY <1>1, <2>1, <2>2, <2>3, SubmitCases
<1>2. ASSUME NEW j \in Jobs, SubmitChecks(j) \/ RequestCancel(j) \/ ReapOverdue(j)
      PROVE  LeaseMatchesStage'
  BY <1>2 DEF SubmitChecks, RequestCancel, ReapOverdue
<1>3. ASSUME NEW w \in Workers, NEW j \in Jobs, Claim(w, j) PROVE LeaseMatchesStage'
  BY <1>3 DEF Claim
<1>4. ASSUME NEW w \in Workers, NEW s \in Stages, ReportStage(w, s) PROVE LeaseMatchesStage'
  BY <1>4, ReportsRunning
<1>5. ASSUME NEW j \in Jobs, EndsAttempt(j) PROVE LeaseMatchesStage'
  BY <1>5 DEF EndsAttempt, EndAttempt
<1>6. CASE ReapSlots \/ QuietStep
  BY <1>6 DEF ReapSlots, QuietStep
<1>7. ASSUME NEW m \in Models, LockLapses(m) PROVE LeaseMatchesStage'
  BY <1>7 DEF LockLapses
<1>8. ASSUME NEW x \in External, ExternalUnlocks(x) \/ \E m \in Models : ExternalLocks(x, m)
      PROVE  LeaseMatchesStage'
  BY <1>8 DEF ExternalUnlocks, ExternalLocks
<1> QED
  BY <1>1, <1>2, <1>3, <1>4, <1>5, <1>6, <1>7, <1>8, JobSteps

\* Slots: one per lease and tenant.
LEMMA SlotStep ==
  ASSUME IInv, [Next]_vars
  PROVE  SlotsAccounted'
<1> USE StatusSets, ConstantTypes DEF IInv, TypeOK, SlotsAccounted, LeaseMatchesStage, jobVars, lockVars
<1>1. ASSUME NEW j \in Jobs, NEW h \in Holders, SubmitCommits(j, h) PROVE SlotsAccounted'
  <2>1. CASE UNCHANGED <<lockVars, status, lease, lapsed, slot>>
    BY <2>1
  <2>2. CASE StoresJob(j)
    BY <2>2 DEF StoresJob
  <2>3. CASE h \in Jobs /\ TakesOver(j, h)
    BY <2>3 DEF TakesOver
  <2> QED
    BY <1>1, <2>1, <2>2, <2>3, SubmitCases
<1>2. ASSUME NEW j \in Jobs, SubmitChecks(j) \/ RequestCancel(j) \/ ReapOverdue(j)
      PROVE  SlotsAccounted'
  BY <1>2 DEF SubmitChecks, RequestCancel, ReapOverdue
<1>3. ASSUME NEW w \in Workers, NEW j \in Jobs, Claim(w, j) PROVE SlotsAccounted'
  <2>1. lease' = [lease EXCEPT ![j] = claims[j] + 1] /\ claims[j] + 1 # 0 /\ slot[j] = 0
    BY <1>3 DEF Claim
  <2>2. CASE UNCHANGED slot
    BY <2>1, <2>2
  <2>3. CASE \E n \in FreeSlots(j) : slot' = [LiveSlots(j) EXCEPT ![j] = n]
    <3>1. PICK n \in FreeSlots(j) : slot' = [LiveSlots(j) EXCEPT ![j] = n]
      BY <2>3
    <3>2. slot'[j] = n /\ \A k \in Jobs : k # j => slot'[k] = LiveSlots(j)[k]
      BY <3>1 DEF LiveSlots
    <3>3. \A k \in Jobs : LiveSlots(j)[k] \in {0, slot[k]}
      BY DEF LiveSlots
    <3>4. \A k \in Jobs : TenantOf[k] = TenantOf[j] => LiveSlots(j)[k] # n
      BY DEF FreeSlots
    <3>5. ASSUME NEW k \in Jobs, slot'[k] # 0 PROVE lease'[k] # 0
      <4>1. CASE k = j
        BY <2>1, <4>1
      <4>2. CASE k # j
        <5>1. slot[k] # 0
          BY <3>2, <3>3, <3>5, <4>2
        <5> QED
          BY <2>1, <4>2, <5>1
      <4> QED
        BY <4>1, <4>2
    <3>6. ASSUME NEW i \in Jobs, NEW k \in Jobs, i # k, TenantOf[i] = TenantOf[k], slot'[i] # 0
          PROVE  slot'[i] # slot'[k]
      <4>1. CASE i = j
        BY <3>2, <3>4, <3>6, <4>1
      <4>2. CASE k = j
        BY <3>2, <3>4, <3>6, <4>2
      <4>3. CASE i # j /\ k # j
        <5>1. slot'[i] = slot[i] /\ slot'[k] \in {0, slot[k]}
          BY <3>2, <3>3, <3>6, <4>3
        <5> QED
          BY <3>6, <5>1
      <4> QED
        BY <4>1, <4>2, <4>3
    <3> QED
      BY <3>5, <3>6 DEF SlotsAccounted
  <2> QED
    BY <1>3, <2>2, <2>3 DEF Claim, TakeSlot
<1>4. ASSUME NEW w \in Workers, NEW s \in Stages, ReportStage(w, s) PROVE SlotsAccounted'
  BY <1>4, ReportsRunning
<1>5. ASSUME NEW j \in Jobs, EndsAttempt(j) PROVE SlotsAccounted'
  BY <1>5 DEF EndsAttempt, EndAttempt
<1>6. CASE ReapSlots
  BY <1>6 DEF ReapSlots
<1>7. ASSUME NEW m \in Models, LockLapses(m) PROVE SlotsAccounted'
  BY <1>7 DEF LockLapses
<1>8. ASSUME NEW x \in External, ExternalUnlocks(x) \/ \E m \in Models : ExternalLocks(x, m)
      PROVE  SlotsAccounted'
  BY <1>8 DEF ExternalUnlocks, ExternalLocks
<1>9. CASE QuietStep
  BY <1>9 DEF QuietStep
<1> QED
  BY <1>1, <1>2, <1>3, <1>4, <1>5, <1>6, <1>7, <1>8, <1>9, JobSteps

\* Locks: of the right model, and still the one a submission in flight saw.
LEMMA PlaceStep ==
  ASSUME IInv, [Next]_vars
  PROVE  LocksPlaced'
<1> USE StatusSets, ConstantTypes, DistinctHolders DEF IInv, TypeOK, LocksPlaced, lockVars
<1>0. \A p \in checked : p[1] \in Jobs /\ ModelOf[p[1]] \in Models
  OBVIOUS
<1>1. ASSUME NEW m \in Models, NEW h \in Holders, SetLock(m, h), checked' \subseteq checked,
             h \in Jobs => ModelOf[h] = m
      PROVE  LocksPlaced'
  <2>1. /\ lock'[m] = h /\ ~lockLapsed'[m]
        /\ \A n \in Models : n # m => lock'[n] = lock[n] /\ lockLapsed'[n] = lockLapsed[n]
    BY <1>1 DEF SetLock
  <2> QED
    BY <1>0, <1>1, <2>1
<1>2. ASSUME UNCHANGED lock, \A m \in Models : lockLapsed'[m] => lockLapsed[m],
             checked' \subseteq checked
      PROVE  LocksPlaced'
  BY <1>0, <1>2
<1>3. ASSUME NEW m \in Models, NEW h \in Holders, ReleaseLock(m, h), checked' \subseteq checked
      PROVE  LocksPlaced'
  BY <1>1, <1>2, <1>3 DEF ReleaseLock, Holders
<1>4. ASSUME NEW j \in Jobs, NEW h \in Holders, SubmitCommits(j, h) PROVE LocksPlaced'
  <2>1. checked' \subseteq checked
    BY <1>4 DEF SubmitCommits
  <2> QED
    BY <1>1, <1>2, <1>4, <2>1, SubmitCases DEF StoresJob, TakesOver, Holders
<1>5. ASSUME NEW j \in Jobs, SubmitChecks(j) PROVE LocksPlaced'
  <2>1. \A p \in checked' : p \in checked \/ p = <<j, lock[ModelOf[j]]>>
    BY <1>5 DEF SubmitChecks
  <2>2. UNCHANGED <<lock, lockLapsed>>
    BY <1>5 DEF SubmitChecks
  <2> QED
    BY <2>1, <2>2
<1>6. ASSUME NEW j \in Jobs, RequestCancel(j) \/ ReapOverdue(j) PROVE LocksPlaced'
  BY <1>2, <1>3, <1>6 DEF RequestCancel, ReapOverdue, Holders
<1>7. ASSUME NEW w \in Workers, NEW j \in Jobs, Claim(w, j) PROVE LocksPlaced'
  BY <1>2, <1>7, RenewIsQuiet DEF Claim
<1>8. ASSUME NEW w \in Workers, NEW s \in Stages, ReportStage(w, s) PROVE LocksPlaced'
  BY <1>2, <1>8, ReportsRunning
<1>9. ASSUME NEW j \in Jobs, EndsAttempt(j) PROVE LocksPlaced'
  BY <1>2, <1>3, <1>9 DEF EndsAttempt, EndAttempt, Holders
<1>10. CASE ReapSlots \/ QuietStep
  BY <1>2, <1>10 DEF ReapSlots, QuietStep
<1>11. ASSUME NEW m \in Models, LockLapses(m) PROVE LocksPlaced'
  <2>1. /\ lock[m] # NoOne /\ UNCHANGED <<lock, checked>>
        /\ \A n \in Models : n # m => lockLapsed'[n] = lockLapsed[n]
        /\ \A p \in checked : ModelOf[p[1]] # m
    BY <1>11 DEF LockLapses
  <2> QED
    BY <1>0, <2>1
<1>12. ASSUME NEW x \in External, ExternalUnlocks(x) \/ \E m \in Models : ExternalLocks(x, m)
       PROVE  LocksPlaced'
  BY <1>1, <1>3, <1>12 DEF ExternalUnlocks, ExternalLocks, Holders
<1> QED
  BY <1>4, <1>5, <1>6, <1>7, <1>8, <1>9, <1>10, <1>11, <1>12, JobSteps

\* Locks and jobs: without rollbacks and ticks, the lock of a model is held
\* exactly by its live job.
LEMMA LockStep ==
  ASSUME IInv, [Next]_vars
  PROVE  LockMatchesJobs'
<1> SUFFICES ASSUME External = {}
             PROVE  \A j \in Jobs : (lock[ModelOf[j]] = j <=> Live(j))'
  BY DEF LockMatchesJobs
<1> DEFINE Matches(k) == lock[ModelOf[k]] = k <=> Live(k)
<1> USE StatusSets, ConstantTypes, DistinctHolders DEF lockVars, jobVars
<1>0. /\ \A k \in Jobs : Matches(k)
      /\ status \in [Jobs -> {"NEW", "QUEUED"} \union Stages \union Terminal]
      /\ lock \in [Models -> Jobs \union {NoOne}]
      /\ \A m \in Models : lock[m] \in Jobs => ModelOf[lock[m]] = m
  BY DEF IInv, LockMatchesJobs, LocksPlaced, TypeOK, Holders
<1> HIDE DEF Matches
\* A job ends and releases the lock.
<1>1. ASSUME NEW j \in Jobs, Live(j), ReleaseLock(ModelOf[j], j), NEW s \in Terminal,
             status' = [status EXCEPT ![j] = s]
      PROVE  \A k \in Jobs : Matches(k)'
  BY <1>0, <1>1 DEF ReleaseLock, SetLock, Live, Matches
\* A live job stays live.
<1>2. ASSUME NEW j \in Jobs, Live(j), UNCHANGED lock, NEW s \in {"QUEUED"} \union Stages,
             status' = [status EXCEPT ![j] = s]
      PROVE  \A k \in Jobs : Matches(k)'
  BY <1>0, <1>2 DEF Live, Matches
<1>3. ASSUME UNCHANGED <<lock, status>> PROVE \A k \in Jobs : Matches(k)'
  BY <1>0, <1>3 DEF Live, Matches
<1>4. ASSUME NEW j \in Jobs, NEW h \in Holders, SubmitCommits(j, h)
      PROVE  \A k \in Jobs : Matches(k)'
  <2>1. lockLapsed[ModelOf[j]] => lock[ModelOf[j]] = h
    BY <1>4 DEF SubmitCommits, IInv, LocksPlaced
  <2>2. CASE UNCHANGED <<lockVars, status, lease, lapsed, slot>>
    BY <1>3, <2>2
  <2>3. CASE StoresJob(j) /\ lock[ModelOf[j]] = NoOne
    BY <1>0, <2>3 DEF StoresJob, SetLock, Live, Matches
  <2>4. CASE h \in Jobs /\ TakesOver(j, h)
    <3>1. lock[ModelOf[j]] = h /\ ModelOf[h] = ModelOf[j] /\ h # j
      BY <1>0, <2>1, <2>4 DEF TakesOver
    <3>2. /\ lock' = [lock EXCEPT ![ModelOf[j]] = j]
          /\ status'[j] = "QUEUED" /\ status'[h] = "FAILED"
          /\ \A k \in Jobs \ {j, h} : status'[k] = status[k]
      BY <1>0, <2>4, <3>1 DEF TakesOver, SetLock
    <3> QED
      BY <1>0, <3>1, <3>2 DEF Live, Matches
  <2>5. StoresJob(j) => lock[ModelOf[j]] = NoOne \/ ~(h \notin Jobs \/ h = j \/ status[h] \in Terminal)
    BY <1>0, <2>1 DEF StoresJob, Live, Matches, Holders
  <2> QED
    BY <1>4, <2>2, <2>3, <2>4, <2>5, SubmitCases DEF StoresJob
<1>5. ASSUME NEW j \in Jobs, SubmitChecks(j) PROVE \A k \in Jobs : Matches(k)'
  BY <1>3, <1>5 DEF SubmitChecks
<1>6. ASSUME NEW j \in Jobs, RequestCancel(j) PROVE \A k \in Jobs : Matches(k)'
  BY <1>1, <1>3, <1>6 DEF RequestCancel, Live
<1>7. ASSUME NEW j \in Jobs, ReapOverdue(j) PROVE \A k \in Jobs : Matches(k)'
  BY <1>1, <1>7 DEF ReapOverdue, Live
<1>8. ASSUME NEW w \in Workers, NEW j \in Jobs, Claim(w, j) PROVE \A k \in Jobs : Matches(k)'
  BY <1>2, <1>8 DEF Claim, RenewLock, Live
<1>9. ASSUME NEW w \in Workers, NEW s \in Stages, ReportStage(w, s)
      PROVE  \A k \in Jobs : Matches(k)'
  BY <1>2, <1>9, ReportsRunning DEF Live
<1>10. ASSUME NEW j \in Jobs, EndsAttempt(j) PROVE \A k \in Jobs : Matches(k)'
  <2>1. PICK s \in {"QUEUED"} \union Terminal : EndAttempt(j, s)
    BY <1>10 DEF EndsAttempt
  <2>2. Live(j)
    BY <1>10 DEF EndsAttempt, Live
  <2> QED
    BY <1>1, <1>2, <2>1, <2>2 DEF EndAttempt
<1>11. ASSUME ReapSlots \/ QuietStep PROVE \A k \in Jobs : Matches(k)'
  BY <1>3, <1>11 DEF ReapSlots, QuietStep
<1>12. ASSUME NEW m \in Models, LockLapses(m) PROVE \A k \in Jobs : Matches(k)'
  BY <1>3, <1>12 DEF LockLapses
<1>13. \A k \in Jobs : Matches(k)'
  BY <1>4, <1>5, <1>6, <1>7, <1>8, <1>9, <1>10, <1>11, <1>12, JobSteps
<1> QED
  BY <1>13 DEF Matches

\* Tokens stay fresh.
LEMMA TokenStep ==
  ASSUME IInv, [Next]_vars, TypeOK'
  PROVE  TokensFresh'
<1> USE StatusSets, ConstantTypes, DistinctHolders
<1> USE DEF jobVars, lockVars, workerVars, drainVars
<1> DEFINE Rows == \A j \in Jobs : lease[j] <= claims[j] /\ (lapsed[j] => lease[j] # 0)
           Tokens == \A w \in Workers : running[w] # NoOne =>
                       /\ token[w] \in 1 .. claims[running[w]]
                       /\ stage[w] \in Stages
                       /\ \A v \in Workers :
                            v # w /\ running[v] = running[w] => token[v] # token[w]
<1>0. TypeOK /\ Rows /\ Tokens
  BY DEF IInv, TokensFresh
\* The job rows.
<1>1. ASSUME NEW j \in Jobs, UNCHANGED claims,
             lease' = [lease EXCEPT ![j] = 0], lapsed' = [lapsed EXCEPT ![j] = FALSE]
      PROVE  Rows'
  BY <1>0, <1>1 DEF TypeOK
<1>2. ASSUME UNCHANGED <<claims, lease>>, \A j \in Jobs : lapsed'[j] => lapsed[j] \/ lease[j] # 0
      PROVE  Rows'
  BY <1>0, <1>2 DEF TypeOK
\* The workers' copies.
<1>3. ASSUME UNCHANGED <<claims, running, token, stage>> PROVE Tokens'
  BY <1>0, <1>3
<1>4. ASSUME NEW w \in Workers, UNCHANGED claims, Freed(w) PROVE Tokens'
  BY <1>0, <1>4 DEF Freed, TypeOK
<1> SUFFICES Rows' /\ Tokens'
  BY DEF TokensFresh
<1> HIDE DEF Rows, Tokens
<1>5. ASSUME NEW j \in Jobs, NEW h \in Holders, SubmitCommits(j, h) PROVE Rows' /\ Tokens'
  <2>1. UNCHANGED <<claims, running, token, stage>>
    BY <1>5 DEF SubmitCommits
  <2>2. CASE StoresJob(j) \/ UNCHANGED <<lockVars, status, lease, lapsed, slot>>
    BY <1>2, <1>3, <2>1, <2>2 DEF StoresJob
  <2>3. CASE h \in Jobs /\ TakesOver(j, h)
    BY <1>1, <1>3, <2>1, <2>3 DEF TakesOver
  <2> QED
    BY <1>5, <2>2, <2>3, SubmitCases
<1>6. ASSUME NEW j \in Jobs,
             SubmitChecks(j) \/ RequestCancel(j) \/ ReapScans(j) \/ ReapOverdue(j)
      PROVE  Rows' /\ Tokens'
  BY <1>2, <1>3, <1>6 DEF SubmitChecks, RequestCancel, ReapScans, ReapOverdue
<1>7. ASSUME NEW j \in Jobs, ReapTakes(j) PROVE Rows' /\ Tokens'
  BY <1>1, <1>3, <1>7 DEF ReapTakes, Lose, EndAttempt
<1>8. ASSUME NEW j \in Jobs, LeaseLapses(j) PROVE Rows' /\ Tokens'
  <2>1. \A k \in Jobs : lapsed'[k] => lapsed[k] \/ lease[k] # 0
    BY <1>0, <1>8 DEF LeaseLapses, TypeOK
  <2> QED
    BY <1>2, <1>3, <1>8, <2>1 DEF LeaseLapses
<1>9. ASSUME NEW m \in Models, LockLapses(m) PROVE Rows' /\ Tokens'
  BY <1>2, <1>3, <1>9 DEF LockLapses
<1>10. ASSUME NEW x \in External, ExternalUnlocks(x) \/ \E m \in Models : ExternalLocks(x, m)
       PROVE  Rows' /\ Tokens'
  BY <1>2, <1>3, <1>10 DEF ExternalUnlocks, ExternalLocks
<1>11. ASSUME NEW w \in Workers, NEW j \in Jobs, Claim(w, j) PROVE Rows' /\ Tokens'
  <2>1. /\ claims'[j] = claims[j] + 1 /\ lease'[j] = claims[j] + 1 /\ lapsed'[j] = FALSE
        /\ \A k \in Jobs \ {j} : /\ claims'[k] = claims[k] /\ lease'[k] = lease[k]
                                 /\ lapsed'[k] = lapsed[k]
    BY <1>0, <1>11 DEF Claim, TypeOK
  <2>2. Rows'
    BY <1>0, <2>1 DEF Rows, TypeOK
  <2>3. /\ running'[w] = j /\ token'[w] = claims[j] + 1 /\ stage'[w] \in Stages
        /\ running[w] = NoOne
        /\ \A v \in Workers \ {w} : /\ running'[v] = running[v] /\ token'[v] = token[v]
                                    /\ stage'[v] = stage[v]
    BY <1>0, <1>11 DEF Claim, TypeOK
  <2>4. \A v \in Workers : running[v] # NoOne => running[v] \in Jobs /\ token[v] \in Nat
    BY <1>0 DEF TypeOK
  <2>5. \A k \in Jobs : claims[k] \in Nat
    BY <1>0 DEF TypeOK
  <2>6. \A v \in Workers : running[v] = j => token[v] <= claims[j] /\ token[v] # claims[j] + 1
    BY <1>0, <2>4, <2>5 DEF Tokens
  <2>7. Tokens'
    BY <1>0, <2>1, <2>3, <2>4, <2>5, <2>6 DEF Tokens
  <2> QED
    BY <2>2, <2>7
<1>12. ASSUME NEW w \in Workers, NEW s \in Stages, ReportStage(w, s) PROVE Rows' /\ Tokens'
  <2>1. Tokens'
    BY <1>0, <1>12 DEF ReportStage, Tokens, TypeOK
  <2> QED
    BY <1>2, <1>12, <2>1 DEF ReportStage
<1>13. ASSUME NEW w \in Workers, NEW s \in Stages, ReportRefused(w, s) PROVE Rows' /\ Tokens'
  BY <1>2, <1>3, <1>13 DEF ReportRefused, EndsWith
<1>14. ASSUME NEW w \in Workers, NEW r \in EndKinds, AttemptReturns(w, r) PROVE Rows' /\ Tokens'
  BY <1>2, <1>3, <1>14 DEF AttemptReturns, EndsWith
<1>15. ASSUME NEW w \in Workers, ProcessDies(w) \/ TimesOut(w) \/ TickLoses(w)
       PROVE  Rows' /\ Tokens'
  BY <1>2, <1>3, <1>15 DEF ProcessDies, TimesOut, TickLoses, EndsWith
<1>16. ASSUME NEW w \in Workers, TickRenews(w) \/ TickDrains(w) PROVE Rows' /\ Tokens'
  <2>1. \A j \in Jobs : lapsed'[j] => lapsed[j]
    BY <1>0, <1>16 DEF TickRenews, TickDrains, TypeOK
  <2> QED
    BY <1>2, <1>3, <1>16, <2>1 DEF TickRenews, TickDrains
<1>17. ASSUME NEW w \in Workers, RecordOutcome(w) PROVE Rows' /\ Tokens'
  BY <1>1, <1>4, <1>17, HoldsRunning DEF RecordOutcome, EndAttempt
<1>18. ASSUME NEW w \in Workers, RequeueDrained(w) PROVE Rows' /\ Tokens'
  BY <1>1, <1>4, <1>18, HoldsRunning DEF RequeueDrained, EndAttempt
<1>19. ASSUME NEW w \in Workers, RetryOrFail(w) PROVE Rows' /\ Tokens'
  BY <1>1, <1>4, <1>19, HoldsRunning DEF RetryOrFail, EndAttempt
<1>20. ASSUME NEW w \in Workers, RecordLost(w) PROVE Rows' /\ Tokens'
  BY <1>1, <1>4, <1>20, HoldsRunning DEF RecordLost, Lose, EndAttempt
<1>21. ASSUME NEW w \in Workers, DropAttempt(w) \/ Crash(w) PROVE Rows' /\ Tokens'
  BY <1>2, <1>4, <1>21 DEF DropAttempt, Crash
<1>22. ASSUME NEW w \in Workers, Drain(w) \/ Replace(w) PROVE Rows' /\ Tokens'
  BY <1>2, <1>3, <1>22 DEF Drain, Replace
<1>23. ASSUME ReapSlots PROVE Rows' /\ Tokens'
  BY <1>2, <1>3, <1>23 DEF ReapSlots
<1>24. ASSUME UNCHANGED vars PROVE Rows' /\ Tokens'
  BY <1>2, <1>3, <1>24 DEF vars
<1> QED
  BY <1>5, <1>6, <1>7, <1>8, <1>9, <1>10, <1>11, <1>12, <1>13, <1>14, <1>15, <1>16, <1>17,
     <1>18, <1>19, <1>20, <1>21, <1>22, <1>23, <1>24
     DEF Next, Submission, Reaper, Attempt, Tick, Record

\* The attempt under the lease stays where the job's status says.
InStep(w) ==
  /\ Holds(w) => stage[w] = status[running[w]]
  /\ running[w] # NoOne /\ ending[w] \in {"COMPLETED", "ROLLED_BACK"}
       => <<stage[w], ending[w]>> \in Results
  /\ Holds(w) /\ ending[w] = "CANCELLED"
       => cancel[running[w]] /\ status[running[w]] \notin RegistryStages

\* A step that takes leases away or leaves the jobs under a lease alone.
LeasesShrink ==
  \A j \in Jobs : /\ lease'[j] \in {lease[j], 0}
                  /\ lease'[j] # 0 => status'[j] = status[j] /\ (cancel[j] => cancel'[j])

\* Such a step keeps the workers it does not touch in step.
LEMMA BystanderInStep ==
  ASSUME IInv, LeasesShrink, NEW w \in Workers,
         running'[w] = running[w], token'[w] = token[w], stage'[w] = stage[w],
         ending'[w] = ending[w]
  PROVE  InStep(w)'
<1>1. InStep(w) /\ (running[w] # NoOne => running[w] \in Jobs /\ token[w] # 0)
  BY DEF IInv, AttemptInStep, InStep, TokensFresh, TypeOK
<1>2. Holds(w)' => Holds(w) /\ status'[running[w]] = status[running[w]]
                   /\ (cancel[running[w]] => cancel'[running[w]])
  BY <1>1 DEF Holds, LeasesShrink
<1> QED
  BY <1>1, <1>2 DEF InStep, Holds

\* So does a step that sets how one worker's attempt ends.
LEMMA EndingInStep ==
  ASSUME IInv, LeasesShrink, NEW w \in Workers, NEW k,
         UNCHANGED <<running, token, stage>>, ending' = [ending EXCEPT ![w] = k],
         k \in {"COMPLETED", "ROLLED_BACK"} => <<stage[w], k>> \in Results,
         Holds(w) /\ k = "CANCELLED"
           => cancel[running[w]] /\ status[running[w]] \notin RegistryStages
  PROVE  AttemptInStep'
<1>1. ASSUME NEW v \in Workers \ {w} PROVE InStep(v)'
  BY <1>1, BystanderInStep DEF IInv, TypeOK
<1>2. InStep(w) /\ (running[w] # NoOne => running[w] \in Jobs /\ token[w] # 0)
  BY DEF IInv, AttemptInStep, InStep, TokensFresh, TypeOK
<1>3. Holds(w)' => Holds(w) /\ status'[running[w]] = status[running[w]]
                   /\ (cancel[running[w]] => cancel'[running[w]])
  BY <1>2 DEF Holds, LeasesShrink
<1>4. ending'[w] = k
  BY DEF IInv, TypeOK
<1>5. InStep(w)'
  BY <1>2, <1>3, <1>4 DEF InStep, Holds
<1> QED
  BY <1>1, <1>5 DEF AttemptInStep, InStep

\* And one that frees a worker.
LEMMA FreedInStep ==
  ASSUME IInv, LeasesShrink, NEW w \in Workers, Freed(w)
  PROVE  AttemptInStep'
<1>1. ASSUME NEW v \in Workers \ {w} PROVE InStep(v)'
  BY <1>1, BystanderInStep DEF Freed, IInv, TypeOK
<1>2. InStep(w)'
  BY DEF Freed, InStep, Holds, IInv, TypeOK
<1> QED
  BY <1>1, <1>2 DEF AttemptInStep, InStep

\* Ending an attempt takes a lease away.
LEMMA EndShrinks ==
  ASSUME IInv, NEW j \in Jobs, NEW s, EndAttempt(j, s), UNCHANGED cancel
  PROVE  LeasesShrink
BY DEF EndAttempt, LeasesShrink, IInv, TypeOK

\* Every step keeps the attempts in step.
LEMMA AttemptStep ==
  ASSUME IInv, [Next]_vars
  PROVE  AttemptInStep'
<1> USE StatusSets, ConstantTypes, DistinctHolders DEF jobVars, lockVars, workerVars, drainVars
<1>1. ASSUME LeasesShrink, UNCHANGED workerVars PROVE AttemptInStep'
  BY <1>1, BystanderInStep DEF AttemptInStep, InStep
<1>2. ASSUME UNCHANGED <<status, lease, cancel>> PROVE LeasesShrink
  BY <1>2 DEF LeasesShrink
<1>3. ASSUME NEW w \in Workers, NEW k, EndsWith(w, k),
             k \in {"COMPLETED", "ROLLED_BACK"} => <<stage[w], k>> \in Results,
             Holds(w) /\ k = "CANCELLED"
               => cancel[running[w]] /\ status[running[w]] \notin RegistryStages
      PROVE  AttemptInStep'
  BY <1>2, <1>3, EndingInStep DEF EndsWith
<1>4. ASSUME NEW j \in Jobs, NEW h \in Holders, SubmitCommits(j, h) PROVE AttemptInStep'
  <2>1. UNCHANGED <<workerVars, cancel>>
    BY <1>4 DEF SubmitCommits
  <2>2. status[j] = "NEW" => lease[j] = 0
    BY DEF IInv, LeaseMatchesStage
  <2>3. CASE UNCHANGED <<lockVars, status, lease, lapsed, slot>>
    BY <1>1, <1>2, <2>1, <2>3
  <2>4. CASE StoresJob(j)
    <3>1. LeasesShrink
      BY <2>1, <2>2, <2>4 DEF StoresJob, LeasesShrink, IInv, TypeOK
    <3> QED
      BY <1>1, <2>1, <3>1
  <2>5. CASE h \in Jobs /\ TakesOver(j, h)
    <3>1. LeasesShrink
      BY <2>1, <2>2, <2>5 DEF TakesOver, LeasesShrink, IInv, TypeOK
    <3> QED
      BY <1>1, <2>1, <3>1
  <2> QED
    BY <1>4, <2>3, <2>4, <2>5, SubmitCases
<1>5. ASSUME NEW j \in Jobs, RequestCancel(j) \/ ReapOverdue(j) PROVE AttemptInStep'
  <2>1. LeasesShrink
    BY <1>5 DEF RequestCancel, ReapOverdue, LeasesShrink, IInv, TypeOK
  <2> QED
    BY <1>1, <1>5, <2>1 DEF RequestCancel, ReapOverdue
<1>6. ASSUME NEW j \in Jobs, SubmitChecks(j) \/ ReapScans(j) \/ LeaseLapses(j)
      PROVE  AttemptInStep'
  BY <1>1, <1>2, <1>6 DEF SubmitChecks, ReapScans, LeaseLapses
<1>7. ASSUME NEW j \in Jobs, ReapTakes(j) PROVE AttemptInStep'
  BY <1>1, <1>7, EndShrinks DEF ReapTakes, Lose
<1>8. ASSUME NEW m \in Models, LockLapses(m) PROVE AttemptInStep'
  BY <1>1, <1>2, <1>8 DEF LockLapses
<1>9. ASSUME NEW x \in External, ExternalUnlocks(x) \/ \E m \in Models : ExternalLocks(x, m)
      PROVE  AttemptInStep'
  BY <1>1, <1>2, <1>9 DEF ExternalUnlocks, ExternalLocks
<1>10. ASSUME NEW w \in Workers, NEW j \in Jobs, Claim(w, j) PROVE AttemptInStep'
  <2>1. InStep(w)'
    BY <1>10 DEF Claim, InStep, Holds, IInv, TypeOK
  <2>2. ASSUME NEW v \in Workers \ {w} PROVE InStep(v)'
    <3>1. /\ running'[v] = running[v] /\ token'[v] = token[v]
          /\ stage'[v] = stage[v] /\ ending'[v] = ending[v]
          /\ lease' = [lease EXCEPT ![j] = claims[j] + 1] /\ UNCHANGED cancel
          /\ \A k \in Jobs \ {j} : status'[k] = status[k]
      BY <1>10 DEF Claim, IInv, TypeOK
    <3>2. running[v] = j => token[v] # claims[j] + 1
      BY DEF IInv, TypeOK, TokensFresh
    <3>3. Holds(v)' => Holds(v) /\ running[v] \in Jobs \ {j}
      BY <3>1, <3>2 DEF Holds, IInv, TypeOK
    <3>4. InStep(v)
      BY DEF IInv, AttemptInStep, InStep
    <3> QED
      BY <3>1, <3>3, <3>4 DEF InStep
  <2> QED
    BY <2>1, <2>2 DEF AttemptInStep, InStep
<1>11. ASSUME NEW w \in Workers, NEW s \in Stages, ReportStage(w, s) PROVE AttemptInStep'
  <2>1. /\ running[w] \in Jobs /\ Holds(w) /\ status[running[w]] \in Stages
        /\ status' = [status EXCEPT ![running[w]] = s] /\ UNCHANGED lease
    BY <1>11, ReportsRunning
  <2>2. /\ UNCHANGED <<running, token, ending, cancel>>
        /\ stage' = [stage EXCEPT ![w] = s]
        /\ ending[w] \in StopKinds \union {"none"}
        /\ Fence(running[w], token[w], s) = "ok"
    BY <1>11 DEF ReportStage
  <2>3. ending[w] # "CANCELLED"
    <3>1. ending[w] = "CANCELLED" => cancel[running[w]] /\ status[running[w]] \notin RegistryStages
      BY <2>1 DEF IInv, AttemptInStep
    <3>2. s \notin Terminal \union {"QUEUED"}
      OBVIOUS
    <3> QED
      BY <2>1, <2>2, <3>1, <3>2 DEF Fence, Holds
  <2>4. InStep(w)'
    BY <2>1, <2>2, <2>3 DEF InStep, StopKinds, IInv, TypeOK
  <2>5. ASSUME NEW v \in Workers \ {w} PROVE InStep(v)'
    <3>1. Holds(v)' => Holds(v) /\ running[v] # running[w]
      BY <2>1, <2>2 DEF Holds, IInv, TokensFresh
    <3>2. InStep(v) /\ stage'[v] = stage[v]
      BY <2>2 DEF IInv, AttemptInStep, InStep, TypeOK
    <3>3. Holds(v)' => status'[running[v]] = status[running[v]]
      BY <2>1, <3>1 DEF IInv, TypeOK, Holds
    <3> QED
      BY <2>2, <3>1, <3>2, <3>3 DEF InStep
  <2> QED
    BY <2>4, <2>5 DEF AttemptInStep, InStep
<1>12. ASSUME NEW w \in Workers, NEW s \in Stages, ReportRefused(w, s) PROVE AttemptInStep'
  <2>1. PICK k \in {"LEASE_LOST", "CANCELLED", "FAILED"} :
          /\ EndsWith(w, k)
          /\ k = "CANCELLED" => cancel[running[w]] /\ status[running[w]] \notin RegistryStages
    BY <1>12 DEF ReportRefused, Fence
  <2> QED
    BY <1>3, <2>1
<1>13. ASSUME NEW w \in Workers, NEW r \in EndKinds, AttemptReturns(w, r) PROVE AttemptInStep'
  <2>1. EndsWith(w, r) /\ (<<stage[w], r>> \in Results \/ r \in {"RETRYABLE", "FAILED"})
    BY <1>13 DEF AttemptReturns
  <2>2. <<stage[w], r>> \in Results => r \in {"COMPLETED", "ROLLED_BACK"}
    BY DEF Results
  <2> QED
    BY <1>3, <2>1, <2>2
<1>14. ASSUME NEW w \in Workers, ProcessDies(w) \/ TimesOut(w) \/ TickLoses(w)
       PROVE  AttemptInStep'
  BY <1>3, <1>14 DEF ProcessDies, TimesOut, TickLoses
<1>15. ASSUME NEW w \in Workers, TickRenews(w) PROVE AttemptInStep'
  <2> DEFINE k == IF cancel[running[w]] /\ status[running[w]] \notin RegistryStages
                  THEN "CANCELLED" ELSE "none"
  <2>1. /\ UNCHANGED <<status, lease, cancel, running, token, stage>>
        /\ ending' = [ending EXCEPT ![w] = k]
    BY <1>15 DEF TickRenews
  <2>2. k \in {"CANCELLED", "none"}
    OBVIOUS
  <2>3. k = "CANCELLED" => cancel[running[w]] /\ status[running[w]] \notin RegistryStages
    OBVIOUS
  <2> HIDE DEF k
  <2> QED
    BY <1>2, <2>1, <2>2, <2>3, EndingInStep
<1>16. ASSUME NEW w \in Workers, TickDrains(w) PROVE AttemptInStep'
  <2>1. /\ UNCHANGED <<status, lease, cancel, running, token, stage>>
        /\ ending' = [ending EXCEPT ![w] = "DRAINED"]
    BY <1>16 DEF TickDrains
  <2> QED
    BY <1>2, <2>1, EndingInStep
<1>17. ASSUME NEW w \in Workers, RecordOutcome(w) PROVE AttemptInStep'
  BY <1>17, HoldsRunning, EndShrinks, FreedInStep DEF RecordOutcome
<1>18. ASSUME NEW w \in Workers, RequeueDrained(w) PROVE AttemptInStep'
  BY <1>18, HoldsRunning, EndShrinks, FreedInStep DEF RequeueDrained
<1>19. ASSUME NEW w \in Workers, RetryOrFail(w) PROVE AttemptInStep'
  BY <1>19, HoldsRunning, EndShrinks, FreedInStep DEF RetryOrFail
<1>20. ASSUME NEW w \in Workers, RecordLost(w) PROVE AttemptInStep'
  BY <1>20, HoldsRunning, EndShrinks, FreedInStep DEF RecordLost, Lose
<1>21. ASSUME NEW w \in Workers, DropAttempt(w) \/ Crash(w) PROVE AttemptInStep'
  BY <1>2, <1>21, FreedInStep DEF DropAttempt, Crash
<1>22. ASSUME NEW w \in Workers, Drain(w) \/ Replace(w) PROVE AttemptInStep'
  BY <1>1, <1>2, <1>22 DEF Drain, Replace
<1>23. ASSUME ReapSlots PROVE AttemptInStep'
  BY <1>1, <1>2, <1>23 DEF ReapSlots
<1>24. ASSUME UNCHANGED vars PROVE AttemptInStep'
  BY <1>1, <1>2, <1>24 DEF vars
<1> QED
  BY <1>4, <1>5, <1>6, <1>7, <1>8, <1>9, <1>10, <1>11, <1>12, <1>13, <1>14, <1>15, <1>16, <1>17,
     <1>18, <1>19, <1>20, <1>21, <1>22, <1>23, <1>24
     DEF Next, Submission, Reaper, Attempt, Tick, Record

\* What RetryBudget and CountersGrounded say of one job.
Budget(j) ==
  /\ attempt[j] - lost[j] \in 0 .. MaxRetries + 1
  /\ lost[j] < PoisonThreshold \/ (quarantined[j] /\ status[j] = "FAILED")
  /\ status[j] = "QUEUED" => attempt[j] - lost[j] <= MaxRetries
  /\ status[j] \in Stages => attempt[j] - lost[j] >= 1
  /\ status[j] = "NEW" => attempt[j] = 0 /\ lost[j] = 0
  /\ quarantined[j] => status[j] = "FAILED"

\* The counters of a job: numbers, and within budget.
LEMMA BudgetNow ==
  ASSUME IInv, NEW j \in Jobs
  PROVE  Budget(j) /\ attempt[j] \in Nat /\ lost[j] \in Nat
BY DEF IInv, TypeOK, RetryBudget, CountersGrounded, Budget

\* A job whose counters a step leaves alone stays within budget when it moves
\* from the queue or a stage to an outcome, between stages, or not at all.
LEMMA BudgetFrame ==
  ASSUME IInv, NEW j \in Jobs,
         attempt'[j] = attempt[j], lost'[j] = lost[j], quarantined'[j] = quarantined[j],
         \/ status'[j] = status[j]
         \/ status[j] = "NEW" /\ status'[j] = "QUEUED"
         \/ status[j] \in Stages /\ status'[j] \in Stages
         \/ status[j] \notin Terminal /\ status'[j] \in Terminal
  PROVE  Budget(j)'
<1>1. status[j] # "FAILED" \/ status'[j] = "FAILED"
  BY StatusSets
<1> QED
  BY <1>1, BudgetNow, StatusSets, ConstantTypes DEF Budget

\* A lost attempt is charged to the loss budget, once.
LEMMA LoseBudget ==
  ASSUME IInv, NEW j \in Jobs, Lose(j), status[j] \in Stages
  PROVE  \A k \in Jobs : Budget(k)'
<1> USE StatusSets, ConstantTypes
<1>1. ASSUME NEW k \in Jobs \ {j} PROVE Budget(k)'
  <2>1. /\ attempt'[k] = attempt[k] /\ lost'[k] = lost[k] /\ quarantined'[k] = quarantined[k]
        /\ status'[k] = status[k]
    BY <1>1 DEF Lose, EndAttempt, IInv, TypeOK
  <2> QED
    BY <2>1, BudgetFrame
<1>2. Budget(j) /\ attempt[j] \in Nat /\ lost[j] \in Nat /\ attempt'[j] = attempt[j]
  BY BudgetNow DEF Lose
<1>3. lost[j] < PoisonThreshold /\ ~quarantined[j]
  BY <1>2 DEF Budget
<1>4. ASSUME status[j] \in RegistryStages PROVE Budget(j)'
  <2>1. /\ status'[j] = "FAILED" /\ lost'[j] = lost[j]
    BY <1>4 DEF Lose, EndAttempt, IInv, TypeOK
  <2>2. quarantined'[j] = quarantined[j]
    BY <1>4, Zenon DEF Lose, IInv, TypeOK
  <2> QED
    BY <2>1, <2>2, BudgetFrame, <1>2
<1>5. ASSUME status[j] \notin RegistryStages, lost[j] + 1 >= PoisonThreshold PROVE Budget(j)'
  <2>1. status'[j] = "FAILED" /\ lost'[j] = lost[j] + 1
    BY <1>5 DEF Lose, EndAttempt, IInv, TypeOK
  <2>2. quarantined'[j]
    BY <1>5, Zenon DEF Lose, IInv, TypeOK
  <2> QED
    BY <1>2, <2>1, <2>2 DEF Budget
<1>6. ASSUME status[j] \notin RegistryStages, ~(lost[j] + 1 >= PoisonThreshold) PROVE Budget(j)'
  <2>1. status'[j] = "QUEUED" /\ lost'[j] = lost[j] + 1
    BY <1>6 DEF Lose, EndAttempt, IInv, TypeOK
  <2>2. ~quarantined'[j]
    BY <1>3, <1>6, Zenon DEF Lose, IInv, TypeOK
  <2> QED
    BY <1>2, <1>6, <2>1, <2>2 DEF Budget
<1> QED
  BY <1>1, <1>4, <1>5, <1>6

\* Every step keeps every job within its retry budget.
LEMMA BudgetStep ==
  ASSUME IInv, [Next]_vars
  PROVE  RetryBudget' /\ CountersGrounded'
<1> SUFFICES \A k \in Jobs : Budget(k)'
  BY DEF Budget, RetryBudget, CountersGrounded
<1> USE StatusSets, ConstantTypes, DistinctHolders DEF jobVars, lockVars, workerVars, drainVars
<1>1. ASSUME UNCHANGED <<status, attempt, lost, quarantined>> PROVE \A k \in Jobs : Budget(k)'
  BY <1>1, BudgetFrame
<1>2. ASSUME NEW j \in Jobs, UNCHANGED <<attempt, lost, quarantined>>, NEW s,
             status' = [status EXCEPT ![j] = s],
             \/ status[j] = "NEW" /\ s = "QUEUED"
             \/ status[j] \in Stages /\ s \in Stages
             \/ status[j] \notin Terminal /\ s \in Terminal
      PROVE  \A k \in Jobs : Budget(k)'
  BY <1>2, BudgetFrame DEF IInv, TypeOK
<1>3. ASSUME NEW j \in Jobs, NEW h \in Holders, SubmitCommits(j, h)
      PROVE  \A k \in Jobs : Budget(k)'
  <2>1. UNCHANGED <<attempt, lost, quarantined>>
    BY <1>3 DEF SubmitCommits
  <2>2. CASE StoresJob(j)
    BY <1>2, <2>1, <2>2 DEF StoresJob
  <2>3. CASE h \in Jobs /\ TakesOver(j, h)
    <3>1. \A k \in Jobs : \/ status'[k] = status[k]
                          \/ status[k] = "NEW" /\ status'[k] = "QUEUED"
                          \/ status[k] \notin Terminal /\ status'[k] \in Terminal
      BY <2>3 DEF TakesOver, IInv, TypeOK
    <3> QED
      BY <2>1, <3>1, BudgetFrame
  <2>4. CASE UNCHANGED <<lockVars, status, lease, lapsed, slot>>
    BY <1>1, <2>1, <2>4
  <2> QED
    BY <1>3, <2>2, <2>3, <2>4, SubmitCases
<1>4. ASSUME NEW j \in Jobs, RequestCancel(j) PROVE \A k \in Jobs : Budget(k)'
  BY <1>1, <1>2, <1>4 DEF RequestCancel
<1>5. ASSUME NEW j \in Jobs, ReapOverdue(j) PROVE \A k \in Jobs : Budget(k)'
  BY <1>2, <1>5 DEF ReapOverdue
<1>6. ASSUME NEW j \in Jobs, SubmitChecks(j) \/ ReapScans(j) \/ LeaseLapses(j)
      PROVE  \A k \in Jobs : Budget(k)'
  BY <1>1, <1>6 DEF SubmitChecks, ReapScans, LeaseLapses
<1>7. ASSUME NEW j \in Jobs, ReapTakes(j) PROVE \A k \in Jobs : Budget(k)'
  BY <1>7, LoseBudget DEF ReapTakes, IInv, LeaseMatchesStage
<1>8. ASSUME NEW m \in Models, LockLapses(m) PROVE \A k \in Jobs : Budget(k)'
  BY <1>1, <1>8 DEF LockLapses
<1>9. ASSUME NEW x \in External, ExternalUnlocks(x) \/ \E m \in Models : ExternalLocks(x, m)
      PROVE  \A k \in Jobs : Budget(k)'
  BY <1>1, <1>9 DEF ExternalUnlocks, ExternalLocks
<1>10. ASSUME NEW w \in Workers, NEW j \in Jobs, Claim(w, j) PROVE \A k \in Jobs : Budget(k)'
  <2>1. ASSUME NEW k \in Jobs \ {j} PROVE Budget(k)'
    <3>1. /\ attempt'[k] = attempt[k] /\ lost'[k] = lost[k] /\ quarantined'[k] = quarantined[k]
          /\ status'[k] = status[k]
      BY <1>10, <2>1 DEF Claim, IInv, TypeOK
    <3> QED
      BY <3>1, BudgetFrame
  <2>2. /\ attempt'[j] = attempt[j] + 1 /\ lost'[j] = lost[j]
        /\ quarantined'[j] = quarantined[j]
        /\ status[j] = "QUEUED" /\ status'[j] = "DATA_PREPARING"
    BY <1>10 DEF Claim, IInv, TypeOK
  <2>3. Budget(j)'
    BY <2>2, BudgetNow DEF Budget
  <2> QED
    BY <2>1, <2>3
<1>11. ASSUME NEW w \in Workers, NEW s \in Stages, ReportStage(w, s)
       PROVE  \A k \in Jobs : Budget(k)'
  BY <1>2, <1>11, ReportsRunning DEF ReportStage
<1>12. ASSUME NEW w \in Workers, NEW s \in Stages, ReportRefused(w, s)
       PROVE  \A k \in Jobs : Budget(k)'
  BY <1>1, <1>12 DEF ReportRefused, EndsWith
<1>13. ASSUME NEW w \in Workers, NEW r \in EndKinds, AttemptReturns(w, r)
       PROVE  \A k \in Jobs : Budget(k)'
  BY <1>1, <1>13 DEF AttemptReturns, EndsWith
<1>14. ASSUME NEW w \in Workers, ProcessDies(w) \/ TimesOut(w) \/ TickLoses(w)
       PROVE  \A k \in Jobs : Budget(k)'
  BY <1>1, <1>14 DEF ProcessDies, TimesOut, TickLoses, EndsWith
<1>15. ASSUME NEW w \in Workers, TickRenews(w) \/ TickDrains(w)
       PROVE  \A k \in Jobs : Budget(k)'
  BY <1>1, <1>15 DEF TickRenews, TickDrains
<1>16. ASSUME NEW w \in Workers, RecordOutcome(w) PROVE \A k \in Jobs : Budget(k)'
  BY <1>2, <1>16, HoldsRunning DEF RecordOutcome, EndAttempt
<1>17. ASSUME NEW w \in Workers, RequeueDrained(w) PROVE \A k \in Jobs : Budget(k)'
  <2>1. PICK j \in Jobs : j = running[w] /\ status[j] \in Stages
    BY <1>17, HoldsRunning DEF RequeueDrained
  <2>2. ASSUME NEW k \in Jobs \ {j} PROVE Budget(k)'
    <3>1. /\ attempt'[k] = attempt[k] /\ lost'[k] = lost[k] /\ quarantined'[k] = quarantined[k]
          /\ status'[k] = status[k]
      BY <1>17, <2>1, <2>2 DEF RequeueDrained, EndAttempt, IInv, TypeOK
    <3> QED
      BY <3>1, BudgetFrame
  <2>3. Budget(j) /\ attempt[j] \in Nat /\ lost[j] \in Nat
    BY <2>1, BudgetNow
  <2>4. /\ attempt'[j] = (IF attempt[j] > 0 THEN attempt[j] - 1 ELSE 0) /\ lost'[j] = lost[j]
        /\ quarantined'[j] = quarantined[j] /\ status'[j] = "QUEUED"
    BY <1>17, <2>1 DEF RequeueDrained, EndAttempt, IInv, TypeOK
  <2>5. Budget(j)'
    BY <2>1, <2>3, <2>4 DEF Budget
  <2> QED
    BY <2>2, <2>5
<1>18. ASSUME NEW w \in Workers, RetryOrFail(w) PROVE \A k \in Jobs : Budget(k)'
  <2>1. PICK j \in Jobs : j = running[w] /\ status[j] \in Stages
    BY <1>18, HoldsRunning DEF RetryOrFail
  <2>2. ASSUME NEW k \in Jobs \ {j} PROVE Budget(k)'
    <3>1. /\ attempt'[k] = attempt[k] /\ lost'[k] = lost[k] /\ quarantined'[k] = quarantined[k]
          /\ status'[k] = status[k]
      BY <1>18, <2>1, <2>2 DEF RetryOrFail, EndAttempt, IInv, TypeOK
    <3> QED
      BY <3>1, BudgetFrame
  <2>3. Budget(j) /\ attempt[j] \in Nat /\ lost[j] \in Nat
    BY <2>1, BudgetNow
  <2>4. /\ attempt'[j] = attempt[j] /\ lost'[j] = lost[j] /\ quarantined'[j] = quarantined[j]
        /\ status'[j] = IF attempt[j] - lost[j] <= MaxRetries THEN "QUEUED" ELSE "FAILED"
    BY <1>18, <2>1 DEF RetryOrFail, TriesLeft, EndAttempt, IInv, TypeOK
  <2>5. Budget(j)'
    BY <2>1, <2>3, <2>4 DEF Budget
  <2> QED
    BY <2>2, <2>5
<1>19. ASSUME NEW w \in Workers, RecordLost(w) PROVE \A k \in Jobs : Budget(k)'
  BY <1>19, HoldsRunning, LoseBudget DEF RecordLost
<1>20. ASSUME NEW w \in Workers, DropAttempt(w) \/ Crash(w) \/ Drain(w) \/ Replace(w)
       PROVE  \A k \in Jobs : Budget(k)'
  BY <1>1, <1>20 DEF DropAttempt, Crash, Drain, Replace
<1>21. ASSUME ReapSlots \/ UNCHANGED vars PROVE \A k \in Jobs : Budget(k)'
  BY <1>1, <1>21 DEF ReapSlots, vars
<1> QED
  BY <1>3, <1>4, <1>5, <1>6, <1>7, <1>8, <1>9, <1>10, <1>11, <1>12, <1>13, <1>14, <1>15, <1>16,
     <1>17, <1>18, <1>19, <1>20, <1>21 DEF Next, Submission, Reaper, Attempt, Tick, Record

-----------------------------------------------------------------------------
(* The theorems.                                                           *)

\* The inductive invariant holds at the start: no job, no lease, no lock.
LEMMA InitInv == Init => IInv
<1> SUFFICES ASSUME Init PROVE IInv
  OBVIOUS
<1> USE StatusSets, ConstantTypes, DistinctHolders DEF Init
<1>1. TypeOK
  BY DEF TypeOK, Holders
<1>2. LeaseMatchesStage /\ RetryBudget /\ CountersGrounded
  BY DEF LeaseMatchesStage, RetryBudget, CountersGrounded
<1>3. TokensFresh /\ AttemptInStep
  BY DEF TokensFresh, AttemptInStep, Holds
<1>4. SlotsAccounted /\ LocksPlaced /\ LockMatchesJobs
  BY DEF SlotsAccounted, LocksPlaced, LockMatchesJobs, Live
<1> QED
  BY <1>1, <1>2, <1>3, <1>4 DEF IInv

\* Every step preserves it.
LEMMA StepInv == IInv /\ [Next]_vars => IInv'
<1> SUFFICES ASSUME IInv, [Next]_vars PROVE IInv'
  OBVIOUS
<1>1. TypeOK'
  BY TypeStep DEF IInv
<1> QED
  BY <1>1, LeaseStep, TokenStep, AttemptStep, BudgetStep, SlotStep, PlaceStep, LockStep DEF IInv

\* The queue never leaves its inductive invariant, whatever crashes, expires,
\* races or is cancelled.
THEOREM Inductive == Spec => []IInv
BY InitInv, StepInv, PTL DEF Spec

\* Every row and every worker variable keeps its type.
THEOREM TypeCorrect == Spec => []TypeOK
<1>1. IInv => TypeOK
  BY DEF IInv
<1> QED
  BY <1>1, Inductive, PTL

\* The model lock is held exactly by the model's live job, when nobody but
\* submissions takes locks: no end of a job forgets its lock, no requeue drops
\* it, and a takeover ends the job it takes the lock from (_submit,
\* request_cancel, _end_attempt, reap).
THEOREM LocksCorrect == Spec => []LockMatchesJobs
<1>1. IInv => LockMatchesJobs
  BY DEF IInv
<1> QED
  BY <1>1, Inductive, PTL

\* A job is under a lease exactly while it is in a stage (claim, _end_attempt,
\* reap, _fail_abandoned_job).
THEOREM LeasesCorrect == Spec => []LeaseMatchesStage
<1>1. IInv => LeaseMatchesStage
  BY DEF IInv
<1> QED
  BY <1>1, Inductive, PTL

\* The retry and poison budgets are never overrun nor charged twice
\* (_requeue_or_end, lose, requeue).
THEOREM BudgetCorrect == Spec => []RetryBudget
<1>1. IInv => RetryBudget
  BY DEF IInv
<1> QED
  BY <1>1, Inductive, PTL

\* No tenant slot leaks or is shared (_take_slot, _end_attempt, reap).
THEOREM SlotsCorrect == Spec => []SlotsAccounted
<1>1. IInv => SlotsAccounted
  BY DEF IInv
<1> QED
  BY <1>1, Inductive, PTL

\* Lease, slot and budgets are settled together by every path that ends an
\* attempt (_end_attempt, lose, requeue, _requeue_or_end, reap).
THEOREM AccountsCorrect == Spec => []AttemptsAccounted
<1>1. IInv => AttemptsAccounted
  BY DEF IInv, AttemptsAccounted
<1> QED
  BY <1>1, Inductive, PTL

\* Whatever is left of earlier attempts, one worker at most can write to a job,
\* and it is where the job's status says (check_fence).
THEOREM FencingCorrect == Spec => []OneFencedWriter
<1>1. IInv => OneFencedWriter
  BY DEF IInv, TokensFresh, AttemptInStep, OneFencedWriter, Holds
<1> QED
  BY <1>1, Inductive, PTL

\* The outcomes an attempt can come to from each stage are ones the state
\* machine allows there (state_machine._ALLOWED against pipeline.py).
LEMMA OutcomesAllowed ==
  /\ \A s \in Stages : {"FAILED", "TIMED_OUT", "CANCELLED"} \subseteq AllowedNext(s)
  /\ \A p \in Results : p[2] \in AllowedNext(p[1])
<1> USE DEF Stages, Terminal, Status, Forward, AllowedNext
<1>1. ASSUME NEW s \in Stages PROVE {"FAILED", "TIMED_OUT", "CANCELLED"} \subseteq AllowedNext(s)
  <2>1. s \notin Terminal /\ s \in Status \ Terminal
    OBVIOUS
  <2>2. "FAILED" \in Forward[s]
    BY <2>1
  <2> QED
    BY <2>1, <2>2
<1>2. /\ Forward["DATA_PREPARING"] = {"EVALUATING_VERSIONS", "DECISION_PENDING", "COMPLETED", "FAILED"}
      /\ Forward["DECISION_PENDING"] = {"ADAPTING", "COMPLETED", "FAILED"}
      /\ Forward["VALIDATING_CANDIDATE"] = {"REGISTERING", "COMPLETED", "FAILED"}
      /\ Forward["PROMOTING"] = {"COMPLETED", "ROLLED_BACK", "FAILED"}
  OBVIOUS
<1>3. \A s \in Stages : Forward[s] \subseteq AllowedNext(s)
  BY DEF Forward
<1> HIDE DEF Forward, AllowedNext
<1>4. ASSUME NEW p \in Results PROVE p[2] \in AllowedNext(p[1])
  <2>1. p[2] \in Forward[p[1]] /\ p[1] \in Stages
    BY <1>2 DEF Results
  <2> QED
    BY <1>3, <2>1
<1> QED
  BY <1>1, <1>4

\* No outcome reached under the lease is refused by the state machine.
THEOREM ResultsCorrect == Spec => []ResultsRecordable
<1>1. IInv => ResultsRecordable
  <2> SUFFICES ASSUME IInv, NEW w \in Workers, Holds(w), ending[w] \in Terminal
               PROVE  ending[w] \in AllowedNext(status[running[w]])
    BY DEF ResultsRecordable
  <2>1. status[running[w]] \in Stages /\ stage[w] = status[running[w]] /\ running[w] # NoOne
    BY HoldsRunning DEF IInv, AttemptInStep, Holds
  <2>2. CASE ending[w] \in {"COMPLETED", "ROLLED_BACK"}
    <3>1. <<stage[w], ending[w]>> \in Results
      BY <2>1, <2>2 DEF IInv, AttemptInStep
    <3> QED
      BY <2>1, <3>1, OutcomesAllowed
  <2>3. CASE ending[w] \in {"FAILED", "TIMED_OUT", "CANCELLED"}
    BY <2>1, <2>3, OutcomesAllowed
  <2> QED
    BY <2>2, <2>3 DEF Terminal
<1> QED
  BY <1>1, Inductive, PTL

\* What a step can do to the status of one job.
MoveTo(j, s) ==
  \/ s = status[j]
  \/ status[j] = "NEW" /\ s = "QUEUED"
  \/ status[j] \notin Terminal /\ s = "FAILED"
  \/ status[j] = "QUEUED" /\ s \in {"CANCELLED", "TIMED_OUT", "DATA_PREPARING"}
  \/ /\ status[j] \in Stages /\ s \in Stages
     /\ cancel[j] => status[j] \in RegistryStages
  \/ /\ status[j] \in Stages /\ s \in {"QUEUED"} \union Terminal
     /\ s = "CANCELLED" => status[j] \notin RegistryStages

\* It does nothing else.
LEMMA StatusMoves ==
  ASSUME IInv, [Next]_vars, NEW j \in Jobs
  PROVE  MoveTo(j, status'[j])
<1> DEFINE Goal == MoveTo(j, status'[j])
<1> USE StatusSets DEF jobVars, lockVars
<1>0. DOMAIN status = Jobs /\ status = [k \in Jobs |-> status[k]]
  BY DEF IInv, TypeOK
\* One job moves, and no other.
<1>1. ASSUME NEW k \in Jobs, NEW s, status' = [status EXCEPT ![k] = s], MoveTo(k, s) PROVE Goal
  <2>1. status'[j] = IF k = j THEN s ELSE status[j]
    BY <1>0, <1>1
  <2> QED
    BY <1>1, <2>1 DEF MoveTo
<1>2. ASSUME UNCHANGED status PROVE Goal
  BY <1>2 DEF MoveTo
<1> HIDE DEF Goal
<1>3. ASSUME NEW k \in Jobs, NEW h \in Holders, SubmitCommits(k, h) PROVE Goal
  <2>1. CASE h \in Jobs /\ TakesOver(k, h)
    <3>1. /\ status[k] = "NEW" /\ status[h] \notin Terminal
          /\ status'[j] = IF j = k THEN "QUEUED" ELSE IF j = h THEN "FAILED" ELSE status[j]
      BY <1>0, <2>1 DEF TakesOver
    <3> QED
      BY <3>1 DEF Goal, MoveTo
  <2> QED
    BY <1>1, <1>2, <1>3, <2>1, SubmitCases DEF StoresJob, MoveTo
<1>4. ASSUME NEW k \in Jobs, RequestCancel(k) PROVE Goal
  BY <1>1, <1>2, <1>4 DEF RequestCancel, MoveTo
<1>5. ASSUME NEW k \in Jobs, ReapOverdue(k) PROVE Goal
  BY <1>1, <1>5 DEF ReapOverdue, MoveTo
<1>6. ASSUME NEW w \in Workers, NEW k \in Jobs, Claim(w, k) PROVE Goal
  BY <1>1, <1>6 DEF Claim, MoveTo
<1>7. ASSUME NEW w \in Workers, NEW s \in Stages, ReportStage(w, s) PROVE Goal
  <2>1. cancel[running[w]] => status[running[w]] \in RegistryStages
    BY <1>7 DEF ReportStage, Fence
  <2> QED
    BY <1>1, <1>7, <2>1, ReportsRunning DEF MoveTo
<1>8. ASSUME NEW k \in Jobs, EndsAttempt(k) PROVE Goal
  BY <1>1, <1>8 DEF EndsAttempt, EndAttempt, MoveTo
<1>9. ASSUME ReapSlots \/ QuietStep \/ \E k \in Jobs : SubmitChecks(k) PROVE Goal
  BY <1>2, <1>9 DEF ReapSlots, QuietStep, SubmitChecks
<1>10. ASSUME NEW m \in Models, LockLapses(m) PROVE Goal
  BY <1>2, <1>10 DEF LockLapses
<1>11. ASSUME NEW x \in External, ExternalUnlocks(x) \/ \E m \in Models : ExternalLocks(x, m)
       PROVE  Goal
  BY <1>2, <1>11 DEF ExternalUnlocks, ExternalLocks
<1>12. Goal
  BY <1>3, <1>4, <1>5, <1>6, <1>7, <1>8, <1>9, <1>10, <1>11, JobSteps
<1> QED
  BY <1>12 DEF Goal

\* A job's outcome, once recorded, is never changed by a late worker, a reaper
\* or a takeover.
THEOREM OutcomeCorrect == Spec => OneOutcome
<1>1. IInv /\ [Next]_vars => [\A j \in Jobs : status[j] \in Terminal => status'[j] = status[j]]_vars
  BY StatusMoves, StatusSets DEF MoveTo
<1> QED
  BY <1>1, Inductive, PTL DEF Spec, OneOutcome

\* A cancelled job stays out of the registry, and one in the registry is not
\* recorded as cancelled (check_fence, request_cancel, _Supervisor).
THEOREM CancelCorrect == Spec => CancelKeepsOutOfRegistry
<1>1. IInv /\ [Next]_vars =>
        [\A j \in Jobs :
           /\ cancel[j] /\ status[j] \notin RegistryStages => status'[j] \notin RegistryStages
           /\ status[j] \in RegistryStages => status'[j] # "CANCELLED"]_vars
  BY StatusMoves, StatusSets DEF MoveTo, Terminal, RegistryStages
<1> QED
  BY <1>1, Inductive, PTL DEF Spec, CancelKeepsOutOfRegistry

-----------------------------------------------------------------------------
(* The queue implements JobService, when nobody but submissions takes      *)
(* model locks.                                                            *)

\* How statuses map to the phases of the service.
LEMMA Phases ==
  /\ PhaseOf("NEW") = "none" /\ PhaseOf("QUEUED") = "waiting"
  /\ \A s \in Stages : PhaseOf(s) = "running"
  /\ \A s \in Terminal : PhaseOf(s) = s /\ s \notin {"none", "waiting", "running"}
BY DEF PhaseOf, Stages, Terminal

\* A step that moves one job maps to the step of the service on that job.
LEMMA MovedPhase ==
  ASSUME TypeOK, NEW j \in Jobs, NEW s, status' = [status EXCEPT ![j] = s]
  PROVE  [k \in Jobs |-> PhaseOf(status'[k])]
           = [[k \in Jobs |-> PhaseOf(status[k])] EXCEPT ![j] = PhaseOf(s)]
BY DEF TypeOK

\* Every step of the queue is a step of the service or leaves the phases alone.
LEMMA ServiceStep ==
  ASSUME External = {}, IInv, IInv', [Next]_vars
  PROVE  [Service!Next]_([j \in Jobs |-> PhaseOf(status[j])])
<1> DEFINE phase == [j \in Jobs |-> PhaseOf(status[j])]
           Goal == Service!Next \/ phase' = phase
<1> USE StatusSets, Phases DEF jobVars, lockVars
<1>0. TypeOK
  BY DEF IInv
<1>1. ASSUME UNCHANGED status PROVE Goal
  BY <1>1
<1>2. ASSUME NEW j \in Jobs, NEW s \in Terminal, status' = [status EXCEPT ![j] = s],
             status[j] \in Stages \/ (status[j] = "QUEUED" /\ s \in {"CANCELLED", "TIMED_OUT"})
      PROVE  Goal
  <2>1. phase' = [phase EXCEPT ![j] = s]
    <3>1. phase' = [phase EXCEPT ![j] = PhaseOf(s)]
      BY <1>0, <1>2, MovedPhase
    <3>2. PhaseOf(s) = s
      OBVIOUS
    <3> QED
      BY <3>1, <3>2
  <2>2. phase[j] = "running" \/ (phase[j] = "waiting" /\ s \in {"CANCELLED", "TIMED_OUT"})
    BY <1>2
  <2>3. Service!Terminal = Terminal
    BY DEF Service!Terminal, Terminal
  <2>4. Service!End(j)
    BY <2>1, <2>2, <2>3 DEF Service!End
  <2> QED
    BY <2>4 DEF Service!Next
<1>3. ASSUME NEW j \in Jobs, status[j] = "QUEUED", NEW s \in Stages,
             status' = [status EXCEPT ![j] = s]
      PROVE  Goal
  <2>1. Service!Start(j)
    BY <1>0, <1>3, MovedPhase DEF Service!Start
  <2> QED
    BY <2>1 DEF Service!Next
<1>4. ASSUME NEW j \in Jobs, status[j] \in Stages, status' = [status EXCEPT ![j] = "QUEUED"]
      PROVE  Goal
  <2>1. Service!Retry(j)
    BY <1>0, <1>4, MovedPhase DEF Service!Retry
  <2> QED
    BY <2>1 DEF Service!Next
<1>5. ASSUME NEW j \in Jobs, NEW h \in Holders, SubmitCommits(j, h) PROVE Goal
  <2>1. ASSUME NEW old \in SUBSET {k \in Jobs : ModelOf[k] = ModelOf[j] /\ phase[k] \in {"waiting", "running"}},
               status[j] = "NEW", lock'[ModelOf[j]] = j,
               \A k \in Jobs : status'[k] = IF k = j THEN "QUEUED"
                                            ELSE IF k \in old THEN "FAILED" ELSE status[k]
        PROVE  Goal
    <3>1. phase[j] = "none"
      BY <2>1
    <3>2. phase' = [k \in Jobs |-> IF k = j THEN "waiting"
                                   ELSE IF k \in old THEN "FAILED" ELSE phase[k]]
      BY <2>1
    <3>3. \A k \in Jobs : k # j /\ ModelOf[k] = ModelOf[j] => ~Live(k)'
      BY <2>1 DEF IInv, LockMatchesJobs
    <3>4. \A k \in Jobs : ~Live(k)' => phase'[k] \notin {"waiting", "running"}
      BY DEF Live
    <3>5. Service!Accept(j)
      BY <3>1, <3>2, <3>3, <3>4 DEF Service!Accept, Service!Active
    <3> QED
      BY <3>5 DEF Service!Next
  <2>2. lockLapsed[ModelOf[j]] => lock[ModelOf[j]] = h
    BY <1>5 DEF SubmitCommits, IInv, LocksPlaced
  <2>3. CASE StoresJob(j)
    <3>1. /\ status[j] = "NEW" /\ lock'[ModelOf[j]] = j
          /\ \A k \in Jobs : status'[k] = IF k = j THEN "QUEUED" ELSE status[k]
      BY <1>0, <2>3, ConstantTypes DEF StoresJob, SetLock, TypeOK
    <3> QED
      BY <2>1, <3>1
  <2>4. CASE h \in Jobs /\ TakesOver(j, h)
    <3>1. /\ status[j] = "NEW" /\ lock'[ModelOf[j]] = j
          /\ \A k \in Jobs : status'[k] = IF k = j THEN "QUEUED"
                                          ELSE IF k \in {h} THEN "FAILED" ELSE status[k]
          /\ lock[ModelOf[j]] = h
      BY <1>0, <2>2, <2>4, ConstantTypes DEF TakesOver, SetLock, TypeOK
    <3>2. ModelOf[h] = ModelOf[j] /\ Live(h)
      BY <2>4, <3>1, ConstantTypes DEF IInv, LocksPlaced, LockMatchesJobs
    <3>3. phase[h] \in {"waiting", "running"}
      BY <1>0, <2>4, <3>2 DEF Live, TypeOK
    <3> QED
      BY <2>1, <2>4, <3>1, <3>2, <3>3
  <2> QED
    BY <1>1, <1>5, <2>3, <2>4, SubmitCases
<1> HIDE DEF Goal
<1>6. ASSUME NEW j \in Jobs, RequestCancel(j) PROVE Goal
  BY <1>1, <1>2, <1>6 DEF RequestCancel
<1>7. ASSUME NEW j \in Jobs, ReapOverdue(j) PROVE Goal
  BY <1>2, <1>7 DEF ReapOverdue
<1>8. ASSUME NEW w \in Workers, NEW j \in Jobs, Claim(w, j) PROVE Goal
  BY <1>3, <1>8 DEF Claim
<1>9. ASSUME NEW w \in Workers, NEW s \in Stages, ReportStage(w, s) PROVE Goal
  <2>1. PICK k \in Jobs : status[k] \in Stages /\ status' = [status EXCEPT ![k] = s]
    BY <1>9, ReportsRunning
  <2>2. \A j \in Jobs : status'[j] = IF j = k THEN s ELSE status[j]
    BY <1>0, <2>1 DEF TypeOK
  <2>3. PhaseOf(s) = PhaseOf(status[k])
    BY <2>1
  <2>4. \A j \in Jobs : PhaseOf(status'[j]) = PhaseOf(status[j])
    BY <2>2, <2>3
  <2> QED
    BY <2>4 DEF Goal
<1>10. ASSUME NEW j \in Jobs, EndsAttempt(j) PROVE Goal
  BY <1>2, <1>4, <1>10 DEF EndsAttempt, EndAttempt
<1>11. ASSUME ReapSlots \/ QuietStep \/ \E j \in Jobs : SubmitChecks(j) PROVE Goal
  BY <1>1, <1>11 DEF ReapSlots, QuietStep, SubmitChecks
<1>12. ASSUME NEW m \in Models, LockLapses(m) PROVE Goal
  BY <1>1, <1>12 DEF LockLapses
<1>13. Goal
  BY <1>5, <1>6, <1>7, <1>8, <1>9, <1>10, <1>11, <1>12, JobSteps
<1> QED
  BY <1>13 DEF Goal

\* The queue implements the service its callers rely on: with only submissions
\* taking model locks, a job waits, runs and ends once, and a model has one
\* live job (orchestrator/jobs.py and worker.py as a whole).
THEOREM Refinement == External = {} => (Spec => ImplementsService)
<1> SUFFICES ASSUME External = {} PROVE Spec => ImplementsService
  OBVIOUS
<1>1. Init => Service!Init
  BY Phases DEF Init, Service!Init
<1>2. IInv /\ IInv' /\ [Next]_vars => [Service!Next]_([j \in Jobs |-> PhaseOf(status[j])])
  BY ServiceStep
<1> QED
  BY <1>1, <1>2, Inductive, PTL DEF Spec, ImplementsService, Service!Spec
=============================================================================
