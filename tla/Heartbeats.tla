----------------------------- MODULE Heartbeats -----------------------------
(***************************************************************************)
(* The timing of one worker: how often its loop turns and its supervisor   *)
(* renews the running job's lease, against the lease's lifetime and the    *)
(* age at which the liveness probe gives up (orchestrator/worker.py        *)
(* Worker.run and _Supervisor, core/liveness.py), for every choice of      *)
(* settings that Settings._job_timings_consistent accepts.                 *)
(*                                                                         *)
(* Time is counted in whole units relative to now, so no clock is kept:    *)
(* what is left of the lease, how old the liveness file is, how long until *)
(* the next turn.  A turn may come late by up to its own interval, or its  *)
(* renewal may fail; two such turns do not follow each other.  A turn that *)
(* is not late follows the previous one by exactly its interval.           *)
(***************************************************************************)
EXTENDS Integers

CONSTANT HbMaxUnits     \* the longest interval a setting may name
ASSUME HbBound == HbMaxUnits \in Nat \ {0}

VARIABLES hbSettings,   \* [heartbeat, lease, poll, maxAge] as loaded
          hbBusy,       \* an attempt is running
          hbDue,        \* units until the loop's next turn
          hbSlipped,    \* the last turn was late or failed to renew
          hbLeft,       \* units left of the lease in the database
          hbRenewed,    \* units left of renewed_until, the supervisor's own copy
          hbAge,        \* age of the liveness file
          hbOutcome     \* "running", or how a watcher ended it

hbVars == <<hbSettings, hbBusy, hbDue, hbSlipped, hbLeft, hbRenewed, hbAge, hbOutcome>>

HbLonger(a, b) == IF a > b THEN a ELSE b

(* Mutant: the lease need only outlive one heartbeat.                      *)
HbTimingsOkOnce(s) ==
  /\ s.lease > s.heartbeat
  /\ s.maxAge > 2 * HbLonger(s.heartbeat, s.poll)

(* _job_timings_consistent.                                                *)
HbTimingsOk(s) ==
  /\ s.lease > 2 * s.heartbeat
  /\ s.maxAge > 2 * HbLonger(s.heartbeat, s.poll)

HbInterval == IF hbBusy THEN hbSettings.heartbeat ELSE hbSettings.poll

HbInit ==
  /\ hbSettings \in {s \in [heartbeat : 1..HbMaxUnits, poll : 1..HbMaxUnits,
                            lease : 1..(2 * HbMaxUnits + 1), maxAge : 1..(2 * HbMaxUnits + 1)] :
                       HbTimingsOk(s)}
  /\ hbBusy = FALSE /\ hbDue = 0 /\ hbSlipped = FALSE
  /\ hbLeft = 0 /\ hbRenewed = 0 /\ hbAge = 0 /\ hbOutcome = "running"

(* Worker.beat: the liveness file is touched at every turn.                *)
HbBeat == hbAge' = 0

(* An idle turn finds nothing and waits the poll interval.                 *)
HbIdleTurn ==
  /\ hbOutcome = "running" /\ ~ hbBusy /\ hbDue = 0
  /\ HbBeat /\ hbDue' = hbSettings.poll /\ hbSlipped' = FALSE
  /\ UNCHANGED <<hbSettings, hbBusy, hbLeft, hbRenewed, hbOutcome>>

(* An idle turn claims a job; the executor's first checkpoint comes a      *)
(* heartbeat later.                                                        *)
HbClaim ==
  /\ hbOutcome = "running" /\ ~ hbBusy /\ hbDue = 0
  /\ HbBeat /\ hbBusy' = TRUE /\ hbDue' = hbSettings.heartbeat /\ hbSlipped' = FALSE
  /\ hbLeft' = hbSettings.lease /\ hbRenewed' = hbSettings.lease
  /\ UNCHANGED <<hbSettings, hbOutcome>>

(* A checkpoint that renews the lease.                                     *)
HbRenew ==
  /\ hbOutcome = "running" /\ hbBusy /\ hbDue = 0
  /\ HbBeat /\ hbDue' = hbSettings.heartbeat /\ hbSlipped' = FALSE
  /\ hbLeft' = hbSettings.lease /\ hbRenewed' = hbSettings.lease
  /\ UNCHANGED <<hbSettings, hbBusy, hbOutcome>>

(* A checkpoint that cannot reach the database: the attempt is stopped     *)
(* only when the lease has run out by the supervisor's own count.          *)
HbRenewFails ==
  /\ hbOutcome = "running" /\ hbBusy /\ hbDue = 0 /\ ~ hbSlipped
  /\ HbBeat /\ hbDue' = hbSettings.heartbeat /\ hbSlipped' = TRUE
  /\ hbOutcome' = IF hbRenewed <= 0 THEN "attempt_stopped" ELSE "running"
  /\ UNCHANGED <<hbSettings, hbBusy, hbLeft, hbRenewed>>

(* A turn that is due does not come for another interval at most.          *)
HbLate ==
  /\ hbOutcome = "running" /\ hbDue = 0 /\ ~ hbSlipped
  /\ hbDue' \in 1..HbInterval /\ hbSlipped' = TRUE
  /\ UNCHANGED <<hbSettings, hbBusy, hbLeft, hbRenewed, hbAge, hbOutcome>>

(* The attempt ends between two checkpoints; the loop turns at once.       *)
HbAttemptEnds ==
  /\ hbOutcome = "running" /\ hbBusy
  /\ hbBusy' = FALSE /\ hbDue' = 0 /\ hbLeft' = 0 /\ hbRenewed' = 0
  /\ UNCHANGED <<hbSettings, hbSlipped, hbAge, hbOutcome>>

HbTick ==
  /\ hbOutcome = "running" /\ hbDue > 0
  /\ hbDue' = hbDue - 1 /\ hbAge' = hbAge + 1
  /\ hbLeft' = IF hbBusy THEN hbLeft - 1 ELSE 0
  /\ hbRenewed' = IF hbBusy THEN hbRenewed - 1 ELSE 0
  /\ UNCHANGED <<hbSettings, hbBusy, hbSlipped, hbOutcome>>

(* What another worker's reaper and the container's probe look at.         *)
HbReapable == hbBusy /\ hbLeft < 0
HbUnhealthy == hbAge > hbSettings.maxAge

HbNext ==
  \/ HbIdleTurn \/ HbClaim \/ HbRenew \/ HbRenewFails
  \/ HbLate \/ HbAttemptEnds \/ HbTick

HbSpec == HbInit /\ [][HbNext]_hbVars

HbTypeOK ==
  /\ HbTimingsOk(hbSettings) /\ hbBusy \in BOOLEAN /\ hbSlipped \in BOOLEAN
  /\ hbDue \in 0..HbMaxUnits /\ hbLeft \in Int /\ hbRenewed \in Int /\ hbAge \in Nat
  /\ hbOutcome \in {"running", "attempt_stopped"}

(***************************************************************************)
(* A worker one of whose turns at a time comes late or fails to renew is   *)
(* never taken for dead: its reaper-visible lease does not run out, it     *)
(* does not stop its own attempt, and its liveness file never exceeds the  *)
(* probe's age, for every setting the validator accepts (the validator's   *)
(* message: "or one late heartbeat loses a healthy job's lease").          *)
(***************************************************************************)
HbStaysAlive == ~ HbReapable /\ ~ HbUnhealthy /\ hbOutcome = "running"
=============================================================================
