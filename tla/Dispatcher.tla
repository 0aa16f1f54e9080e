----------------------------- MODULE Dispatcher -----------------------------
(***************************************************************************)
(* Delivering the notification outbox to the sinks                         *)
(* (notifications/dispatcher.py, events.record_event, service.redrive).    *)
(*                                                                         *)
(* A delivery is a row; dispatchers claim batches of due rows under a      *)
(* lease, send each outside any transaction and record the answer if the   *)
(* row is still theirs.  One action is one transaction or one sink call.   *)
(* Clocks are abstracted: due says that next_attempt_at has passed, which  *)
(* happens at some time after a backoff, or when a lease runs out.         *)
(***************************************************************************)
EXTENDS Integers, FiniteSets

CONSTANTS
  Deliveries,    \* rows of notification_delivery
  Sinks, SinkOf, \* the sink each row is for
  Workers,       \* dispatchers, one per process
  NoOne, Gone,   \* leased_by: NULL, and the id of a dispatcher that died
  MaxAttempts,   \* NOTIFICATION_MAX_ATTEMPTS
  Threshold,     \* NOTIFICATION_BREAKER_FAILURES
  BatchSize,     \* NOTIFICATION_DISPATCH_BATCH
  MaxFaults,     \* bound: crashes, failed polls and leases that run out in use
  MaxRedrives    \* bound: redrives

ASSUME DispatcherConstants ==
  /\ SinkOf \in [Deliveries -> Sinks]
  /\ {NoOne, Gone} \cap Workers = {} /\ NoOne # Gone
  /\ NoOne \notin Deliveries /\ IsFiniteSet(Workers)
  /\ {MaxAttempts, Threshold, BatchSize} \subseteq Nat \ {0}
  /\ {MaxFaults, MaxRedrives} \subseteq Nat

VARIABLES
  status, attempts, due, leasedBy,  \* the rows
  batch,     \* rows a dispatcher claimed and has not come to
  cur,       \* the row it is sending, and
  try,       \*   the attempt it read for it (message.attempt)
  answer,    \*   and what the sink said
  circuit,   \* its breaker, per sink
  faults, redrives,
  \* History: sends and the sink's answers since the last redrive, rows a sink
  \* refused for good, rows in hand whose lease ran out.
  sends, heard, refused, late

rows    == <<status, attempts, due, leasedBy>>
hands   == <<batch, cur, try, answer>>
bounds  == <<faults, redrives>>
history == <<sends, heard, refused>>
vars == <<rows, hands, circuit, bounds, history, late>>

Closed == [failures |-> 0, open |-> FALSE, ripe |-> FALSE, trial |-> FALSE]

Answers == {"none", "sending", "accepted", "failed", "refused"}

TypeOK ==
  /\ status \in [Deliveries -> {"NEW", "PENDING", "DELIVERED", "DEAD"}]
  /\ attempts \in [Deliveries -> Nat] /\ due \in [Deliveries -> BOOLEAN]
  /\ leasedBy \in [Deliveries -> Workers \union {NoOne, Gone}]
  /\ batch \in [Workers -> SUBSET Deliveries] /\ late \in [Workers -> SUBSET Deliveries]
  /\ cur \in [Workers -> Deliveries \union {NoOne}]
  /\ try \in [Workers -> Nat] /\ answer \in [Workers -> Answers]
  /\ circuit \in [Workers -> [Sinks -> [failures : 0 .. Threshold, open : BOOLEAN,
                                        ripe : BOOLEAN, trial : BOOLEAN]]]
  /\ faults \in 0 .. MaxFaults /\ redrives \in 0 .. MaxRedrives
  /\ refused \subseteq Deliveries
  /\ sends \in [Deliveries -> Nat] /\ heard \in [Deliveries -> SUBSET Answers]

Init ==
  /\ status = [d \in Deliveries |-> "NEW"]
  /\ attempts = [d \in Deliveries |-> 0] /\ due = [d \in Deliveries |-> FALSE]
  /\ leasedBy = [d \in Deliveries |-> NoOne]
  /\ batch = [w \in Workers |-> {}] /\ late = [w \in Workers |-> {}]
  /\ cur = [w \in Workers |-> NoOne] /\ try = [w \in Workers |-> 0]
  /\ answer = [w \in Workers |-> "none"]
  /\ circuit = [w \in Workers |-> [s \in Sinks |-> Closed]]
  /\ faults = 0 /\ redrives = 0
  /\ refused = {} /\ sends = [d \in Deliveries |-> 0] /\ heard = [d \in Deliveries |-> {}]

InHand(w) == batch[w] \union ({cur[w]} \ {NoOne})
IsIdle(w) == batch[w] = {} /\ cur[w] = NoOne

-----------------------------------------------------------------------------
(* The rows outside the dispatchers.                                       *)

\* record_event, in the transaction of the change it reports.
Record(d) ==
  /\ status[d] = "NEW"
  /\ status' = [status EXCEPT ![d] = "PENDING"]
  /\ due' = [due EXCEPT ![d] = TRUE]
  /\ UNCHANGED <<attempts, leasedBy, hands, circuit, bounds, history, late>>

\* _redrive_rows: a dead row is due again with a fresh budget.
Redrive(d) ==
  /\ status[d] = "DEAD" /\ redrives < MaxRedrives
  /\ status' = [status EXCEPT ![d] = "PENDING"]
  /\ attempts' = [attempts EXCEPT ![d] = 0]
  /\ due' = [due EXCEPT ![d] = TRUE]
  /\ leasedBy' = [leasedBy EXCEPT ![d] = NoOne]
  /\ redrives' = redrives + 1
  /\ sends' = [sends EXCEPT ![d] = 0] /\ heard' = [heard EXCEPT ![d] = {}]
  /\ refused' = refused \ {d}
  /\ UNCHANGED <<hands, circuit, faults, late>>

\* next_attempt_at passes for a row nobody works on: a backoff, an open
\* circuit's wait, or the lease of a dispatcher that dropped it.
BecomesDue(d) ==
  /\ status[d] = "PENDING" /\ ~due[d]
  /\ \A w \in Workers : leasedBy[d] = w => d \notin InHand(w)
  /\ due' = [due EXCEPT ![d] = TRUE]
  /\ UNCHANGED <<status, attempts, leasedBy, hands, circuit, bounds, history, late>>

\* The lease runs out before its dispatcher comes to the row or has an answer.
LeaseRunsOut(w, d) ==
  /\ d \in InHand(w) \ late[w] /\ faults < MaxFaults
  /\ due' = [due EXCEPT ![d] = TRUE]
  /\ late' = [late EXCEPT ![w] = @ \union {d}]
  /\ faults' = faults + 1
  /\ UNCHANGED <<status, attempts, leasedBy, hands, circuit, redrives, history>>

-----------------------------------------------------------------------------
(* The circuit breaker.                                                    *)

\* is_open, and the condition under which allow refuses.
IsOpen(c) == c.open /\ (c.trial \/ ~c.ripe)

\* allow: the first call after the reset period is the trial.
Allowed(c) == IF c.open THEN [c EXCEPT !.trial = TRUE] ELSE c

\* failure (the count stops mattering at the threshold).
Failure(c) ==
  LET n == IF c.failures < Threshold THEN c.failures + 1 ELSE c.failures
  IN IF c.trial \/ n >= Threshold
     THEN [failures |-> n, open |-> TRUE, ripe |-> FALSE, trial |-> FALSE]
     ELSE [c EXCEPT !.failures = n]

\* The reset period of an open circuit passes.
Ripens(w, s) ==
  /\ circuit[w][s].open /\ ~circuit[w][s].ripe
  /\ circuit' = [circuit EXCEPT ![w][s].ripe = TRUE]
  /\ UNCHANGED <<rows, hands, bounds, history, late>>

-----------------------------------------------------------------------------
(* A dispatcher's poll (run_once).                                         *)

\* Mutant: a row must not be leased by anybody, even when its lease ran out.
ClaimableUnleased(w) ==
  {d \in Deliveries : status[d] = "PENDING" /\ due[d] /\ leasedBy[d] = NoOne
                      /\ ~IsOpen(circuit[w][SinkOf[d]])}

\* What a poll's query selects.
Claimable(w) ==
  {d \in Deliveries : status[d] = "PENDING" /\ due[d] /\ ~IsOpen(circuit[w][SinkOf[d]])}

\* _claim: the update is conditional row by row, so a row goes to the first
\* dispatcher; its attempt is counted here.
Claim(w) ==
  /\ IsIdle(w)
  /\ \E S \in SUBSET Claimable(w) :
       /\ S # {} /\ Cardinality(S) <= BatchSize
       /\ S = Claimable(w) \/ Cardinality(S) = BatchSize
       /\ attempts' = [d \in Deliveries |-> IF d \in S THEN attempts[d] + 1 ELSE attempts[d]]
       /\ due' = [d \in Deliveries |-> due[d] /\ d \notin S]
       /\ leasedBy' = [d \in Deliveries |-> IF d \in S THEN w ELSE leasedBy[d]]
       /\ batch' = [batch EXCEPT ![w] = S]
  /\ UNCHANGED <<status, cur, try, answer, circuit, bounds, history, late>>

\* _deliver up to the call: the message carries the row's attempts.
Send(w, d) ==
  /\ cur[w] = NoOne /\ d \in batch[w] /\ ~IsOpen(circuit[w][SinkOf[d]])
  /\ batch' = [batch EXCEPT ![w] = @ \ {d}]
  /\ cur' = [cur EXCEPT ![w] = d]
  /\ try' = [try EXCEPT ![w] = attempts[d]]
  /\ answer' = [answer EXCEPT ![w] = "sending"]
  /\ circuit' = [circuit EXCEPT ![w][SinkOf[d]] = Allowed(@)]
  /\ sends' = [sends EXCEPT ![d] = @ + 1]
  /\ UNCHANGED <<rows, bounds, heard, refused, late>>

\* Mutant: the attempt counted at the claim is not given back.
ReleaseSpends(w, d) ==
  /\ cur[w] = NoOne /\ d \in batch[w] /\ IsOpen(circuit[w][SinkOf[d]])
  /\ batch' = [batch EXCEPT ![w] = @ \ {d}] /\ late' = [late EXCEPT ![w] = @ \ {d}]
  /\ IF leasedBy[d] = w
     THEN /\ due' = [due EXCEPT ![d] = FALSE]
          /\ leasedBy' = [leasedBy EXCEPT ![d] = NoOne]
     ELSE UNCHANGED <<due, leasedBy>>
  /\ UNCHANGED <<status, attempts, cur, try, answer, circuit, bounds, history>>

\* _release: the circuit opened since the claim; the row waits, no attempt spent.
Release(w, d) ==
  /\ cur[w] = NoOne /\ d \in batch[w] /\ IsOpen(circuit[w][SinkOf[d]])
  /\ batch' = [batch EXCEPT ![w] = @ \ {d}] /\ late' = [late EXCEPT ![w] = @ \ {d}]
  /\ IF leasedBy[d] = w
     THEN /\ due' = [due EXCEPT ![d] = FALSE]
          /\ leasedBy' = [leasedBy EXCEPT ![d] = NoOne]
          /\ attempts' = [attempts EXCEPT ![d] = @ - 1]
     ELSE UNCHANGED <<due, leasedBy, attempts>>
  /\ UNCHANGED <<status, cur, try, answer, circuit, bounds, history>>

\* The sink accepts, fails (down, timeout, 5xx, 429: it may have taken the
\* message all the same) or refuses for good; the breaker is told.
Answered(w) ==
  /\ answer[w] = "sending"
  /\ \E a \in {"accepted", "failed", "refused"} :
       /\ answer' = [answer EXCEPT ![w] = a]
       /\ circuit' = [circuit EXCEPT ![w][SinkOf[cur[w]]] =
                        IF a = "accepted" THEN Closed ELSE Failure(@)]
       /\ heard' = [heard EXCEPT ![cur[w]] = @ \union {a}]
  /\ UNCHANGED <<rows, batch, cur, try, bounds, sends, refused, late>>

\* Mutant: the outcome is recorded whoever has the row.
IsOursUnchecked(w) == status[cur[w]] = "PENDING"

\* The condition of _finish: the row was not claimed again.
IsOurs(w) == leasedBy[cur[w]] = w /\ status[cur[w]] = "PENDING"

\* The status _deliver asks _finish to record.
Outcome(w) ==
  IF answer[w] = "accepted" THEN "DELIVERED"
  ELSE IF answer[w] = "failed" /\ try[w] < MaxAttempts THEN "PENDING" ELSE "DEAD"

\* _finish; the dispatcher goes on with its batch whether it was recorded or not.
Finish(w) ==
  /\ cur[w] # NoOne /\ answer[w] # "sending"
  /\ IF IsOurs(w)
     THEN /\ status' = [status EXCEPT ![cur[w]] = Outcome(w)]
          /\ leasedBy' = [leasedBy EXCEPT ![cur[w]] = NoOne]
          /\ due' = [due EXCEPT ![cur[w]] = FALSE]
          /\ refused' = IF answer[w] = "refused" THEN refused \union {cur[w]} ELSE refused
     ELSE UNCHANGED <<status, leasedBy, due, refused>>
  /\ cur' = [cur EXCEPT ![w] = NoOne] /\ answer' = [answer EXCEPT ![w] = "none"]
  /\ try' = [try EXCEPT ![w] = 0]
  /\ late' = [late EXCEPT ![w] = @ \ {cur[w]}]
  /\ UNCHANGED <<attempts, batch, circuit, bounds, sends, heard>>

LetGo(w) ==
  /\ batch' = [batch EXCEPT ![w] = {}] /\ cur' = [cur EXCEPT ![w] = NoOne]
  /\ try' = [try EXCEPT ![w] = 0] /\ answer' = [answer EXCEPT ![w] = "none"]
  /\ late' = [late EXCEPT ![w] = {}]
  /\ faults < MaxFaults /\ faults' = faults + 1
  /\ UNCHANGED <<status, attempts, due, redrives, history>>

\* run_forever: a poll fails (database down) and what is left of it is dropped.
PollFails(w) ==
  ~IsIdle(w) /\ answer[w] # "sending" /\ LetGo(w) /\ UNCHANGED <<leasedBy, circuit>>

\* The process dies; the next one has another worker_id and new breakers.
Crash(w) ==
  /\ ~IsIdle(w) /\ LetGo(w)
  /\ leasedBy' = [d \in Deliveries |-> IF leasedBy[d] = w THEN Gone ELSE leasedBy[d]]
  /\ circuit' = [circuit EXCEPT ![w] = [s \in Sinks |-> Closed]]

Poll(w) ==
  \/ Claim(w) \/ Answered(w) \/ Finish(w) \/ PollFails(w) \/ Crash(w)
  \/ \E d \in Deliveries : Send(w, d) \/ Release(w, d) \/ LeaseRunsOut(w, d)
  \/ \E s \in Sinks : Ripens(w, s)

Next ==
  \/ \E d \in Deliveries : Record(d) \/ Redrive(d) \/ BecomesDue(d)
  \/ \E w \in Workers : Poll(w)

Spec == Init /\ [][Next]_vars

-----------------------------------------------------------------------------
(* What the outbox promises.                                               *)

\* The budget is what the sink sees (dispatcher.py: no attempt is spent on an
\* open circuit, NOTIFICATION_MAX_ATTEMPTS is the limit): since its last
\* redrive a row was sent at most that often and, unless refused for good, is
\* dead only after that many sends, give or take one for each fault.
BudgetMeansSends ==
  \A d \in Deliveries :
    /\ sends[d] <= MaxAttempts + faults
    /\ status[d] = "DEAD" /\ d \notin refused => sends[d] + faults >= MaxAttempts

\* A dispatcher that works on a row within its lease has it for itself,
\* whatever dispatchers with expired leases record meanwhile.
OwnerUndisturbed ==
  \A w \in Workers : \A d \in InHand(w) \ late[w] :
    leasedBy[d] = w /\ status[d] = "PENDING"

\* What a row's lease and attempts say is true of its sends: its owner has it
\* for itself, and each attempt is a send, but for faults (_claim, _release,
\* _finish, _redrive_rows).
SendsAccounted == OwnerUndisturbed /\ BudgetMeansSends

\* A circuit is half-open only while its trial is on its way, so no sink is cut
\* off for good.
TrialInFlight ==
  \A w \in Workers, s \in Sinks :
    circuit[w][s].trial => answer[w] = "sending" /\ SinkOf[cur[w]] = s

\* dispatcher.py: "The attempt is counted at the claim, so a message that
\* crashes its dispatcher still runs out of attempts".
RunsOutOfAttempts == \A d \in Deliveries : attempts[d] <= MaxAttempts

\* A row says what became of its message (dispatcher._finish): it implements
\* the outbox, so that no late, dead or doubled dispatcher marks a row
\* DELIVERED that its sink has not accepted since it was queued, or DEAD that
\* was not turned down, and settled rows stay.
Service == INSTANCE Outbox
ImplementsOutbox == Service!Spec

\* Every poll goes on (each dispatcher's loop survives its failures, sink calls
\* time out), backoffs and leases end, reset periods pass.
Fairness ==
  /\ \A w \in Workers :
       /\ WF_vars(Claim(w)) /\ WF_vars(Answered(w)) /\ WF_vars(Finish(w))
       /\ WF_vars(\E d \in Deliveries : Send(w, d) \/ Release(w, d))
       /\ \A s \in Sinks : WF_vars(Ripens(w, s))
  /\ \A d \in Deliveries : WF_vars(BecomesDue(d))

FairSpec == Spec /\ Fairness

\* Every recorded event is delivered or dead-lettered in the end: no order of
\* crashes, open circuits, late answers and redrives leaves a row waiting for a
\* dispatcher that is gone.
EveryDeliverySettles ==
  \A d \in Deliveries : status[d] = "PENDING" ~> status[d] \in {"DELIVERED", "DEAD"}
=============================================================================
