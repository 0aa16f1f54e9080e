-------------------------- MODULE DispatcherProofs --------------------------
(***************************************************************************)
(* Safety of Dispatcher for any number of deliveries, sinks, dispatchers   *)
(* and faults.                                                             *)
(***************************************************************************)
EXTENDS Dispatcher, FiniteSetTheorems, TLAPS

USE DispatcherConstants DEF rows, hands, bounds, history

\* A dispatcher's batch, its current row and the rows it is late with fit
\* together, and it has an answer, or waits for one, only while it has a row.
HandsFit ==
  \A w \in Workers :
    /\ cur[w] \notin batch[w] /\ late[w] \subseteq InHand(w)
    /\ cur[w] = NoOne <=> answer[w] = "none"

\* Nobody else can claim a row that is worked on within its lease.
HandsHidden == \A w \in Workers : \A d \in InHand(w) \ late[w] : ~due[d]

\* A leased row has an attempt to give back.
LeasedCounted == \A d \in Deliveries : leasedBy[d] # NoOne => attempts[d] > 0

DInv ==
  TypeOK /\ HandsFit /\ HandsHidden /\ LeasedCounted /\ OwnerUndisturbed /\ TrialInFlight

-----------------------------------------------------------------------------
(* The breaker.                                                            *)

Circuits == [failures : 0 .. Threshold, open : BOOLEAN, ripe : BOOLEAN, trial : BOOLEAN]

\* A failure keeps a circuit's type and ends its trial.
LEMMA FailureEndsTrial ==
  ASSUME NEW c \in Circuits
  PROVE  Failure(c) \in Circuits /\ ~Failure(c).trial
  BY DEF Failure, Circuits

\* Granting a call keeps a circuit's type.
LEMMA AllowedTyped == ASSUME NEW c \in Circuits PROVE Allowed(c) \in Circuits
  BY DEF Allowed, Circuits

\* A new circuit is typed and has no trial.
LEMMA ClosedTyped == Closed \in Circuits /\ ~Closed.trial
  BY DEF Closed, Circuits

-----------------------------------------------------------------------------
(* Every step keeps the invariant.                                         *)

\* DInv holds before the first event.
LEMMA DInit == Init => DInv
  BY ClosedTyped
  DEF Init, DInv, TypeOK, HandsFit, HandsHidden, LeasedCounted, OwnerUndisturbed,
      TrialInFlight, InHand, Circuits, Answers

\* The steps that leave hands alone.
LEMMA RowSteps ==
  ASSUME DInv, NEW d \in Deliveries, Record(d) \/ Redrive(d) \/ BecomesDue(d)
  PROVE  DInv'
  <1>1. TypeOK'
    <2>1. CASE Record(d) BY <2>1 DEF DInv, TypeOK, Record
    <2>2. CASE Redrive(d) BY <2>2 DEF DInv, TypeOK, Redrive
    <2>3. CASE BecomesDue(d) BY <2>3 DEF DInv, TypeOK, BecomesDue
    <2> QED BY <2>1, <2>2, <2>3
  <1>2. HandsFit' /\ TrialInFlight'
    BY DEF DInv, HandsFit, TrialInFlight, InHand, Record, Redrive, BecomesDue
  <1>3. HandsHidden' /\ OwnerUndisturbed'
    <2> USE DEF DInv, TypeOK, HandsHidden, OwnerUndisturbed, InHand
    <2>1. CASE Record(d) BY <2>1 DEF Record
    <2>2. CASE Redrive(d) BY <2>2 DEF Redrive
    <2>3. CASE BecomesDue(d) BY <2>3 DEF BecomesDue
    <2> QED BY <2>1, <2>2, <2>3
  <1>4. LeasedCounted'
    BY DEF DInv, TypeOK, LeasedCounted, Record, Redrive, BecomesDue
  <1> QED BY <1>1, <1>2, <1>3, <1>4 DEF DInv

\* Types.  Releasing a row takes an attempt back, which a leased row has.
LEMMA PollTypes == ASSUME DInv, NEW w \in Workers, Poll(w) PROVE TypeOK'
  <1> USE DEF DInv, TypeOK, Answers
  <1>1. CASE Claim(w) BY <1>1 DEF Claim, Claimable
  <1>2. CASE Answered(w)
    <2>1. cur[w] \in Deliveries BY <1>2 DEF Answered, HandsFit
    <2>2. circuit[w][SinkOf[cur[w]]] \in Circuits BY <2>1 DEF Circuits
    <2>3. circuit' \in [Workers -> [Sinks -> Circuits]]
      BY <1>2, <2>1, <2>2, FailureEndsTrial, ClosedTyped DEF Answered, Circuits
    <2>4. heard' \in [Deliveries -> SUBSET Answers] BY <1>2, <2>1 DEF Answered
    <2>5. answer' \in [Workers -> Answers] BY <1>2 DEF Answered
    <2> QED BY <1>2, <2>3, <2>4, <2>5 DEF Answered, Circuits
  <1>3. CASE Finish(w)
    <2>1. Outcome(w) \in {"PENDING", "DELIVERED", "DEAD"} BY DEF Outcome
    <2>2. CASE IsOurs(w)
      <3>1. cur[w] \in Deliveries BY <1>3 DEF Finish
      <3>2. status' \in [Deliveries -> {"NEW", "PENDING", "DELIVERED", "DEAD"}]
        BY <1>3, <2>1, <2>2 DEF Finish
      <3>3. refused' \subseteq Deliveries BY <1>3, <2>2, <3>1 DEF Finish
      <3>4. UNCHANGED <<attempts, batch, circuit, bounds, sends, heard>>
        BY <1>3 DEF Finish
      <3>5. /\ due' \in [Deliveries -> BOOLEAN]
            /\ leasedBy' \in [Deliveries -> Workers \union {NoOne, Gone}]
        BY <1>3, <2>2 DEF Finish
      <3>6. /\ cur' \in [Workers -> Deliveries \union {NoOne}] /\ try' \in [Workers -> Nat]
            /\ answer' \in [Workers -> Answers] /\ late' \in [Workers -> SUBSET Deliveries]
        BY <1>3 DEF Finish
      <3> QED BY <3>2, <3>3, <3>4, <3>5, <3>6
    <2>3. CASE ~IsOurs(w) BY <1>3, <2>3 DEF Finish
    <2> QED BY <2>2, <2>3
  <1>4. CASE PollFails(w) BY <1>4 DEF PollFails, LetGo
  <1>5. CASE Crash(w)
    <2>1. circuit' \in [Workers -> [Sinks -> Circuits]]
      BY <1>5, ClosedTyped DEF Crash, Circuits
    <2> QED BY <1>5, <2>1 DEF Crash, LetGo, Circuits
  <1>6. CASE \E d \in Deliveries : Send(w, d)
    <2> PICK d \in Deliveries : Send(w, d) BY <1>6
    <2>1. circuit[w][SinkOf[d]] \in Circuits BY DEF Circuits
    <2>2. circuit' \in [Workers -> [Sinks -> Circuits]]
      BY <2>1, AllowedTyped DEF Send, Circuits
    <2> QED BY <2>2 DEF Send, Circuits
  <1>7. CASE \E d \in Deliveries : Release(w, d)
    <2> PICK d \in Deliveries : Release(w, d) BY <1>7
    <2>1. CASE leasedBy[d] = w
      <3>1. attempts[d] - 1 \in Nat BY <2>1 DEF LeasedCounted
      <3>2. attempts' \in [Deliveries -> Nat] BY <2>1, <3>1 DEF Release
      <3>3. due' = [due EXCEPT ![d] = FALSE] /\ leasedBy' = [leasedBy EXCEPT ![d] = NoOne]
        BY <2>1 DEF Release
      <3>4. /\ due' \in [Deliveries -> BOOLEAN]
            /\ leasedBy' \in [Deliveries -> Workers \union {NoOne, Gone}]
        BY <3>3
      <3>5. /\ batch' \in [Workers -> SUBSET Deliveries]
            /\ late' \in [Workers -> SUBSET Deliveries]
        BY DEF Release
      <3>6. UNCHANGED <<status, cur, try, answer, circuit, bounds, history>> BY DEF Release
      <3> QED BY <3>2, <3>4, <3>5, <3>6
    <2>2. CASE leasedBy[d] # w BY <2>2 DEF Release
    <2> QED BY <2>1, <2>2
  <1>8. CASE \E d \in Deliveries : LeaseRunsOut(w, d) BY <1>8 DEF LeaseRunsOut
  <1>9. CASE \E s \in Sinks : Ripens(w, s)
    <2> PICK s \in Sinks : Ripens(w, s) BY <1>9
    <2>1. circuit[w][s] \in Circuits BY DEF Circuits
    <2>2. [circuit[w][s] EXCEPT !.ripe = TRUE] \in Circuits BY <2>1 DEF Circuits
    <2>3. circuit' = [circuit EXCEPT ![w] = [circuit[w] EXCEPT
                                        ![s] = [circuit[w][s] EXCEPT !.ripe = TRUE]]]
      BY DEF Ripens
    <2>4. circuit' \in [Workers -> [Sinks -> Circuits]] BY <2>2, <2>3 DEF Circuits
    <2> QED BY <2>4 DEF Ripens, Circuits
  <1> QED BY <1>1, <1>2, <1>3, <1>4, <1>5, <1>6, <1>7, <1>8, <1>9 DEF Poll

\* Hands.
LEMMA PollHands == ASSUME DInv, NEW w \in Workers, Poll(w) PROVE HandsFit'
  <1> USE DEF DInv, TypeOK, HandsFit, InHand
  <1>1. CASE Claim(w) BY <1>1 DEF Claim, IsIdle, Claimable
  <1>2. CASE Answered(w) BY <1>2 DEF Answered
  <1>3. CASE Finish(w) BY <1>3 DEF Finish
  <1>4. CASE PollFails(w) BY <1>4 DEF PollFails, LetGo
  <1>5. CASE Crash(w) BY <1>5 DEF Crash, LetGo
  <1>6. CASE \E d \in Deliveries : Send(w, d) BY <1>6 DEF Send
  <1>7. CASE \E d \in Deliveries : Release(w, d) BY <1>7 DEF Release
  <1>8. CASE \E d \in Deliveries : LeaseRunsOut(w, d) BY <1>8 DEF LeaseRunsOut
  <1>9. CASE \E s \in Sinks : Ripens(w, s) BY <1>9 DEF Ripens
  <1> QED BY <1>1, <1>2, <1>3, <1>4, <1>5, <1>6, <1>7, <1>8, <1>9 DEF Poll

\* Rows and leases.  A claim meets no row that is worked on within its lease,
\* because none of them is due; a release or an outcome is written only by the
\* row's own dispatcher.
LEMMA PollLeases ==
  ASSUME DInv, NEW w \in Workers, Poll(w)
  PROVE  HandsHidden' /\ OwnerUndisturbed' /\ LeasedCounted'
  <1> USE DEF DInv, TypeOK, HandsFit, HandsHidden, OwnerUndisturbed, LeasedCounted, InHand
  <1>1. CASE Claim(w)
    <2> PICK S \in SUBSET Claimable(w) :
          /\ attempts' = [d \in Deliveries |-> IF d \in S THEN attempts[d] + 1 ELSE attempts[d]]
          /\ due' = [d \in Deliveries |-> due[d] /\ d \notin S]
          /\ leasedBy' = [d \in Deliveries |-> IF d \in S THEN w ELSE leasedBy[d]]
          /\ batch' = [batch EXCEPT ![w] = S]
      BY <1>1 DEF Claim
    <2>1. \A d \in S : d \in Deliveries /\ status[d] = "PENDING" /\ due[d] BY DEF Claimable
    <2>2. cur[w] = NoOne /\ UNCHANGED <<status, cur, late>> BY <1>1 DEF Claim, IsIdle
    <2>3. LeasedCounted' BY <2>1
    <2>4. HandsHidden'
      <3> SUFFICES ASSUME NEW v \in Workers, NEW d \in InHand(v)' \ late'[v] PROVE ~due'[d]
        OBVIOUS
      <3>1. CASE v = w
        <4>1. d \in S BY <3>1, <2>2
        <4>2. d \in Deliveries BY <4>1, <2>1
        <4> QED BY <4>1, <4>2
      <3>2. CASE v # w
        <4>1. d \in InHand(v) \ late[v] BY <3>2, <2>2
        <4>2. d \in Deliveries /\ ~due[d] BY <4>1
        <4> QED BY <4>2
      <3> QED BY <3>1, <3>2
    <2>5. OwnerUndisturbed' BY <2>1, <2>2
    <2> QED BY <2>3, <2>4, <2>5
  <1>2. CASE Answered(w) BY <1>2 DEF Answered
  <1>3. CASE Finish(w) BY <1>3 DEF Finish, IsOurs
  <1>4. CASE PollFails(w) BY <1>4 DEF PollFails, LetGo
  <1>5. CASE Crash(w) BY <1>5 DEF Crash, LetGo
  <1>6. CASE \E d \in Deliveries : Send(w, d) BY <1>6 DEF Send
  <1>7. CASE \E d \in Deliveries : Release(w, d)
    <2> PICK d \in Deliveries : Release(w, d) BY <1>7
    <2>1. CASE leasedBy[d] = w
      <3>1. attempts[d] - 1 \in Int /\ leasedBy'[d] = NoOne BY <2>1 DEF Release
      <3>2. LeasedCounted'
        <4> SUFFICES ASSUME NEW e \in Deliveries, leasedBy'[e] # NoOne PROVE attempts'[e] > 0
          OBVIOUS
        <4>1. e # d BY <3>1
        <4>2. attempts'[e] = attempts[e] /\ leasedBy'[e] = leasedBy[e]
          BY <2>1, <4>1 DEF Release
        <4> QED BY <4>2
      <3>3. HandsHidden' BY <2>1 DEF Release
      <3>4. OwnerUndisturbed' BY <2>1 DEF Release
      <3> QED BY <3>2, <3>3, <3>4
    <2>2. CASE leasedBy[d] # w BY <2>2 DEF Release
    <2> QED BY <2>1, <2>2
  <1>8. CASE \E d \in Deliveries : LeaseRunsOut(w, d) BY <1>8 DEF LeaseRunsOut
  <1>9. CASE \E s \in Sinks : Ripens(w, s) BY <1>9 DEF Ripens
  <1> QED BY <1>1, <1>2, <1>3, <1>4, <1>5, <1>6, <1>7, <1>8, <1>9 DEF Poll

\* Trials.  A dispatcher sends one message at a time, so the trial its answer
\* ends is the only one it has.
LEMMA PollTrials == ASSUME DInv, NEW w \in Workers, Poll(w) PROVE TrialInFlight'
  <1> USE DEF DInv, TypeOK, HandsFit, TrialInFlight
  <1>1. CASE Claim(w) BY <1>1 DEF Claim
  <1>2. CASE Answered(w)
    <2>1. cur[w] \in Deliveries BY <1>2 DEF Answered
    <2>2. circuit[w][SinkOf[cur[w]]] \in Circuits BY <2>1 DEF Circuits
    <2>3. ~circuit'[w][SinkOf[cur[w]]].trial
      BY <1>2, <2>1, <2>2, FailureEndsTrial, ClosedTyped DEF Answered
    <2> QED BY <1>2, <2>1, <2>3 DEF Answered
  <1>3. CASE Finish(w) BY <1>3 DEF Finish
  <1>4. CASE PollFails(w) BY <1>4 DEF PollFails, LetGo
  <1>5. CASE Crash(w) BY <1>5, ClosedTyped DEF Crash, LetGo
  <1>6. CASE \E d \in Deliveries : Send(w, d) BY <1>6 DEF Send
  <1>7. CASE \E d \in Deliveries : Release(w, d) BY <1>7 DEF Release
  <1>8. CASE \E d \in Deliveries : LeaseRunsOut(w, d) BY <1>8 DEF LeaseRunsOut
  <1>9. CASE \E s \in Sinks : Ripens(w, s) BY <1>9 DEF Ripens
  <1> QED BY <1>1, <1>2, <1>3, <1>4, <1>5, <1>6, <1>7, <1>8, <1>9 DEF Poll

-----------------------------------------------------------------------------
(* The budget.  BudgetMeansSends compares sends with the limit, and what     *)
(* keeps the two together is the row's counter of attempts: it is raised at  *)
(* the claim, long before the send, and is only as good as every claim being *)
(* sent, given back or charged to a fault.                                   *)

\* The dispatchers that have a row still to send, and those late with it.
HeldBy(d) == {w \in Workers : d \in batch[w]}
LateWith(d) == {w \in Workers : d \in late[w]}

\* The sends of a row that have happened or still may without another claim.
Owed(d) == sends[d] + Cardinality(HeldBy(d))

\* A row that may be claimed again, now or later.
Waits(d) == status[d] \in {"NEW", "PENDING"} /\ \A w \in Workers : d \notin InHand(w) \ late[w]

\* A row claimed by a dispatcher that is to send it within its lease.
Claimed(d) == \E w \in Workers : d \in batch[w] \ late[w]

\* The attempt a dispatcher decides on is the row's, as long as the row is its own.
TryIsAttempts ==
  \A w \in Workers : cur[w] # NoOne /\ leasedBy[cur[w]] = w => try[w] = attempts[cur[w]]

\* Each late dispatcher cost a fault.
LateCosts == \A d \in Deliveries : Cardinality(LateWith(d)) <= faults

\* A row's budget: a row that may be claimed has an attempt left, or a fault
\* that took it, and an attempt was a send, is about to be one, or was lost to
\* a fault.
RowBudget(d) ==
  /\ Owed(d) <= attempts[d] + faults
  /\ Owed(d) <= MaxAttempts + faults /\ attempts[d] <= MaxAttempts + faults
  /\ Waits(d) => Owed(d) < MaxAttempts + faults /\ attempts[d] < MaxAttempts + faults
  /\ attempts[d] <= sends[d] + faults + 1
  /\ ~Claimed(d) => attempts[d] <= sends[d] + faults
  /\ status[d] = "DEAD" /\ d \notin refused => sends[d] + faults >= MaxAttempts

Budget == TryIsAttempts /\ LateCosts /\ \A d \in Deliveries : RowBudget(d)

\* Counting dispatchers.
LEMMA Counting ==
  ASSUME NEW S \in SUBSET Workers
  PROVE  /\ Cardinality(S) \in Nat
         /\ \A w \in Workers \ S : Cardinality(S \union {w}) = Cardinality(S) + 1
         /\ \A w \in S : Cardinality(S \ {w}) = Cardinality(S) - 1
         /\ \A T \in SUBSET S : Cardinality(T) \in Nat /\ Cardinality(T) <= Cardinality(S)
  <1>1. IsFiniteSet(S) BY FS_Subset
  <1>2. \A T \in SUBSET S : IsFiniteSet(T) /\ Cardinality(T) <= Cardinality(S)
    BY <1>1, FS_Subset
  <1>3. Cardinality(S) \in Nat /\ \A T \in SUBSET S : Cardinality(T) \in Nat
    BY <1>1, <1>2, FS_CardinalityType
  <1>4. \A w \in Workers \ S : Cardinality(S \union {w}) = Cardinality(S) + 1
    BY <1>1, FS_AddElement
  <1>5. \A w \in S : Cardinality(S \ {w}) = Cardinality(S) - 1
    BY <1>1, FS_RemoveElement
  <1> QED BY <1>2, <1>3, <1>4, <1>5

\* The counts of a row, before and after a step.
LEMMA Counts ==
  ASSUME NEW d \in Deliveries
  PROVE  /\ Cardinality(HeldBy(d)) \in Nat /\ Cardinality(HeldBy(d)') \in Nat
         /\ Cardinality(LateWith(d)) \in Nat /\ Cardinality(LateWith(d)') \in Nat
         /\ HeldBy(d) \subseteq Workers /\ HeldBy(d)' \subseteq Workers
         /\ LateWith(d) \subseteq Workers /\ LateWith(d)' \subseteq Workers
  <1>1. /\ HeldBy(d) \subseteq Workers /\ HeldBy(d)' \subseteq Workers
        /\ LateWith(d) \subseteq Workers /\ LateWith(d)' \subseteq Workers
    BY DEF HeldBy, LateWith
  <1> QED BY <1>1, Counting

\* The budget is whole before the first event.
LEMMA BudgetInit == Init => Budget
  <1> SUFFICES ASSUME Init PROVE Budget
    OBVIOUS
  <1>1. ASSUME NEW d \in Deliveries PROVE HeldBy(d) = {} /\ LateWith(d) = {}
    BY DEF Init, HeldBy, LateWith
  <1>2. Cardinality({}) = 0 BY FS_EmptySet
  <1>3. TryIsAttempts BY DEF Init, TryIsAttempts
  <1>4. LateCosts
    <2>1. \A d \in Deliveries : Cardinality(LateWith(d)) = 0 BY <1>1, <1>2, Zenon
    <2>2. faults = 0 BY DEF Init
    <2> QED BY <2>1, <2>2 DEF LateCosts
  <1>5. \A d \in Deliveries : Owed(d) = 0
    <2>1. \A d \in Deliveries : Cardinality(HeldBy(d)) = 0 BY <1>1, <1>2, Zenon
    <2>2. \A d \in Deliveries : sends[d] = 0 BY DEF Init
    <2> QED BY <2>1, <2>2 DEF Owed
  <1>6. \A d \in Deliveries : RowBudget(d)
    BY <1>5 DEF Init, RowBudget
  <1> QED BY <1>3, <1>4, <1>6 DEF Budget

\* A row whose counters, hands and waiting a step leaves alone, or moves only
\* in the harmless direction, keeps its part of AtMost and AtLeast.
LEMMA RowKept ==
  ASSUME DInv, DInv', Budget, NEW d \in Deliveries, faults <= faults',
         sends'[d] = sends[d], attempts'[d] = attempts[d],
         HeldBy(d)' \subseteq HeldBy(d),
         faults' = faults => (Waits(d)' => Waits(d)) /\ (Claimed(d) => Claimed(d)'),
         status'[d] = "DEAD" /\ d \notin refused' => status[d] = "DEAD" /\ d \notin refused
  PROVE  RowBudget(d)'
  <1>1. Owed(d)' = sends'[d] + Cardinality(HeldBy(d)') BY DEF Owed
  <1>2. Cardinality(HeldBy(d)') <= Cardinality(HeldBy(d)) BY Counts, Counting
  <1>3. /\ faults \in Nat /\ faults' \in Nat /\ sends[d] \in Nat /\ attempts[d] \in Nat
        /\ MaxAttempts \in Nat
    BY DEF DInv, TypeOK
  <1>4. Owed(d) \in Nat /\ Owed(d)' \in Nat /\ Owed(d)' <= Owed(d)
    BY <1>1, <1>2, <1>3, Counts DEF Owed
  <1>5. RowBudget(d) BY DEF Budget
  <1> USE DEF RowBudget
  <1> HIDE DEF Owed, Waits, Claimed
  <1>7. CASE faults' = faults BY <1>3, <1>4, <1>5, <1>7
  <1>8. CASE faults' # faults
    <2>1. faults + 1 <= faults' BY <1>3, <1>8
    <2> QED BY <2>1, <1>3, <1>4, <1>5
  <1> QED BY <1>7, <1>8

\* Recording, redriving and falling due.  A redrive starts a row's counters
\* anew, and the dispatchers still late with it are no more than the faults.
LEMMA BudgetRows ==
  ASSUME DInv, DInv', Budget, NEW d \in Deliveries, Record(d) \/ Redrive(d) \/ BecomesDue(d)
  PROVE  Budget'
  <1>1. UNCHANGED <<hands, faults, late>> BY DEF Record, Redrive, BecomesDue
  <1>2. \A e \in Deliveries : HeldBy(e)' = HeldBy(e) /\ LateWith(e)' = LateWith(e)
    BY <1>1 DEF HeldBy, LateWith
  <1>3. LateCosts' BY <1>1, <1>2 DEF Budget, LateCosts
  <1>4. \A e \in Deliveries : (Claimed(e)' <=> Claimed(e))
    BY <1>1 DEF Claimed
  <1>5. \A e \in Deliveries :
          status'[e] = status[e] \/ status[e] = "NEW" => (Waits(e)' => Waits(e))
    BY <1>1 DEF Waits, InHand
  <1>6. TryIsAttempts'
    <2> USE DEF Budget, TryIsAttempts, DInv, TypeOK
    <2>1. CASE Record(d) BY <1>1, <2>1 DEF Record
    <2>2. CASE Redrive(d) BY <1>1, <2>2 DEF Redrive
    <2>3. CASE BecomesDue(d) BY <1>1, <2>3 DEF BecomesDue
    <2> QED BY <2>1, <2>2, <2>3
  <1>7. ASSUME NEW e \in Deliveries, ~ (Redrive(d) /\ e = d) PROVE RowBudget(e)'
    <2>1. /\ sends'[e] = sends[e] /\ attempts'[e] = attempts[e]
          /\ status'[e] = status[e] \/ (status[e] = "NEW" /\ status'[e] = "PENDING")
          /\ e \notin refused' => e \notin refused
      <3> USE DEF DInv, TypeOK
      <3>1. CASE Record(d) BY <3>1 DEF Record
      <3>2. CASE Redrive(d) BY <3>2, <1>7 DEF Redrive
      <3>3. CASE BecomesDue(d) BY <3>3 DEF BecomesDue
      <3> QED BY <3>1, <3>2, <3>3
    <2>2. faults' \in Nat /\ faults <= faults' BY <1>1 DEF DInv, TypeOK
    <2> QED BY <2>1, <2>2, <1>2, <1>4, <1>5, RowKept
  <1>8. ASSUME Redrive(d) PROVE RowBudget(d)'
    <2>1. sends'[d] = 0 /\ attempts'[d] = 0 /\ status'[d] = "PENDING"
      BY <1>8 DEF Redrive, DInv, TypeOK
    <2>2. HeldBy(d) \subseteq LateWith(d)
      BY <1>8 DEF Redrive, DInv, OwnerUndisturbed, HeldBy, LateWith, InHand
    <2>3. Cardinality(HeldBy(d)) \in Nat /\ Cardinality(HeldBy(d)) <= faults /\ faults \in Nat
      <3>1. Cardinality(HeldBy(d)) <= Cardinality(LateWith(d)) BY <2>2, Counting, Counts
      <3> QED BY <3>1, Counts DEF Budget, LateCosts, DInv, TypeOK
    <2>4. HeldBy(d)' = HeldBy(d) /\ faults' = faults BY <1>1, <1>2
    <2>5. Owed(d)' = sends'[d] + Cardinality(HeldBy(d)') BY DEF Owed
    <2>6. Owed(d)' = Cardinality(HeldBy(d)) BY <2>1, <2>3, <2>4, <2>5
    <2> HIDE DEF Owed, HeldBy, Waits, Claimed
    <2> QED BY <2>1, <2>3, <2>4, <2>6 DEF RowBudget
  <1> QED BY <1>3, <1>6, <1>7, <1>8 DEF Budget

\* A claim meets only rows that wait, whose budget has one more attempt.
LEMMA BudgetClaim ==
  ASSUME DInv, DInv', Budget, NEW w \in Workers, Claim(w)
  PROVE  Budget'
  <1> PICK S \in SUBSET Claimable(w) :
        /\ attempts' = [d \in Deliveries |-> IF d \in S THEN attempts[d] + 1 ELSE attempts[d]]
        /\ leasedBy' = [d \in Deliveries |-> IF d \in S THEN w ELSE leasedBy[d]]
        /\ batch' = [batch EXCEPT ![w] = S]
    BY DEF Claim
  <1>1. /\ batch[w] = {} /\ cur[w] = NoOne /\ late[w] = {}
        /\ UNCHANGED <<status, cur, try, answer, faults, late, sends, refused>>
    BY DEF Claim, IsIdle, DInv, HandsFit, InHand
  <1>2. \A d \in S : d \in Deliveries /\ status[d] = "PENDING" /\ due[d] BY DEF Claimable
  <1>3. LateCosts'
    <2>1. \A d \in Deliveries : LateWith(d)' = LateWith(d) BY <1>1 DEF LateWith
    <2> QED BY <1>1, <2>1 DEF Budget, LateCosts
  <1>4. TryIsAttempts'
    <2> SUFFICES ASSUME NEW v \in Workers, cur[v] # NoOne, leasedBy'[cur[v]] = v
                 PROVE  try[v] = attempts'[cur[v]]
      BY <1>1 DEF TryIsAttempts
    <2>1. v # w /\ cur[v] \in Deliveries BY <1>1 DEF DInv, TypeOK
    <2>2. cur[v] \notin S BY <2>1
    <2>3. leasedBy[cur[v]] = v /\ attempts'[cur[v]] = attempts[cur[v]] BY <2>1, <2>2
    <2> QED BY <2>3 DEF Budget, TryIsAttempts
  <1>5. ASSUME NEW d \in Deliveries, d \notin S PROVE RowBudget(d)'
    <2>1. HeldBy(d)' = HeldBy(d) BY <1>1, <1>5 DEF HeldBy, DInv, TypeOK
    <2>2. (Waits(d)' => Waits(d)) /\ (Claimed(d) => Claimed(d)')
      BY <1>1, <1>5 DEF Waits, Claimed, InHand, DInv, TypeOK
    <2>3. sends'[d] = sends[d] /\ attempts'[d] = attempts[d] /\ status'[d] = status[d]
          /\ refused' = refused
      BY <1>1, <1>5
    <2>4. faults' \in Nat /\ faults <= faults' BY <1>1 DEF DInv, TypeOK
    <2> QED BY <2>1, <2>2, <2>3, <2>4, RowKept
  <1>6. ASSUME NEW d \in S PROVE RowBudget(d)'
    <2>1. d \in Deliveries /\ status[d] = "PENDING" /\ due[d] BY <1>2
    <2>2. Waits(d) BY <2>1 DEF Waits, DInv, HandsHidden
    <2>3. ~Claimed(d) BY <2>1 DEF Claimed, DInv, HandsHidden, InHand
    <2>4. Claimed(d)' BY <1>1 DEF Claimed, DInv, TypeOK
    <2>5. ~Waits(d)' BY <1>1 DEF Waits, InHand, DInv, TypeOK
    <2>6. HeldBy(d)' = HeldBy(d) \union {w} /\ w \notin HeldBy(d)
      BY <1>1 DEF HeldBy, DInv, TypeOK
    <2>7. Cardinality(HeldBy(d)') = Cardinality(HeldBy(d)) + 1
      BY <2>1, <2>6, Counting, Counts
    <2>8. Owed(d) = sends[d] + Cardinality(HeldBy(d)) BY DEF Owed
    <2>9. Owed(d)' = sends'[d] + Cardinality(HeldBy(d)') BY DEF Owed
    <2>10. sends'[d] = sends[d] /\ attempts'[d] = attempts[d] + 1 /\ faults' = faults
           /\ status'[d] = "PENDING"
      BY <1>1, <2>1
    <2>11. sends[d] \in Nat /\ attempts[d] \in Nat /\ faults \in Nat /\ MaxAttempts \in Nat
           /\ Cardinality(HeldBy(d)) \in Nat
      BY <2>1, Counts DEF DInv, TypeOK
    <2>12. RowBudget(d) BY <2>1 DEF Budget
    <2> HIDE DEF Owed, HeldBy, Waits, Claimed
    <2> QED BY <2>2, <2>3, <2>4, <2>5, <2>7, <2>8, <2>9, <2>10, <2>11, <2>12 DEF RowBudget
  <1> QED BY <1>3, <1>4, <1>5, <1>6 DEF Budget

\* A send turns what was owed into what was sent.
LEMMA BudgetSend ==
  ASSUME DInv, DInv', Budget, NEW w \in Workers, NEW d \in Deliveries, Send(w, d)
  PROVE  Budget'
  <1>1. /\ cur[w] = NoOne /\ d \in batch[w]
        /\ batch' = [batch EXCEPT ![w] = @ \ {d}] /\ cur' = [cur EXCEPT ![w] = d]
        /\ try' = [try EXCEPT ![w] = attempts[d]] /\ sends' = [sends EXCEPT ![d] = @ + 1]
        /\ UNCHANGED <<status, attempts, leasedBy, faults, refused, late>>
    BY DEF Send
  <1>2. LateCosts'
    <2>1. \A e \in Deliveries : LateWith(e)' = LateWith(e) BY <1>1 DEF LateWith
    <2> QED BY <1>1, <2>1 DEF Budget, LateCosts
  <1>3. TryIsAttempts' BY <1>1 DEF Budget, TryIsAttempts, DInv, TypeOK
  <1>4. \A e \in Deliveries : (Waits(e)' <=> Waits(e))
    BY <1>1 DEF Waits, InHand, DInv, TypeOK
  <1>5. ASSUME NEW e \in Deliveries, e # d PROVE RowBudget(e)'
    <2>1. HeldBy(e)' = HeldBy(e) BY <1>1, <1>5 DEF HeldBy, DInv, TypeOK
    <2>2. Claimed(e) => Claimed(e)' BY <1>1, <1>5 DEF Claimed, DInv, TypeOK
    <2>3. sends'[e] = sends[e] BY <1>1, <1>5 DEF DInv, TypeOK
    <2>4. faults' \in Nat /\ faults <= faults' BY <1>1 DEF DInv, TypeOK
    <2> QED BY <1>1, <1>4, <2>1, <2>2, <2>3, <2>4, RowKept
  <1>6. RowBudget(d)'
    <2>1. HeldBy(d)' = HeldBy(d) \ {w} /\ w \in HeldBy(d)
      BY <1>1 DEF HeldBy, DInv, TypeOK
    <2>2. Cardinality(HeldBy(d)') = Cardinality(HeldBy(d)) - 1 BY <2>1, Counting, Counts
    <2>3. Owed(d) = sends[d] + Cardinality(HeldBy(d)) BY DEF Owed
    <2>4. Owed(d)' = sends'[d] + Cardinality(HeldBy(d)') BY DEF Owed
    <2>5. /\ sends'[d] = sends[d] + 1 /\ attempts'[d] = attempts[d] /\ faults' = faults
          /\ status'[d] = status[d] /\ refused' = refused
      BY <1>1 DEF DInv, TypeOK
    <2>6. sends[d] \in Nat /\ attempts[d] \in Nat /\ faults \in Nat /\ MaxAttempts \in Nat
          /\ Cardinality(HeldBy(d)) \in Nat
      BY Counts DEF DInv, TypeOK
    <2>7. RowBudget(d) BY DEF Budget
    <2> HIDE DEF Owed, HeldBy, Waits, Claimed
    <2>8. Owed(d)' = Owed(d) BY <2>2, <2>3, <2>4, <2>5, <2>6
    <2> QED BY <1>4, <2>5, <2>6, <2>7, <2>8 DEF RowBudget
  <1> QED BY <1>2, <1>3, <1>5, <1>6 DEF Budget

\* A release gives the attempt back, if the row is still its own.
LEMMA BudgetRelease ==
  ASSUME DInv, DInv', Budget, NEW w \in Workers, NEW d \in Deliveries, Release(w, d)
  PROVE  Budget'
  <1>1. /\ cur[w] = NoOne /\ d \in batch[w]
        /\ batch' = [batch EXCEPT ![w] = @ \ {d}] /\ late' = [late EXCEPT ![w] = @ \ {d}]
        /\ UNCHANGED <<status, cur, try, faults, sends, refused>>
    BY DEF Release
  <1>2. LateCosts'
    <2>1. \A e \in Deliveries : LateWith(e)' \subseteq LateWith(e)
      BY <1>1 DEF LateWith, DInv, TypeOK
    <2>2. \A e \in Deliveries : Cardinality(LateWith(e)') <= Cardinality(LateWith(e))
      BY <2>1, Counting, Counts
    <2>3. \A e \in Deliveries :
            Cardinality(LateWith(e)') \in Nat /\ Cardinality(LateWith(e)) \in Nat
      BY Counts
    <2>4. faults \in Nat BY DEF DInv, TypeOK
    <2> HIDE DEF LateWith
    <2> QED BY <1>1, <2>2, <2>3, <2>4 DEF Budget, LateCosts
  <1>3. \A e \in Deliveries : e # d => attempts'[e] = attempts[e] /\ leasedBy'[e] = leasedBy[e]
    BY DEF Release, DInv, TypeOK
  <1>4. TryIsAttempts'
    <2> SUFFICES ASSUME NEW v \in Workers, cur[v] # NoOne, leasedBy'[cur[v]] = v
                 PROVE  try[v] = attempts'[cur[v]]
      BY <1>1 DEF TryIsAttempts
    <2>1. v # w /\ cur[v] \in Deliveries BY <1>1 DEF DInv, TypeOK
    <2>2. CASE cur[v] = d BY <2>1, <2>2 DEF Release, DInv, TypeOK, Budget, TryIsAttempts
    <2>3. CASE cur[v] # d BY <1>3, <2>1, <2>3 DEF Budget, TryIsAttempts
    <2> QED BY <2>2, <2>3
  <1>5. ASSUME NEW e \in Deliveries, e # d PROVE RowBudget(e)'
    <2>1. HeldBy(e)' = HeldBy(e) BY <1>1, <1>5 DEF HeldBy, DInv, TypeOK
    <2>2. (Claimed(e) => Claimed(e)') /\ (Waits(e)' => Waits(e))
      BY <1>1, <1>5 DEF Claimed, Waits, InHand, DInv, TypeOK
    <2>3. faults' \in Nat /\ faults <= faults' BY <1>1 DEF DInv, TypeOK
    <2> QED BY <1>1, <1>3, <1>5, <2>1, <2>2, <2>3, RowKept
  <1>6. ASSUME leasedBy[d] # w PROVE RowBudget(d)'
    <2>1. HeldBy(d)' \subseteq HeldBy(d) BY <1>1 DEF HeldBy, DInv, TypeOK
    <2>2. d \in late[w] BY <1>1, <1>6 DEF DInv, OwnerUndisturbed, InHand
    <2>3. (Claimed(d) => Claimed(d)') /\ (Waits(d)' => Waits(d))
      BY <1>1, <2>2 DEF Claimed, Waits, InHand, DInv, TypeOK
    <2>4. attempts'[d] = attempts[d] BY <1>6 DEF Release
    <2>5. faults' \in Nat /\ faults <= faults' BY <1>1 DEF DInv, TypeOK
    <2> QED BY <1>1, <2>1, <2>3, <2>4, <2>5, RowKept
  <1>7. ASSUME leasedBy[d] = w PROVE RowBudget(d)'
    <2>1. HeldBy(d)' = HeldBy(d) \ {w} /\ w \in HeldBy(d)
      BY <1>1 DEF HeldBy, DInv, TypeOK
    <2>2. Cardinality(HeldBy(d)') = Cardinality(HeldBy(d)) - 1 BY <2>1, Counting, Counts
    <2>3. Owed(d) = sends[d] + Cardinality(HeldBy(d)) BY DEF Owed
    <2>4. Owed(d)' = sends'[d] + Cardinality(HeldBy(d)') BY DEF Owed
    <2>5. /\ sends'[d] = sends[d] /\ faults' = faults
          /\ status'[d] = status[d] /\ refused' = refused
      BY <1>1
    <2>6. attempts'[d] = attempts[d] - 1 /\ attempts[d] > 0
      BY <1>7 DEF Release, DInv, TypeOK, LeasedCounted
    <2>7. sends[d] \in Nat /\ attempts[d] \in Nat /\ faults \in Nat /\ MaxAttempts \in Nat
          /\ Cardinality(HeldBy(d)) \in Nat
      BY Counts DEF DInv, TypeOK
    <2>8. RowBudget(d) BY DEF Budget
    <2> HIDE DEF Owed, HeldBy, Waits, Claimed
    <2>9. Owed(d)' = Owed(d) - 1 /\ Owed(d) \in Nat BY <2>2, <2>3, <2>4, <2>5, <2>7
    <2> QED BY <2>5, <2>6, <2>7, <2>8, <2>9 DEF RowBudget
  <1> QED BY <1>2, <1>4, <1>5, <1>6, <1>7 DEF Budget

\* A lease that runs out, a poll that fails and a process that dies cost a fault.
LEMMA BudgetFault ==
  ASSUME DInv, DInv', Budget, NEW w \in Workers,
         (\E d \in Deliveries : LeaseRunsOut(w, d)) \/ PollFails(w) \/ Crash(w)
  PROVE  Budget'
  <1>1. /\ faults' = faults + 1 /\ faults \in Nat /\ faults' \in Nat
        /\ UNCHANGED <<status, attempts, sends, refused>>
    BY DEF LeaseRunsOut, PollFails, Crash, LetGo, DInv, TypeOK
  <1>2. ASSUME NEW e \in Deliveries PROVE Cardinality(LateWith(e)') <= faults'
    <2>1. LateWith(e)' \subseteq LateWith(e) \union {w}
      <3> USE DEF LateWith, DInv, TypeOK
      <3>1. CASE \E d \in Deliveries : LeaseRunsOut(w, d) BY <3>1 DEF LeaseRunsOut
      <3>2. CASE PollFails(w) \/ Crash(w) BY <3>2 DEF PollFails, Crash, LetGo
      <3> QED BY <3>1, <3>2
    <2> DEFINE L == LateWith(e)  M == L \union {w}
    <2>2. L \subseteq Workers /\ M \subseteq Workers BY Counts
    <2>3. Cardinality(L) \in Nat /\ Cardinality(L) <= faults
      BY Counts DEF Budget, LateCosts
    <2>4. Cardinality(LateWith(e)') <= Cardinality(M) BY <2>1, <2>2, Counting
    <2>5. Cardinality(M) \in Nat /\ Cardinality(LateWith(e)') \in Nat BY <2>2, Counting, Counts
    <2>6. Cardinality(M) <= Cardinality(L) + 1
      <3>1. CASE w \in L
        <4>1. M = L BY <3>1
        <4> HIDE DEF L, M
        <4> QED BY <2>3, <4>1
      <3>2. CASE w \notin L
        <4>1. Cardinality(M) = Cardinality(L) + 1 BY <3>2, <2>2, Counting
        <4> HIDE DEF L, M
        <4> QED BY <2>3, <4>1
      <3> QED BY <3>1, <3>2
    <2> HIDE DEF L, M
    <2> QED BY <1>1, <2>3, <2>4, <2>5, <2>6
  <1>3. TryIsAttempts'
    <2> SUFFICES ASSUME NEW v \in Workers, cur'[v] # NoOne, leasedBy'[cur'[v]] = v
                 PROVE  try'[v] = attempts'[cur'[v]]
      BY DEF TryIsAttempts
    <2>1. cur'[v] = cur[v] /\ try'[v] = try[v]
      BY DEF LeaseRunsOut, PollFails, Crash, LetGo, DInv, TypeOK
    <2>2. cur[v] \in Deliveries BY <2>1 DEF DInv, TypeOK
    <2>3. leasedBy[cur[v]] = v
      BY <2>1, <2>2 DEF LeaseRunsOut, PollFails, Crash, LetGo, DInv, TypeOK
    <2> QED BY <1>1, <2>1, <2>3 DEF Budget, TryIsAttempts
  <1>4. ASSUME NEW e \in Deliveries PROVE RowBudget(e)'
    <2>1. HeldBy(e)' \subseteq HeldBy(e)
      BY DEF HeldBy, LeaseRunsOut, PollFails, Crash, LetGo, DInv, TypeOK
    <2>2. faults <= faults' /\ faults' # faults BY <1>1
    <2> QED BY <1>1, <2>1, <2>2, RowKept
  <1> QED BY <1>2, <1>3, <1>4 DEF Budget, LateCosts

\* A recorded outcome: a failure leaves an attempt, and a row that is given up
\* had them all.
LEMMA BudgetFinish ==
  ASSUME DInv, DInv', Budget, NEW w \in Workers, Finish(w)
  PROVE  Budget'
  <1> PICK d \in Deliveries : d = cur[w] BY DEF Finish, DInv, TypeOK
  <1>1. /\ d \in Deliveries /\ d \notin batch[w]
        /\ cur' = [cur EXCEPT ![w] = NoOne] /\ try' = [try EXCEPT ![w] = 0]
        /\ late' = [late EXCEPT ![w] = @ \ {d}]
        /\ UNCHANGED <<attempts, batch, faults, sends>>
    BY DEF Finish, DInv, TypeOK, HandsFit
  <1>2. LateCosts'
    <2>1. \A e \in Deliveries : LateWith(e)' \subseteq LateWith(e)
      BY <1>1 DEF LateWith, DInv, TypeOK
    <2>2. \A e \in Deliveries : Cardinality(LateWith(e)') <= Cardinality(LateWith(e))
      BY <2>1, Counting, Counts
    <2>3. \A e \in Deliveries :
            Cardinality(LateWith(e)') \in Nat /\ Cardinality(LateWith(e)) \in Nat
      BY Counts
    <2>4. faults \in Nat BY DEF DInv, TypeOK
    <2> HIDE DEF LateWith
    <2> QED BY <1>1, <2>2, <2>3, <2>4 DEF Budget, LateCosts
  <1>3. \A e \in Deliveries :
          leasedBy'[e] \in Workers => leasedBy'[e] = leasedBy[e]
    BY DEF Finish, DInv, TypeOK
  <1>4. TryIsAttempts' BY <1>1, <1>3 DEF Budget, TryIsAttempts, DInv, TypeOK
  <1>5. \A e \in Deliveries : HeldBy(e)' = HeldBy(e) BY <1>1 DEF HeldBy
  <1>6. \A e \in Deliveries : Claimed(e)' <=> Claimed(e)
    BY <1>1 DEF Claimed, DInv, TypeOK
  <1>7. faults' \in Nat /\ faults <= faults' BY <1>1 DEF DInv, TypeOK
  <1>8. ASSUME NEW e \in Deliveries, e # d \/ ~IsOurs(w) PROVE RowBudget(e)'
    <2>1. status'[e] = status[e] /\ (e \in refused' <=> e \in refused)
      BY <1>8 DEF Finish, DInv, TypeOK
    <2>2. Waits(e)' => Waits(e)
      <3>1. CASE e # d BY <1>1, <2>1, <3>1 DEF Waits, InHand, DInv, TypeOK
      <3>2. CASE e = d /\ ~IsOurs(w)
        <4>1. d \in late[w]
          BY <1>1, <3>2 DEF IsOurs, DInv, OwnerUndisturbed, InHand
        <4> QED BY <1>1, <2>1, <3>2, <4>1 DEF Waits, InHand, DInv, TypeOK
      <3> QED BY <1>8, <3>1, <3>2
    <2> QED BY <1>1, <1>5, <1>6, <1>7, <2>1, <2>2, RowKept
  <1>9. ASSUME IsOurs(w) PROVE RowBudget(d)'
    <2>1. /\ leasedBy[d] = w /\ status[d] = "PENDING"
          /\ status'[d] = Outcome(w)
          /\ answer[w] = "refused" => d \in refused'
          /\ answer[w] \in {"accepted", "failed", "refused"}
      BY <1>1, <1>9 DEF Finish, IsOurs, DInv, TypeOK, HandsFit, Answers
    <2>2. try[w] = attempts[d] BY <1>1, <2>1 DEF Budget, TryIsAttempts
    <2>3. ~Claimed(d)
      <3>1. \A v \in Workers : v # w => d \notin batch[v] \ late[v]
        BY <1>1, <2>1 DEF DInv, OwnerUndisturbed, InHand
      <3> QED BY <1>1, <3>1 DEF Claimed
    <2>4. /\ sends'[d] = sends[d] /\ attempts'[d] = attempts[d] /\ faults' = faults
          /\ Owed(d)' = Owed(d)
      BY <1>1, <1>5 DEF Owed
    <2>5. /\ sends[d] \in Nat /\ attempts[d] \in Nat /\ faults \in Nat /\ MaxAttempts \in Nat
          /\ Owed(d) \in Nat
      BY <1>1, Counts DEF DInv, TypeOK, Owed
    <2>6. RowBudget(d) BY <1>1 DEF Budget
    <2>7. status'[d] = "DEAD" => attempts[d] >= MaxAttempts \/ d \in refused'
      BY <2>1, <2>2, <2>5 DEF Outcome
    <2>8. status'[d] = "PENDING" => attempts[d] < MaxAttempts
      BY <2>1, <2>2, <2>5 DEF Outcome
    <2>9. Waits(d)' => status'[d] = "PENDING"
      BY <2>1 DEF Waits, Outcome
    <2> HIDE DEF Owed, Waits, Claimed
    <2> QED BY <1>1, <1>6, <2>3, <2>4, <2>5, <2>6, <2>7, <2>8, <2>9 DEF RowBudget
  <1> QED BY <1>1, <1>2, <1>4, <1>8, <1>9 DEF Budget

\* A step that touches neither rows nor hands keeps the budget.
LEMMA BudgetStill ==
  ASSUME Budget, UNCHANGED <<rows, batch, cur, try, bounds, sends, refused, late>>
  PROVE  Budget'
  BY DEF Budget, TryIsAttempts, LateCosts, RowBudget, Owed, Waits, Claimed, HeldBy, LateWith,
         InHand

\* Every step keeps the budget.
LEMMA BudgetStep == DInv /\ DInv' /\ Budget /\ [Next]_vars => Budget'
  <1> SUFFICES ASSUME DInv, DInv', Budget, [Next]_vars PROVE Budget'
    OBVIOUS
  <1>1. ASSUME NEW d \in Deliveries, Record(d) \/ Redrive(d) \/ BecomesDue(d) PROVE Budget'
    BY <1>1, BudgetRows
  <1>2. ASSUME NEW w \in Workers, Poll(w) PROVE Budget'
    <2>1. CASE Claim(w) BY <2>1, BudgetClaim
    <2>2. CASE Finish(w) BY <2>2, BudgetFinish
    <2>3. CASE PollFails(w) \/ Crash(w) \/ \E d \in Deliveries : LeaseRunsOut(w, d)
      BY <2>3, BudgetFault
    <2>4. CASE \E d \in Deliveries : Send(w, d) BY <2>4, BudgetSend
    <2>5. CASE \E d \in Deliveries : Release(w, d) BY <2>5, BudgetRelease
    <2>6. CASE Answered(w) \/ \E s \in Sinks : Ripens(w, s)
      <3>1. UNCHANGED <<rows, batch, cur, try, bounds, sends, refused, late>>
        BY <2>6 DEF Answered, Ripens
      <3> QED BY <3>1, BudgetStill
    <2> QED BY <1>2, <2>1, <2>2, <2>3, <2>4, <2>5, <2>6 DEF Poll
  <1>3. CASE UNCHANGED vars BY <1>3, BudgetStill DEF vars
  <1> QED BY <1>1, <1>2, <1>3 DEF Next

\* What the budget is for.
LEMMA BudgetIsSends == DInv /\ Budget => BudgetMeansSends
  <1> SUFFICES ASSUME DInv, Budget, NEW d \in Deliveries
               PROVE  /\ sends[d] <= MaxAttempts + faults
                      /\ status[d] = "DEAD" /\ d \notin refused =>
                           sends[d] + faults >= MaxAttempts
    BY DEF BudgetMeansSends
  <1>1. RowBudget(d) BY DEF Budget
  <1>2. Owed(d) = sends[d] + Cardinality(HeldBy(d)) /\ Cardinality(HeldBy(d)) \in Nat
    BY Counts DEF Owed
  <1>3. sends[d] \in Nat /\ faults \in Nat /\ MaxAttempts \in Nat BY DEF DInv, TypeOK
  <1> HIDE DEF Owed, HeldBy
  <1> QED BY <1>1, <1>2, <1>3 DEF RowBudget

-----------------------------------------------------------------------------
(* The outbox.                                                             *)

\* What a dispatcher would record is of a send since its row was last queued,
\* and nothing is in hand that was not recorded.
HeardFits ==
  \A w \in Workers :
    cur[w] # NoOne /\ answer[w] # "sending" /\ leasedBy[cur[w]] = w =>
      answer[w] \in heard[cur[w]]

Recorded ==
  /\ \A d \in Deliveries : status[d] = "NEW" => ~due[d]
  /\ \A w \in Workers : \A d \in InHand(w) : status[d] # "NEW"

OutboxInv == HeardFits /\ Recorded

LEMMA OutboxInit == Init => OutboxInv
  BY DEF Init, OutboxInv, HeardFits, Recorded, InHand

LEMMA OutboxRows ==
  ASSUME DInv, OutboxInv, NEW d \in Deliveries, Record(d) \/ Redrive(d) \/ BecomesDue(d)
  PROVE  OutboxInv'
  <1> USE DEF DInv, TypeOK, OutboxInv, HeardFits, Recorded, InHand
  <1>1. CASE Record(d) BY <1>1 DEF Record
  <1>2. CASE Redrive(d) BY <1>2 DEF Redrive
  <1>3. CASE BecomesDue(d) BY <1>3 DEF BecomesDue
  <1> QED BY <1>1, <1>2, <1>3

LEMMA OutboxPoll == ASSUME DInv, OutboxInv, NEW w \in Workers, Poll(w) PROVE OutboxInv'
  <1> USE DEF DInv, TypeOK, OutboxInv, HeardFits, Recorded, InHand
  <1>1. CASE Claim(w) BY <1>1 DEF Claim, Claimable, IsIdle
  <1>2. CASE Answered(w) BY <1>2 DEF Answered, HandsFit
  <1>3. CASE Finish(w)
    <2>1. cur[w] \in Deliveries BY <1>3 DEF Finish
    <2>2. CASE IsOurs(w)
      BY <1>3, <2>1, <2>2 DEF Finish, IsOurs, Outcome
    <2>3. CASE ~IsOurs(w) BY <1>3, <2>1, <2>3 DEF Finish
    <2> QED BY <2>2, <2>3
  <1>4. CASE PollFails(w) BY <1>4 DEF PollFails, LetGo
  <1>5. CASE Crash(w) BY <1>5 DEF Crash, LetGo
  <1>6. CASE \E d \in Deliveries : Send(w, d) BY <1>6 DEF Send
  <1>7. CASE \E d \in Deliveries : Release(w, d) BY <1>7 DEF Release
  <1>8. CASE \E d \in Deliveries : LeaseRunsOut(w, d) BY <1>8 DEF LeaseRunsOut
  <1>9. CASE \E s \in Sinks : Ripens(w, s) BY <1>9 DEF Ripens
  <1> QED BY <1>1, <1>2, <1>3, <1>4, <1>5, <1>6, <1>7, <1>8, <1>9 DEF Poll

\* The steps outside the dispatchers are steps of the outbox, or of the clock.
LEMMA OutboxRowSteps ==
  ASSUME DInv, NEW d \in Deliveries, Record(d) \/ Redrive(d) \/ BecomesDue(d)
  PROVE  Service!Next \/ UNCHANGED <<status, heard>>
  <1>1. CASE Record(d)
    <2>1. Service!Record(d) BY <1>1 DEF Record, Service!Record, Service!Becomes
    <2> QED BY <2>1 DEF Service!Next
  <1>2. CASE Redrive(d)
    <2>1. Service!Redrive(d) BY <1>2 DEF Redrive, Service!Redrive, Service!Becomes
    <2> QED BY <2>1 DEF Service!Next
  <1>3. CASE BecomesDue(d) BY <1>3 DEF BecomesDue
  <1> QED BY <1>1, <1>2, <1>3

\* A sink's answer is heard, a recorded one settles the row or lets it wait;
\* nothing else a dispatcher does is seen.
LEMMA OutboxPollSteps ==
  ASSUME DInv, OutboxInv, NEW w \in Workers, Poll(w)
  PROVE  Service!Next \/ UNCHANGED <<status, heard>>
  <1> USE DEF DInv, TypeOK
  <1>1. CASE Answered(w)
    <2>1. cur[w] \in Deliveries BY <1>1 DEF Answered, HandsFit
    <2>2. PICK a \in {"accepted", "failed", "refused"} :
             heard' = [heard EXCEPT ![cur[w]] = @ \union {a}] /\ UNCHANGED status
      BY <1>1 DEF Answered
    <2>3. status[cur[w]] # "NEW" BY <2>1 DEF OutboxInv, Recorded, InHand
    <2>4. Service!Hear(cur[w], a) BY <2>2, <2>3 DEF Service!Hear
    <2> QED BY <2>1, <2>4 DEF Service!Next
  <1>2. CASE Finish(w) /\ IsOurs(w)
    <2>1. /\ cur[w] \in Deliveries /\ answer[w] \in {"accepted", "failed", "refused"}
          /\ answer[w] \in heard[cur[w]] /\ status[cur[w]] = "PENDING"
      BY <1>2 DEF Finish, IsOurs, HandsFit, Answers, OutboxInv, HeardFits
    <2>2. status' = [status EXCEPT ![cur[w]] = Outcome(w)] /\ UNCHANGED heard
      BY <1>2 DEF Finish
    <2>3. CASE answer[w] = "accepted"
      <3>1. Outcome(w) = "DELIVERED" BY <2>3 DEF Outcome
      <3>2. Service!Deliver(cur[w])
        BY <2>1, <2>2, <2>3, <3>1 DEF Service!Deliver, Service!Becomes
      <3> QED BY <2>1, <3>2 DEF Service!Next
    <2>4. CASE answer[w] # "accepted" /\ Outcome(w) = "DEAD"
      <3>1. Service!GiveUp(cur[w])
        BY <2>1, <2>2, <2>4 DEF Service!GiveUp, Service!Becomes
      <3> QED BY <2>1, <3>1 DEF Service!Next
    <2>5. CASE Outcome(w) = "PENDING"
      BY <2>1, <2>2, <2>5
    <2> QED BY <2>3, <2>4, <2>5 DEF Outcome
  <1>3. CASE Finish(w) /\ ~IsOurs(w) BY <1>3 DEF Finish
  <1>4. CASE ~Answered(w) /\ ~Finish(w)
    BY <1>4 DEF Poll, Claim, PollFails, Crash, LetGo, Send, Release, LeaseRunsOut, Ripens
  <1> QED BY <1>1, <1>2, <1>3, <1>4

-----------------------------------------------------------------------------
(* Theorems.                                                               *)

\* DInv is an invariant of every dispatcher fleet.
THEOREM DispatcherInductive == Spec => []DInv
  <1>1. DInv /\ [Next]_vars => DInv'
    <2> SUFFICES ASSUME DInv, [Next]_vars PROVE DInv'
      OBVIOUS
    <2>1. ASSUME NEW w \in Workers, Poll(w) PROVE DInv'
      BY <2>1, PollTypes, PollHands, PollLeases, PollTrials DEF DInv
    <2>2. CASE UNCHANGED vars
      BY <2>2 DEF vars, DInv, TypeOK, HandsFit, HandsHidden, LeasedCounted,
                  OwnerUndisturbed, TrialInFlight, InHand
    <2> QED BY <2>1, <2>2, RowSteps DEF Next
  <1> QED BY <1>1, DInit, PTL DEF Spec

\* The rows, hands and breakers keep their types.
THEOREM DispatcherTyped == Spec => []TypeOK
  BY DispatcherInductive, PTL DEF DInv

\* A dispatcher within its lease is never disturbed, however many others are
\* late with the same row.
THEOREM OwnersCorrect == Spec => []OwnerUndisturbed
  BY DispatcherInductive, PTL DEF DInv

\* A half-open circuit has its trial on the way.
THEOREM TrialsCorrect == Spec => []TrialInFlight
  BY DispatcherInductive, PTL DEF DInv

\* The budget and its inductive invariant hold in every reachable state.
THEOREM BudgetInductive == Spec => [](DInv /\ Budget)
  <1>1. Spec => []DInv BY DispatcherInductive
  <1>2. DInv /\ DInv' /\ Budget /\ [Next]_vars => Budget' BY BudgetStep
  <1> QED BY <1>1, <1>2, BudgetInit, PTL DEF Spec

\* BudgetMeansSends: whatever crashes, expires, is redriven or released, a row
\* is sent as often as its budget says, give or take one for each fault.
THEOREM BudgetCorrect == Spec => []BudgetMeansSends
  BY BudgetInductive, BudgetIsSends, PTL

\* SendsAccounted: each send has an owner and an attempt (_claim, _release).
THEOREM SendsCorrect == Spec => []SendsAccounted
  BY OwnersCorrect, BudgetCorrect, PTL DEF SendsAccounted

\* The outbox's invariant holds in every reachable state.
THEOREM OutboxInductive == Spec => [](DInv /\ OutboxInv)
  <1>1. Spec => []DInv BY DispatcherInductive
  <1>2. DInv /\ OutboxInv /\ [Next]_vars => OutboxInv'
    <2> SUFFICES ASSUME DInv, OutboxInv, [Next]_vars PROVE OutboxInv'
      OBVIOUS
    <2>1. CASE UNCHANGED vars
      BY <2>1 DEF vars, OutboxInv, HeardFits, Recorded, InHand
    <2> QED BY <2>1, OutboxRows, OutboxPoll DEF Next
  <1> QED BY <1>1, <1>2, OutboxInit, PTL DEF Spec

\* ImplementsOutbox: for any dispatchers, sinks, crashes and leases that run
\* out, what the rows say is what the outbox promises.
THEOREM OutboxImplemented == Spec => ImplementsOutbox
  <1>1. Init => Service!Init BY DEF Init, Service!Init
  <1>2. DInv /\ OutboxInv /\ [Next]_vars => [Service!Next]_<<status, heard>>
    <2> SUFFICES ASSUME DInv, OutboxInv, [Next]_vars
                 PROVE  Service!Next \/ UNCHANGED <<status, heard>>
      OBVIOUS
    <2>1. CASE UNCHANGED vars BY <2>1 DEF vars
    <2> QED BY <2>1, OutboxRowSteps, OutboxPollSteps DEF Next
  <1> QED BY <1>1, <1>2, OutboxInductive, PTL DEF Spec, ImplementsOutbox, Service!Spec
=============================================================================
