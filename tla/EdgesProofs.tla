---------------------------- MODULE EdgesProofs ----------------------------
(***************************************************************************)
(* Safety of the system's edges, for any settings, body sizes, payloads,   *)
(* numbers of tries and samples: a worker's heartbeats, the request        *)
(* middleware, the intake of drift events, the notification sinks, the     *)
(* health rules of a rollout, the metrics of adapter calls and the         *)
(* settings a process starts with.                                         *)
(***************************************************************************)
EXTENDS Heartbeats, Requests, Intake, Sinks, Health, Measurements, Startup,
        FiniteSetTheorems, SequenceTheorems, WellFoundedInduction, TLAPS

-----------------------------------------------------------------------------
(* Heartbeats.                                                             *)

HbSettings == [heartbeat : Nat \ {0}, poll : Nat \ {0}, lease : Nat, maxAge : Nat]

\* The longest a turn takes that is not late.
HbTurn == HbLonger(hbSettings.heartbeat, hbSettings.poll)

\* The worker has time to spare: until its next turn the lease outlives one more heartbeat, or,
\* after a turn that slipped, at least that turn; and the liveness file is one turn old, or two.
HbInv ==
    /\ hbSettings \in HbSettings /\ HbTimingsOk(hbSettings)
    /\ hbBusy \in BOOLEAN /\ hbSlipped \in BOOLEAN
    /\ hbDue \in Nat /\ hbLeft \in Int /\ hbAge \in Nat
    /\ hbRenewed = hbLeft /\ hbOutcome = "running"
    /\ hbBusy /\ ~hbSlipped => hbLeft - hbDue >= hbSettings.lease - hbSettings.heartbeat
    /\ hbBusy => hbLeft - hbDue >= hbSettings.lease - 2 * hbSettings.heartbeat
    /\ ~hbSlipped => hbAge + hbDue <= HbTurn
    /\ hbAge + hbDue <= 2 * HbTurn

\* For every setting the validator accepts, a worker whose turns slip one at a time keeps its
\* lease, its attempt and its liveness.
THEOREM HbAlwaysAlive == HbSpec => []HbStaysAlive
<1>1. HbInit => HbInv
  <2> SUFFICES ASSUME HbInit PROVE HbInv
    OBVIOUS
  <2>1. hbSettings \in HbSettings /\ HbTimingsOk(hbSettings)
    BY HbBound DEF HbInit, HbSettings
  <2>2. HbTurn \in Nat
    BY <2>1 DEF HbTurn, HbLonger, HbSettings
  <2>3. ~hbBusy /\ ~hbSlipped /\ hbBusy \in BOOLEAN /\ hbSlipped \in BOOLEAN
    BY DEF HbInit
  <2>4. hbDue = 0 /\ hbLeft = 0 /\ hbRenewed = 0 /\ hbAge = 0 /\ hbOutcome = "running"
    BY DEF HbInit
  <2> QED BY <2>1, <2>2, <2>3, <2>4 DEF HbInv
<1>2. HbInv /\ [HbNext]_hbVars => HbInv'
  <2> SUFFICES ASSUME HbInv, [HbNext]_hbVars PROVE HbInv'
    OBVIOUS
  <2>0. /\ hbSettings.heartbeat \in Nat \ {0} /\ hbSettings.poll \in Nat \ {0}
        /\ hbSettings.lease \in Nat /\ hbSettings.maxAge \in Nat
        /\ HbTurn \in Nat /\ hbSettings.heartbeat <= HbTurn /\ hbSettings.poll <= HbTurn
        /\ hbSettings.lease > 2 * hbSettings.heartbeat
    BY DEF HbInv, HbSettings, HbTurn, HbLonger, HbTimingsOk
  <2>s. UNCHANGED hbSettings /\ UNCHANGED HbTurn
    BY DEF HbNext, HbIdleTurn, HbClaim, HbRenew, HbRenewFails, HbLate, HbAttemptEnds, HbTick, hbVars,
       HbTurn
  <2>1. CASE HbIdleTurn
    <3>1. ~hbBusy' /\ ~hbSlipped' /\ hbBusy' \in BOOLEAN /\ hbSlipped' \in BOOLEAN
      BY <2>1 DEF HbIdleTurn, HbInv
    <3>2. hbAge' = 0 /\ hbDue' = hbSettings.poll /\ UNCHANGED <<hbLeft, hbRenewed, hbOutcome>>
      BY <2>1 DEF HbIdleTurn, HbBeat
    <3> QED BY <2>0, <2>s, <3>1, <3>2 DEF HbInv
  <2>2. CASE HbClaim
    <3>1. hbBusy' /\ ~hbSlipped' /\ hbBusy' \in BOOLEAN /\ hbSlipped' \in BOOLEAN
      BY <2>2 DEF HbClaim
    <3>2. /\ hbAge' = 0 /\ hbDue' = hbSettings.heartbeat /\ UNCHANGED hbOutcome
          /\ hbLeft' = hbSettings.lease /\ hbRenewed' = hbSettings.lease
      BY <2>2 DEF HbClaim, HbBeat
    <3> QED BY <2>0, <2>s, <3>1, <3>2 DEF HbInv
  <2>3. CASE HbRenew
    <3>1. hbBusy' /\ ~hbSlipped' /\ hbBusy' \in BOOLEAN /\ hbSlipped' \in BOOLEAN
      BY <2>3 DEF HbRenew, HbInv
    <3>2. /\ hbAge' = 0 /\ hbDue' = hbSettings.heartbeat /\ UNCHANGED hbOutcome
          /\ hbLeft' = hbSettings.lease /\ hbRenewed' = hbSettings.lease
      BY <2>3 DEF HbRenew, HbBeat
    <3> QED BY <2>0, <2>s, <3>1, <3>2 DEF HbInv
  <2>4. CASE HbRenewFails
    <3>1. /\ hbBusy /\ ~hbSlipped /\ hbBusy' /\ hbSlipped' /\ hbDue = 0
          /\ hbBusy' \in BOOLEAN /\ hbSlipped' \in BOOLEAN
      BY <2>4 DEF HbRenewFails, HbInv
    <3>2. hbLeft \in Int /\ hbLeft > 0
      BY <2>0, <3>1 DEF HbInv
    <3>3. /\ hbAge' = 0 /\ hbDue' = hbSettings.heartbeat /\ UNCHANGED <<hbLeft, hbRenewed>>
          /\ hbOutcome' = "running"
      BY <2>4, <3>2 DEF HbRenewFails, HbBeat, HbInv
    <3> QED BY <2>0, <2>s, <3>1, <3>3 DEF HbInv
  <2>5. CASE HbLate
    <3>1. /\ ~hbSlipped /\ hbSlipped' /\ hbSlipped' \in BOOLEAN /\ hbDue = 0
          /\ UNCHANGED <<hbBusy, hbLeft, hbRenewed, hbAge, hbOutcome>>
      BY <2>5 DEF HbLate
    <3>2. hbDue' \in Nat /\ hbDue' <= HbTurn /\ (hbBusy => hbDue' <= hbSettings.heartbeat)
      BY <2>0, <2>5 DEF HbLate, HbInterval
    <3>3. hbBusy => hbLeft - hbDue' >= hbSettings.lease - 2 * hbSettings.heartbeat
      BY <2>0, <3>1, <3>2 DEF HbInv
    <3>4. hbAge \in Nat /\ hbAge + hbDue' <= 2 * HbTurn
      <4>1. hbAge \in Nat /\ hbAge + hbDue <= HbTurn /\ hbDue = 0
        BY <3>1 DEF HbInv
      <4>2. hbDue' \in Nat /\ hbDue' <= HbTurn /\ HbTurn \in Nat
        BY <2>0, <3>2
      <4>3. ASSUME NEW a \in Nat, NEW d \in Nat, NEW t \in Nat, a + 0 <= t, d <= t
            PROVE  a + d <= 2 * t
        BY <4>3
      <4> QED BY <4>1, <4>2, <4>3
    <3> QED BY <2>s, <3>1, <3>2, <3>3, <3>4 DEF HbInv
  <2>6. CASE HbAttemptEnds
    <3>1. /\ ~hbBusy' /\ hbBusy' \in BOOLEAN /\ hbDue' = 0 /\ hbLeft' = 0 /\ hbRenewed' = 0
          /\ UNCHANGED <<hbSlipped, hbAge, hbOutcome>>
      BY <2>6 DEF HbAttemptEnds
    <3> QED BY <2>0, <2>s, <3>1 DEF HbInv
  <2>7. CASE HbTick
    <3>1. /\ UNCHANGED <<hbBusy, hbSlipped, hbOutcome>>
          /\ hbDue > 0 /\ hbDue' = hbDue - 1 /\ hbAge' = hbAge + 1 /\ hbRenewed' = hbLeft'
          /\ hbLeft' \in Int /\ (hbBusy => hbLeft' = hbLeft - 1)
      BY <2>7 DEF HbTick, HbInv
    <3> QED BY <2>0, <2>s, <3>1 DEF HbInv
  <2>8. CASE UNCHANGED hbVars
    BY <2>s, <2>8 DEF hbVars, HbInv
  <2> QED BY <2>1, <2>2, <2>3, <2>4, <2>5, <2>6, <2>7, <2>8 DEF HbNext
<1>3. HbInv => HbStaysAlive
  <2> SUFFICES ASSUME HbInv PROVE HbStaysAlive
    OBVIOUS
  <2>0. /\ hbSettings.heartbeat \in Nat /\ hbSettings.lease \in Nat /\ hbSettings.maxAge \in Nat
        /\ HbTurn \in Nat /\ hbSettings.maxAge > 2 * HbTurn
        /\ hbSettings.lease > 2 * hbSettings.heartbeat
    BY DEF HbInv, HbSettings, HbTurn, HbLonger, HbTimingsOk
  <2> QED BY <2>0 DEF HbInv, HbStaysAlive, HbReapable, HbUnhealthy
<1> QED BY <1>1, <1>2, <1>3, PTL DEF HbSpec

-----------------------------------------------------------------------------
(* The request middleware.                                                 *)

\* A response has started at most once; it has not started while the application reads or has
\* still to send its start; and once the body was too long nothing of the application's is sent.
RqData ==
    /\ rqState \in {"new", "app", "returned", "closed"}
    /\ rqSeen \in [bytes : Nat, tooLarge : BOOLEAN, refused : BOOLEAN]
    /\ rqBody \in Seq(Nat) /\ rqGiven \in Nat /\ rqGiven <= RqMaxBytes
    /\ rqWire \in Seq(Nat) /\ Len(rqWire) <= 1

RqShape ==
    /\ \/ rqAnswering = << >>
       \/ \E s \in Nat : rqAnswering = <<s, 0>> /\ rqState \in {"app", "closed"}
       \/ rqAnswering = <<0>> /\ rqState \in {"app", "closed"}
    /\ rqState = "new" => rqAnswering = << >> /\ rqWire = << >>
    /\ rqState = "app" /\ Len(rqAnswering) # 1 => rqWire = << >>
RqOwed == rqState # "closed" /\ rqSeen.tooLarge /\ ~rqSeen.refused => rqWire = << >> /\ Len(rqAnswering) # 1
RqCut == rqSeen.tooLarge => \A i \in DOMAIN rqWire : rqWire[i] \in {413, 500}
RqTold == rqState = "closed" => \A i \in DOMAIN rqWire : rqRecorded = rqWire[i]

RqInv == RqData /\ RqShape /\ RqOwed /\ RqCut /\ RqTold

\* The statuses are numbers.
LEMMA RqStatusesTyped == RqStatuses \subseteq Nat
<1>1. \A c \in DOMAIN RqStatusFor : RqStatusFor[c] \in Nat
  BY DEF RqStatusFor
<1> QED BY <1>1 DEF RqStatuses

\* One response start, put on a wire that has none.
LEMMA RqFirstStart ==
  ASSUME rqWire = << >>, NEW s \in Nat, rqWire' = Append(rqWire, s)
  PROVE  /\ rqWire' = <<s>> /\ rqWire' \in Seq(Nat) /\ Len(rqWire') = 1
         /\ DOMAIN rqWire' = {1} /\ rqWire'[1] = s
  OBVIOUS

\* Arriving, reading and deciding put nothing of the application's on the wire.
LEMMA RqBefore ==
  ASSUME RqInv, \/ RqArriveDeclared
                \/ \E n \in 0 .. RqMaxChunks : \E chunks \in [1 .. n -> 0 .. (RqMaxBytes + 1)] : RqArrive(chunks)
                \/ RqReceive
                \/ \E status \in RqStatuses : RqHandle(status)
  PROVE  RqInv'
<1>1. CASE RqArriveDeclared
  <2>1. rqWire = << >> /\ rqWire' = Append(rqWire, 413) /\ rqState' = "closed" /\ rqRecorded' = 413
        /\ rqAnswering = << >>
    BY <1>1 DEF RqArriveDeclared, RqRefuse, RqInv, RqData, RqShape, RqOwed, RqCut, RqTold
  <2>2. rqWire' = <<413>> /\ rqWire' \in Seq(Nat) /\ Len(rqWire') = 1 /\ DOMAIN rqWire' = {1} /\ rqWire'[1] = 413
    BY <2>1, RqFirstStart
  <2> QED BY <1>1, <2>1, <2>2 DEF RqArriveDeclared, RqInv, RqData, RqShape, RqOwed, RqCut, RqTold
<1>2. ASSUME NEW n \in 0 .. RqMaxChunks, NEW chunks \in [1 .. n -> 0 .. (RqMaxBytes + 1)], RqArrive(chunks)
      PROVE  RqInv'
  <2>1. chunks \in Seq(Nat)
    <3>1. 0 .. (RqMaxBytes + 1) \subseteq Nat /\ n \in Nat
      BY RqBounds
    <3>2. chunks \in [1 .. n -> Nat]
      BY <3>1
    <3> QED BY <3>1, <3>2
  <2> QED BY <1>2, <2>1 DEF RqArrive, RqInv, RqData, RqShape, RqOwed, RqCut, RqTold
<1>3. CASE RqReceive
  <2> DEFINE size  == IF rqBody = << >> THEN 0 ELSE Head(rqBody)
             bytes == rqSeen.bytes + size
             over  == bytes > RqMaxBytes
  <2>1. size \in Nat /\ bytes \in Nat /\ rqSeen.bytes \in Nat /\ over \in BOOLEAN
    BY DEF RqInv, RqData, RqShape, RqOwed, RqCut, RqTold
  <2>2. /\ rqSeen' = [rqSeen EXCEPT !.bytes = bytes, !.tooLarge = over]
        /\ rqBody' = IF rqBody = << >> THEN << >> ELSE Tail(rqBody)
        /\ rqGiven' = IF over THEN rqGiven ELSE bytes
        /\ rqState = "app" /\ rqAnswering = << >>
        /\ UNCHANGED <<rqState, rqAnswering, rqWire, rqRecorded>>
    BY <1>3 DEF RqReceive
  <2> HIDE DEF size, bytes, over
  <2>3. rqSeen' \in [bytes : Nat, tooLarge : BOOLEAN, refused : BOOLEAN]
    BY <2>1, <2>2 DEF RqInv, RqData, RqShape, RqOwed, RqCut, RqTold
  <2>4. rqBody' \in Seq(Nat)
    BY <2>2 DEF RqInv, RqData, RqShape, RqOwed, RqCut, RqTold
  <2>5. rqGiven' \in Nat /\ rqGiven' <= RqMaxBytes
    BY <2>1, <2>2, RqBounds DEF RqInv, RqData, RqShape, RqOwed, RqCut, RqTold, over
  <2>6. rqWire = << >>
    BY <2>2 DEF RqInv, RqData, RqShape, RqOwed, RqCut, RqTold
  <2> QED BY <2>2, <2>3, <2>4, <2>5, <2>6 DEF RqInv, RqData, RqShape, RqOwed, RqCut, RqTold
<1>4. ASSUME NEW status \in RqStatuses, RqHandle(status)
      PROVE  RqInv'
  <2>1. status \in Nat /\ rqAnswering' = <<status, 0>> /\ rqState = "app" /\ rqWire = << >>
        /\ UNCHANGED <<rqState, rqBody, rqSeen, rqGiven, rqWire, rqRecorded>>
    BY <1>4, RqStatusesTyped DEF RqHandle
  <2>2. Len(rqAnswering') = 2
    BY <2>1
  <2> QED BY <2>1, <2>2 DEF RqInv, RqData, RqShape, RqOwed, RqCut, RqTold
<1> QED BY <1>1, <1>2, <1>3, <1>4

\* What is sent: the application's start, or the one 413 in its place.
LEMMA RqSends ==
  ASSUME RqInv, RqSend
  PROVE  RqInv'
<1>0. /\ rqState = "app" /\ rqAnswering # << >> /\ rqAnswering' = Tail(rqAnswering)
      /\ rqState' = IF Len(rqAnswering) = 1 THEN "returned" ELSE "app"
      /\ UNCHANGED <<rqBody, rqGiven, rqEnd, rqRecorded>>
  BY DEF RqSend
<1>1. CASE \E s \in Nat : rqAnswering = <<s, 0>>
  <2>1. PICK s \in Nat : rqAnswering = <<s, 0>>
    BY <1>1
  <2>2. Head(rqAnswering) = s /\ rqAnswering' = <<0>> /\ Len(rqAnswering) = 2 /\ Len(rqAnswering') = 1
    BY <1>0, <2>1
  <2>3. rqState' = "app" /\ rqWire = << >>
    BY <1>0, <2>2 DEF RqInv, RqData, RqShape, RqOwed, RqCut, RqTold
  <2>4. CASE ~rqSeen.tooLarge
    <3>1. UNCHANGED rqSeen /\ (rqWire' = << >> \/ rqWire' = Append(rqWire, s))
      BY <2>2, <2>3, <2>4 DEF RqSend
    <3>2. rqWire' \in Seq(Nat) /\ Len(rqWire') <= 1
      <4>1. CASE rqWire' = << >>
        BY <4>1
      <4>2. CASE rqWire' = Append(rqWire, s)
        <5>1. rqWire' \in Seq(Nat) /\ Len(rqWire') = 1
          BY <2>3, <4>2, RqFirstStart
        <5> QED BY <5>1
      <4> QED BY <3>1, <4>1, <4>2
    <3>3. RqData' /\ RqShape'
      BY <1>0, <2>2, <2>3, <3>1, <3>2 DEF RqInv, RqData, RqShape
    <3>4. RqOwed' /\ RqCut' /\ RqTold'
      BY <2>3, <2>4, <3>1 DEF RqOwed, RqCut, RqTold
    <3> QED BY <3>3, <3>4 DEF RqInv
  <2>5. CASE rqSeen.tooLarge
    <3>0. ~rqSeen.refused \/ rqSeen.refused
      OBVIOUS
    <3>1. CASE ~rqSeen.refused
      <4>1. rqWire' = Append(rqWire, 413) /\ rqSeen' = [rqSeen EXCEPT !.refused = TRUE]
        BY <2>5, <3>1 DEF RqSend, RqRefuse
      <4>2. rqWire' = <<413>> /\ rqWire' \in Seq(Nat) /\ Len(rqWire') = 1 /\ DOMAIN rqWire' = {1} /\ rqWire'[1] = 413
        BY <2>3, <4>1, RqFirstStart
      <4>3. rqSeen' \in [bytes : Nat, tooLarge : BOOLEAN, refused : BOOLEAN] /\ rqSeen'.refused
        BY <4>1 DEF RqInv, RqData, RqShape, RqOwed, RqCut, RqTold
      <4>4. RqData'
        BY <1>0, <2>3, <4>2, <4>3 DEF RqInv, RqData
      <4>6. RqShape'
        BY <2>2, <2>3 DEF RqShape
      <4>5. RqOwed' /\ RqCut' /\ RqTold'
        BY <2>3, <4>2, <4>3 DEF RqOwed, RqCut, RqTold
      <4> QED BY <4>4, <4>5, <4>6 DEF RqInv
    <3>2. CASE rqSeen.refused
      <4>1. UNCHANGED <<rqWire, rqSeen>>
        BY <2>5, <3>2 DEF RqSend
      <4>2. RqData' /\ RqShape'
        BY <1>0, <2>2, <2>3, <4>1 DEF RqInv, RqData, RqShape
      <4>3. RqOwed' /\ RqCut' /\ RqTold'
        <5>1. DOMAIN rqWire' = {}
          BY <2>3, <4>1
        <5> QED BY <2>3, <3>2, <4>1, <5>1 DEF RqOwed, RqCut, RqTold
      <4> QED BY <4>2, <4>3 DEF RqInv
    <3> QED BY <3>0, <3>1, <3>2
  <2> QED BY <2>4, <2>5
<1>2. CASE rqAnswering = <<0>>
  <2>1. Head(rqAnswering) = 0 /\ rqAnswering' = << >> /\ Len(rqAnswering) = 1 /\ Len(rqAnswering') = 0
    BY <1>0, <1>2
  <2>2. rqState' = "returned"
    BY <1>0, <2>1
  <2>3. ~(rqSeen.tooLarge /\ ~rqSeen.refused)
    BY <1>0, <2>1 DEF RqInv, RqData, RqShape, RqOwed, RqCut, RqTold
  <2>4. UNCHANGED <<rqWire, rqSeen>>
    BY <2>1, <2>3 DEF RqSend
  <2> QED BY <1>0, <2>1, <2>2, <2>3, <2>4 DEF RqInv, RqData, RqShape, RqOwed, RqCut, RqTold
<1> QED BY <1>0, <1>1, <1>2 DEF RqInv, RqData, RqShape, RqOwed, RqCut, RqTold

\* The end of a request: the 413 it still owes, or the 500 of an exception, or what was sent.
LEMMA RqEnds ==
  ASSUME RqInv, RqDisconnect \/ RqReturn \/ RqRaise
  PROVE  RqInv'
<1>0. rqWire \in Seq(Nat) /\ Len(rqWire) \in Nat /\ Len(rqWire) <= 1
  BY DEF RqInv, RqData, RqShape, RqOwed, RqCut, RqTold
<1>w. ASSUME rqWire # << >>
      PROVE  Len(rqWire) = 1 /\ DOMAIN rqWire = {1}
  <2>1. Len(rqWire) # 0
    BY <1>0, <1>w, EmptySeq
  <2>0. \A n \in Nat : n <= 1 /\ n # 0 => n = 1
    OBVIOUS
  <2>2. Len(rqWire) = 1
    BY <1>0, <2>0, <2>1, Zenon
  <2>3. DOMAIN rqWire = 1 .. Len(rqWire)
    BY <1>0
  <2> QED BY <2>2, <2>3
<1>1. CASE RqDisconnect
  <2>1. rqState' = "returned" /\ rqAnswering = << >> /\ rqState = "app" /\ Len(rqAnswering) = 0
        /\ UNCHANGED <<rqBody, rqSeen, rqGiven, rqAnswering, rqWire, rqRecorded>>
    BY <1>1 DEF RqDisconnect
  <2>2. RqData' /\ RqShape'
    BY <2>1 DEF RqInv, RqData, RqShape
  <2>3. RqOwed' /\ RqCut' /\ RqTold'
    BY <2>1 DEF RqInv, RqShape, RqOwed, RqCut, RqTold
  <2> QED BY <2>2, <2>3 DEF RqInv
<1>2. CASE RqReturn
  <2>0. /\ rqState = "returned" /\ rqState' = "closed" /\ rqAnswering = << >>
        /\ UNCHANGED <<rqBody, rqSeen, rqGiven, rqEnd, rqAnswering>>
    BY <1>2 DEF RqReturn, RqInv, RqData, RqShape, RqOwed, RqCut, RqTold
  <2>1. CASE rqSeen.tooLarge /\ ~rqSeen.refused
    <3>1. rqWire = << >> /\ rqWire' = Append(rqWire, 413)
      BY <1>2, <2>0, <2>1 DEF RqReturn, RqRefuse, RqInv, RqData, RqShape, RqOwed, RqCut, RqTold
    <3>2. rqWire' = <<413>> /\ rqWire' \in Seq(Nat) /\ Len(rqWire') = 1 /\ DOMAIN rqWire' = {1} /\ rqWire'[1] = 413
      BY <3>1, RqFirstStart
    <3>3. rqRecorded' = 413
      BY <1>2, <3>2 DEF RqReturn
    <3> QED BY <2>0, <3>2, <3>3 DEF RqInv, RqData, RqShape, RqOwed, RqCut, RqTold
  <2>2. CASE ~(rqSeen.tooLarge /\ ~rqSeen.refused)
    <3>1. UNCHANGED rqWire
      BY <1>2, <2>2 DEF RqReturn
    <3>2. CASE rqWire = << >>
      <4>1. DOMAIN rqWire' = {}
        BY <3>1, <3>2
      <4> QED BY <2>0, <3>1, <3>2, <4>1 DEF RqInv, RqData, RqShape, RqOwed, RqCut, RqTold
    <3>3. CASE rqWire # << >>
      <4>1. rqRecorded' = rqWire[1] /\ DOMAIN rqWire = {1}
        BY <1>2, <1>w, <3>1, <3>3 DEF RqReturn
      <4> QED BY <2>0, <3>1, <4>1 DEF RqInv, RqData, RqShape, RqOwed, RqCut, RqTold
    <3> QED BY <3>2, <3>3
  <2> QED BY <2>1, <2>2
<1>3. CASE RqRaise
  <2>0. /\ rqState = "app" /\ rqState' = "closed"
        /\ UNCHANGED <<rqBody, rqSeen, rqGiven, rqEnd, rqAnswering>>
    BY <1>3 DEF RqRaise
  <2>1. CASE rqWire = << >>
    <3>1. rqWire' = <<500>> /\ rqRecorded' = 500
      BY <1>3, <2>1 DEF RqRaise
    <3>2. rqWire' \in Seq(Nat) /\ Len(rqWire') = 1 /\ DOMAIN rqWire' = {1} /\ rqWire'[1] = 500
      BY <3>1
    <3> QED BY <2>0, <3>1, <3>2 DEF RqInv, RqData, RqShape, RqOwed, RqCut, RqTold
  <2>2. CASE rqWire # << >>
    <3>1. rqWire' = rqWire /\ rqRecorded' = rqWire[1] /\ DOMAIN rqWire = {1}
      BY <1>3, <1>w, <2>2 DEF RqRaise
    <3> QED BY <2>0, <3>1 DEF RqInv, RqData, RqShape, RqOwed, RqCut, RqTold
  <2> QED BY <2>1, <2>2
<1> QED BY <1>1, <1>2, <1>3

\* However a request's body, its answer, a disconnection and an exception interleave, one response
\* starts, the limit holds and the metrics record what was sent.
THEOREM RqAlwaysOneAnswer == RqSpec => []RqOneTrueAnswer
<1>1. RqInit => RqInv
  BY RqBounds DEF RqInit, RqInv, RqData, RqShape, RqOwed, RqCut, RqTold, RqQuiet
<1>2. RqInv /\ [RqNext]_rqVars => RqInv'
  <2> SUFFICES ASSUME RqInv, [RqNext]_rqVars PROVE RqInv'
    OBVIOUS
  <2>1. CASE UNCHANGED rqVars
    BY <2>1 DEF rqVars, RqInv, RqData, RqShape, RqOwed, RqCut, RqTold
  <2> QED BY <2>1, RqBefore, RqSends, RqEnds DEF RqNext
<1>3. RqInv => RqOneTrueAnswer
  BY DEF RqInv, RqData, RqShape, RqOwed, RqCut, RqTold, RqOneTrueAnswer
<1> QED BY <1>1, <1>2, <1>3, PTL DEF RqSpec

-----------------------------------------------------------------------------
(* Sinks.                                                                  *)

\* The steps before the receiver can have anything of this try.
SkEarly == {"write", "check", "post", "connect", "publish", "produce"}

SkData ==
    /\ skSink \in SkHttp \cup SkAws \cup SkSessions \cup {"log", "kafka"}
    /\ skTry \in Nat /\ skStep \in SkEarly \cup {"idle", "confirm", "flush"}
    /\ skAccepted \subseteq 1 .. skTry /\ skBuffer \subseteq 1 .. skTry
    /\ skAcks \subseteq [try : 1 .. skTry, error : {"no", "retriable", "fatal"}]
    /\ skOut \in [kind : {"none", "sending", "ok", "retry", "dead"}, try : Nat]
    /\ skOut.try = skTry /\ (skStep # "idle" => skTry # 0)
    /\ skStep = "idle" <=> skOut.kind # "sending"

\* Where this try's message is, by step.
SkPlaced ==
    /\ skStep \in SkEarly =>
          skTry \notin skAccepted \cup skBuffer /\ \A k \in skAcks : k.try # skTry
    /\ skStep = "confirm" => skTry \in skAccepted
    /\ skStep = "flush" => skTry \in skBuffer \/ \E k \in skAcks : k.try = skTry

\* A callback runs once for a record, and tells whether the broker has it.
SkCallbacks ==
    \A k \in skAcks :
        /\ k.try \notin skBuffer
        /\ k.error = "no" <=> k.try \in skAccepted
        /\ \A j \in skAcks : j.try = k.try => j = k

\* A record is accepted only by leaving the buffer.
SkBuffered == skBuffer \cap skAccepted = {}

SkInv == SkData /\ SkPlaced /\ SkCallbacks /\ SkBuffered /\ SkOutcomeIsTrue

\* What a send that starts does not have yet.
LEMMA SkStarts == SkInv /\ SkSend => SkInv'
<1> SUFFICES ASSUME SkInv, SkSend PROVE SkInv'
  OBVIOUS
<1>1. skTry \in Nat /\ skTry' = skTry + 1 /\ UNCHANGED <<skSink, skAccepted, skBuffer, skAcks>>
  BY DEF SkSend, SkInv, SkData
<1>2. skStep' \in SkEarly
  BY DEF SkSend, SkInv, SkData, SkEarly
<1>3. skStep' # "idle" /\ skStep' # "confirm" /\ skStep' # "flush"
  BY <1>2 DEF SkEarly
<1>4. skOut' = [kind |-> "sending", try |-> skTry']
  BY <1>1 DEF SkSend
<1>5. SkData'
  BY <1>1, <1>2, <1>3, <1>4 DEF SkInv, SkData
<1>6. SkPlaced'
  BY <1>1, <1>3 DEF SkInv, SkData, SkPlaced
<1>7. SkCallbacks' /\ SkBuffered' /\ SkOutcomeIsTrue'
  BY <1>1, <1>4 DEF SkInv, SkCallbacks, SkBuffered, SkOutcomeIsTrue
<1> QED BY <1>5, <1>6, <1>7 DEF SkInv

\* A step before the message is out that gives up, goes on, or is answered.
LEMMA SkPosts ==
  ASSUME SkInv, SkLog \/ SkCheck \/ SkPostLost \/ (\E s \in SkAnswers : SkPost(s))
                \/ (\E o \in {"open", "unreachable", "not_like_this"} : SkConnect(o))
                \/ (\E s \in {"taken", "broken", "busy", "refused"} : SkPublish(s))
  PROVE  SkInv'
<1>0. /\ skStep \in SkEarly /\ UNCHANGED <<skSink, skTry, skBuffer, skAcks>>
      /\ skTry \in Nat /\ skTry \in 1 .. skTry
  <2>1. skStep \in SkEarly /\ UNCHANGED <<skSink, skTry, skBuffer, skAcks>>
    BY DEF SkLog, SkCheck, SkPostLost, SkPost, SkConnect, SkPublish, SkEarly
  <2>2. skTry \in Nat /\ (skStep # "idle" => skTry # 0)
    BY DEF SkInv, SkData
  <2>3. skStep # "idle"
    BY <2>1 DEF SkEarly
  <2> QED BY <2>1, <2>2, <2>3
<1>1. \/ /\ skAccepted' = skAccepted
         /\ \/ skStep' \in {"post", "publish"} /\ skOut' = skOut
            \/ skStep' = "idle" /\ \E kind \in {"retry", "dead"} :
                                      skOut' = [kind |-> kind, try |-> skTry]
      \/ /\ skAccepted' = skAccepted \cup {skTry}
         /\ \/ skStep' = "confirm" /\ skOut' = skOut
            \/ skStep' = "idle" /\ \E kind \in {"retry", "ok"} :
                                      skOut' = [kind |-> kind, try |-> skTry]
  BY DEF SkLog, SkCheck, SkPostLost, SkPost, SkConnect, SkPublish, SkAnswers, SkRetryable,
         SkAccept, SkFails, SkEnds
<1>2. skOut.kind = "sending" /\ skOut.try = skTry
  BY <1>0 DEF SkInv, SkData, SkEarly
<1>3. SkData'
  <2>1. skAccepted' \subseteq 1 .. skTry
    BY <1>0, <1>1 DEF SkInv, SkData
  <2>2. /\ skOut' \in [kind : {"none", "sending", "ok", "retry", "dead"}, try : Nat]
        /\ skOut'.try = skTry /\ (skStep' = "idle" <=> skOut'.kind # "sending")
        /\ skStep' \in SkEarly \cup {"idle", "confirm", "flush"}
    BY <1>0, <1>1, <1>2 DEF SkInv, SkData, SkEarly
  <2>3. skTry # 0
    BY <1>0
  <2> QED BY <1>0, <2>1, <2>2, <2>3 DEF SkInv, SkData
<1>4. SkPlaced'
  BY <1>0, <1>1 DEF SkInv, SkPlaced, SkEarly
<1>5. SkCallbacks' /\ SkBuffered'
  BY <1>0, <1>1 DEF SkInv, SkPlaced, SkCallbacks, SkBuffered
<1>6. SkOutcomeIsTrue'
  BY <1>0, <1>1, <1>2 DEF SkInv, SkPlaced, SkOutcomeIsTrue
<1> QED BY <1>3, <1>4, <1>5, <1>6 DEF SkInv

\* A session that is confirmed, a record that is buffered, a flush.
LEMMA SkReturns ==
  ASSUME SkInv, SkFlush \/ \E b \in BOOLEAN : SkConfirm(b) \/ SkProduce(b)
  PROVE  SkInv'
<1>0. skTry \in Nat /\ skOut.try = skTry
  BY DEF SkInv, SkData
<1>1. CASE SkFlush
  <2>0. skStep = "flush" /\ UNCHANGED <<skSink, skTry, skAccepted, skBuffer, skAcks>>
    BY <1>1 DEF SkFlush
  <2>1. PICK kind \in {"ok", "retry", "dead"} :
           /\ skOut' = [kind |-> kind, try |-> skTry] /\ skStep' = "idle"
           /\ kind = "ok" => \E k \in skAcks : k.try = skTry /\ k.error = "no"
           /\ kind = "dead" => skBuffer = {} /\ \E k \in skAcks : k.try = skTry /\ k.error # "no"
    BY <1>1 DEF SkFlush, SkAcked, SkFails, SkEnds
  <2>2. SkData'
    BY <2>0, <2>1 DEF SkInv, SkData, SkEarly
  <2>3. SkPlaced' /\ SkCallbacks' /\ SkBuffered'
    BY <2>0, <2>1 DEF SkInv, SkPlaced, SkCallbacks, SkBuffered, SkEarly
  <2>4. SkOutcomeIsTrue'
    BY <2>0, <2>1 DEF SkInv, SkCallbacks, SkOutcomeIsTrue
  <2> QED BY <2>2, <2>3, <2>4 DEF SkInv
<1>2. ASSUME NEW b \in BOOLEAN, SkConfirm(b)
      PROVE  SkInv'
  <2>0. skStep = "confirm" /\ UNCHANGED <<skSink, skTry, skAccepted, skBuffer, skAcks>>
    BY <1>2 DEF SkConfirm
  <2>1. skStep' = "idle" /\ \E kind \in {"ok", "retry"} : skOut' = [kind |-> kind, try |-> skTry]
    BY <1>2 DEF SkConfirm, SkConfirms, SkFails, SkEnds
  <2>2. SkData'
    BY <2>0, <2>1 DEF SkInv, SkData, SkEarly
  <2>3. SkPlaced' /\ SkCallbacks' /\ SkBuffered'
    BY <2>0, <2>1 DEF SkInv, SkPlaced, SkCallbacks, SkBuffered, SkEarly
  <2>4. SkOutcomeIsTrue'
    BY <2>0, <2>1 DEF SkInv, SkPlaced, SkOutcomeIsTrue
  <2> QED BY <2>2, <2>3, <2>4 DEF SkInv
<1>3. ASSUME NEW b \in BOOLEAN, SkProduce(b)
      PROVE  SkInv'
  <2>0. skStep = "produce" /\ UNCHANGED <<skSink, skTry, skAccepted, skAcks>>
    BY <1>3 DEF SkProduce
  <2>1. \/ /\ skBuffer' = skBuffer /\ skStep' = "idle"
           /\ skOut' = [kind |-> "retry", try |-> skTry]
        \/ skBuffer' = skBuffer \cup {skTry} /\ skStep' = "flush" /\ skOut' = skOut
    BY <1>3 DEF SkProduce, SkFails, SkEnds
  <2>2. skOut.kind = "sending" /\ skTry \in 1 .. skTry
    BY <1>0, <2>0 DEF SkInv, SkData, SkEarly
  <2>3. SkData'
    <3>1. skBuffer' \subseteq 1 .. skTry
      BY <2>1, <2>2 DEF SkInv, SkData
    <3>2. /\ skOut' \in [kind : {"none", "sending", "ok", "retry", "dead"}, try : Nat]
          /\ skOut'.try = skTry /\ (skStep' = "idle" <=> skOut'.kind # "sending")
          /\ skStep' \in SkEarly \cup {"idle", "confirm", "flush"}
      BY <1>0, <2>0, <2>1, <2>2 DEF SkInv, SkData, SkEarly
    <3>3. skTry # 0
      BY <1>0, <2>2
    <3> QED BY <2>0, <3>1, <3>2, <3>3 DEF SkInv, SkData
  <2>4. SkPlaced' /\ SkCallbacks' /\ SkBuffered' /\ SkOutcomeIsTrue'
    BY <2>0, <2>1, <2>2 DEF SkInv, SkPlaced, SkCallbacks, SkBuffered, SkOutcomeIsTrue, SkEarly
  <2> QED BY <2>3, <2>4 DEF SkInv
<1> QED BY <1>1, <1>2, <1>3

\* A delivery callback, perhaps of an earlier try, perhaps long after its send has returned.
LEMMA SkRecords ==
  ASSUME SkInv, NEW t \in skBuffer, NEW e \in {"no", "retriable", "fatal"}, SkRecord(t, e)
  PROVE  SkInv'
<1>0. /\ skBuffer' = skBuffer \ {t} /\ UNCHANGED <<skSink, skTry, skStep, skOut>>
      /\ skAcks' = skAcks \cup {[try |-> t, error |-> e]}
      /\ skAccepted' = IF e = "no" THEN skAccepted \cup {t} ELSE skAccepted
      /\ t \notin skAccepted
  BY DEF SkRecord, SkInv, SkBuffered
<1>1. SkData'
  BY <1>0 DEF SkInv, SkData
<1>2. SkPlaced'
  <2>1. skStep \in SkEarly =>
          skTry \notin skAccepted' \cup skBuffer' /\ \A k \in skAcks' : k.try # skTry
    BY <1>0 DEF SkInv, SkPlaced
  <2>2. skStep = "flush" => skTry \in skBuffer' \/ \E k \in skAcks' : k.try = skTry
    <3>1. CASE t = skTry
      <4>1. [try |-> t, error |-> e] \in skAcks' /\ [try |-> t, error |-> e].try = skTry
        BY <1>0, <3>1
      <4> QED BY <4>1
    <3>2. CASE t # skTry
      BY <1>0, <3>2 DEF SkInv, SkPlaced
    <3> QED BY <3>1, <3>2
  <2> QED BY <1>0, <2>1, <2>2 DEF SkInv, SkPlaced
<1>3. SkCallbacks'
  <2>1. \A k \in skAcks : k.try # t
    BY DEF SkInv, SkCallbacks
  <2> QED BY <1>0, <2>1 DEF SkInv, SkCallbacks
<1>4. SkBuffered' /\ SkOutcomeIsTrue'
  BY <1>0 DEF SkInv, SkData, SkBuffered, SkOutcomeIsTrue
<1> QED BY <1>1, <1>2, <1>3, <1>4 DEF SkInv

\* For any number of tries of any sink, with late callbacks and lost answers: a send that returned
\* has reached the receiver and one that is not worth a retry never will.
THEOREM SkAlwaysTrue == SkSpec => []SkOutcomeIsTrue
<1>1. SkInit => SkInv
  BY DEF SkInit, SkInv, SkData, SkPlaced, SkCallbacks, SkBuffered, SkOutcomeIsTrue, SkEarly
<1>2. SkInv /\ [SkNext]_skVars => SkInv'
  <2> SUFFICES ASSUME SkInv, [SkNext]_skVars PROVE SkInv'
    OBVIOUS
  <2>1. CASE UNCHANGED skVars
    BY <2>1 DEF skVars, SkInv, SkData, SkPlaced, SkCallbacks, SkBuffered, SkOutcomeIsTrue
  <2> QED BY <2>1, SkStarts, SkPosts, SkReturns, SkRecords DEF SkNext
<1>3. SkInv => SkOutcomeIsTrue
  BY DEF SkInv
<1> QED BY <1>1, <1>2, <1>3, PTL DEF SkSpec

-----------------------------------------------------------------------------
(* Intake.                                                                 *)

InCalls == [pc : {"idle", "submit", "insert", "answered"}, left : SUBSET Nat,
            fresh : BOOLEAN, answer : {0, 200, 201, 409, 422}]

InJobOf(r) == [key |-> InKey(r), model |-> r.model, id |-> r.id]

InData ==
    /\ inPayload \in Seq(InRecords)
    /\ inCall \in [InThreads -> InCalls]
    /\ inJobs \in Seq({InJobOf(r) : r \in InRecords})
    /\ inLock \in [InModels -> Nat]

\* A call still has to submit what it has left, and has seen a job of everything else.
InCallFits(t) ==
    /\ inCall[t].left \subseteq InSelected
    /\ inCall[t].pc = "insert" => inCall[t].left # {}
    /\ inCall[t].pc \in {"submit", "insert"} =>
          /\ InMaps /\ inCall[t].answer = 0
          /\ \A i \in InSelected \ inCall[t].left : InHas(InKey(inPayload[i]))
    /\ inCall[t].answer \in {200, 201} => \A i \in InSelected : InHas(InKey(inPayload[i]))

InKeysApart == \A i, j \in DOMAIN inJobs : inJobs[i].key = inJobs[j].key => i = j

InInv ==
    /\ InData /\ InKeysApart
    /\ \A t \in InThreads : InCallFits(t)
    /\ inJobs # << >> => InMaps

\* Every set of natural numbers has a least element.
LEMMA LeastNat ==
  ASSUME NEW T, T \subseteq Nat, T # {}
  PROVE  \E x \in T : \A y \in T : x <= y
<1>1. PICK x \in T : \A y \in T : ~(<<y, x>> \in OpToRel(<, Nat))
  BY WFMin, NatLessThanWellFounded, Zenon
<1>2. \A y \in T : ~(y < x)
  BY <1>1 DEF OpToRel
<1> QED BY <1>2

\* A key tells the model and the event id of its record.
LEMMA InKeyTells ==
  ASSUME NEW r \in InRecords, NEW s \in InRecords, InKey(r) = InKey(s)
  PROVE  r.model = s.model /\ r.id = s.id
<1>1. CASE r.id # InMissing /\ s.id # InMissing
  <2>1. <<r.model, "id", r.id>> = <<s.model, "id", s.id>>
    BY <1>1 DEF InKey
  <2> QED BY <2>1
<1>2. CASE r.id = InMissing /\ s.id = InMissing
  <2>1. <<r.model, "content", r>> = <<s.model, "content", s>>
    BY <1>2 DEF InKey
  <2> QED BY <2>1
<1>3. CASE r.id = InMissing /\ s.id # InMissing
  <2>1. <<r.model, "content", r>> = <<s.model, "id", s.id>>
    BY <1>3 DEF InKey
  <2>2. "content" = "id"
    BY <2>1
  <2> QED BY <2>2
<1>4. CASE r.id # InMissing /\ s.id = InMissing
  <2>1. <<r.model, "id", r.id>> = <<s.model, "content", s>>
    BY <1>4 DEF InKey
  <2>2. "content" = "id"
    BY <2>1
  <2> QED BY <2>2
<1> QED BY <1>1, <1>2, <1>3, <1>4

\* The event whose turn it is, is one of those that are left.
LEMMA InTurnIsLeft ==
  ASSUME InData, NEW t \in InThreads, InCallFits(t), inCall[t].left # {}
  PROVE  /\ InTurn(inCall[t]) \in inCall[t].left
         /\ InTurn(inCall[t]) \in InSelected
         /\ inPayload[InTurn(inCall[t])] \in InRecords
<1>1. inCall[t].left \subseteq Nat /\ InSelected \subseteq DOMAIN inPayload
  BY DEF InData, InCallFits, InCalls, InSelected
<1>2. \E i \in inCall[t].left : \A j \in inCall[t].left : i <= j
  BY <1>1, LeastNat
<1>3. InTurn(inCall[t]) \in inCall[t].left
  BY <1>2 DEF InTurn
<1>4. InTurn(inCall[t]) \in InSelected
  BY <1>3 DEF InCallFits
<1>5. inPayload \in Seq(InRecords) /\ InTurn(inCall[t]) \in 1 .. Len(inPayload)
  BY <1>1, <1>4 DEF InData
<1>6. inPayload[InTurn(inCall[t])] \in InRecords
  BY <1>5, ElementOfSeq
<1> QED BY <1>3, <1>4, <1>6

\* A step of one thread, or of a lock, leaves the others accounted for: no job is ever taken back.
LEMMA InOthers ==
  ASSUME NEW s \in InThreads, InCallFits(s), inCall'[s] = inCall[s], UNCHANGED inPayload,
         \A k : (\E i \in DOMAIN inJobs : inJobs[i].key = k)
                => \E i \in DOMAIN inJobs' : inJobs'[i].key = k
  PROVE  InCallFits(s)'
BY DEF InCallFits, InSelected, InMaps, InHas

\* A new row changes no other.
LEMMA InGrows ==
  ASSUME InData, NEW r \in InRecords, inJobs' = Append(inJobs, InJobOf(r))
  PROVE  /\ inJobs' \in Seq({InJobOf(q) : q \in InRecords}) /\ inJobs' # << >>
         /\ DOMAIN inJobs = 1 .. Len(inJobs) /\ DOMAIN inJobs' = 1 .. Len(inJobs) + 1
         /\ Len(inJobs) \in Nat /\ Len(inJobs') = Len(inJobs) + 1
         /\ \A i \in DOMAIN inJobs : inJobs'[i] = inJobs[i]
         /\ inJobs'[Len(inJobs) + 1] = InJobOf(r)
<1> DEFINE S == {InJobOf(q) : q \in InRecords}
<1>1. inJobs \in Seq(S) /\ InJobOf(r) \in S
  BY DEF InData
<1> HIDE DEF S
<1>2. /\ inJobs' \in Seq(S) /\ inJobs' # << >> /\ Len(inJobs') = Len(inJobs) + 1
      /\ \A i \in 1 .. Len(inJobs) : inJobs'[i] = inJobs[i]
      /\ inJobs'[Len(inJobs) + 1] = InJobOf(r)
  BY <1>1, AppendProperties
<1>3. Len(inJobs) \in Nat /\ DOMAIN inJobs = 1 .. Len(inJobs) /\ DOMAIN inJobs' = 1 .. Len(inJobs')
  BY <1>1, <1>2, LenProperties
<1> QED BY <1>2, <1>3 DEF S

\* A call at rest has nothing to submit.
LEMMA InIdleTyped == InIdle \in InCalls /\ InIdle.left = {} /\ InIdle.answer = 0 /\ InIdle.pc = "idle"
BY DEF InIdle, InCalls

\* A request that is answered.
LEMMA InAnswered ==
  ASSUME NEW a \in {0, 200, 201, 409, 422}
  PROVE  /\ InAnswers(a) \in InCalls
         /\ InAnswers(a).pc = "answered" /\ InAnswers(a).answer = a /\ InAnswers(a).left = {}
BY DEF InAnswers, InCalls

\* A post: refused as a whole, or every record that fires is left to submit.
LEMMA InPosts ==
  ASSUME InInv, NEW t \in InThreads, InPost(t)
  PROVE  InInv'
<1>0. UNCHANGED <<inPayload, inJobs, inLock>> /\ UNCHANGED InSelected /\ UNCHANGED InMaps
  BY DEF InPost, InSelected, InMaps
<1>1. PICK c : /\ inCall' = [inCall EXCEPT ![t] = c]
               /\ \/ /\ InMaps
                     /\ c = [pc |-> "submit", left |-> InSelected, fresh |-> FALSE, answer |-> 0]
                  \/ c = InAnswers(422)
  BY DEF InPost
<1>2. InSelected \subseteq Nat
  <2>1. DOMAIN inPayload = 1 .. Len(inPayload)
    BY LenProperties DEF InInv, InData
  <2> QED BY <2>1 DEF InSelected
<1>3. /\ c \in InCalls
      /\ \/ InMaps /\ c.pc = "submit" /\ c.left = InSelected /\ c.answer = 0
         \/ c.pc = "answered" /\ c.left = {} /\ c.answer = 422
  <2>1. CASE InMaps /\ c = [pc |-> "submit", left |-> InSelected, fresh |-> FALSE, answer |-> 0]
    BY <1>2, <2>1 DEF InCalls
  <2>2. CASE c = InAnswers(422)
    BY <2>2, InIdleTyped, InAnswered
  <2> QED BY <1>1, <2>1, <2>2
<1>4. inCall' \in [InThreads -> InCalls] /\ inCall'[t] = c
      /\ \A s \in InThreads \ {t} : inCall'[s] = inCall[s]
  BY <1>1, <1>3 DEF InInv, InData
<1>5. InCallFits(t)'
  BY <1>0, <1>3, <1>4 DEF InCallFits
<1>6. \A s \in InThreads \ {t} : InCallFits(s)'
  BY <1>0, <1>4, InOthers DEF InInv
<1>7. InData' /\ InKeysApart'
  BY <1>0, <1>4 DEF InInv, InData, InKeysApart
<1>8. inJobs' # << >> => InMaps'
  BY <1>0 DEF InInv
<1> QED BY <1>5, <1>6, <1>7, <1>8 DEF InInv

\* A thread goes on to the next event once there is a job with the key of this one.
LEMMA InGoesOn ==
  ASSUME InInv, NEW t \in InThreads, inCall[t].pc \in {"submit", "insert"}, inCall[t].left # {},
         NEW d \in InCalls, d.pc = "submit", d.answer = inCall[t].answer,
         d.left = inCall[t].left \ {InTurn(inCall[t])},
         inCall' = [inCall EXCEPT ![t] = d], UNCHANGED inPayload,
         NEW key, key = InKey(inPayload[InTurn(inCall[t])]),
         \E i \in DOMAIN inJobs' : inJobs'[i].key = key,
         \A k : (\E i \in DOMAIN inJobs : inJobs[i].key = k)
                => \E i \in DOMAIN inJobs' : inJobs'[i].key = k
  PROVE  inCall' \in [InThreads -> InCalls] /\ \A s \in InThreads : InCallFits(s)'
<1>1. inCall' \in [InThreads -> InCalls] /\ inCall'[t] = d
      /\ \A s \in InThreads \ {t} : inCall'[s] = inCall[s]
  BY DEF InInv, InData
<1>2. \A s \in InThreads \ {t} : InCallFits(s)'
  BY <1>1, InOthers DEF InInv
<1>3. InCallFits(t)
  BY DEF InInv
<1>4. InCallFits(t)'
  <2>1. UNCHANGED InSelected /\ UNCHANGED InMaps
    BY DEF InSelected, InMaps
  <2>2. d.left \subseteq InSelected' /\ InMaps' /\ d.answer = 0
    BY <1>3, <2>1 DEF InCallFits
  <2>3. ASSUME NEW i \in InSelected \ d.left
        PROVE  \E j \in DOMAIN inJobs' : inJobs'[j].key = InKey(inPayload[i])
    <3>1. CASE i = InTurn(inCall[t])
      BY <3>1
    <3>2. CASE i # InTurn(inCall[t])
      <4>1. i \in InSelected \ inCall[t].left
        BY <2>3, <3>2
      <4>2. \E j \in DOMAIN inJobs : inJobs[j].key = InKey(inPayload[i])
        BY <1>3, <4>1 DEF InCallFits, InHas
      <4> QED BY <4>2
    <3> QED BY <3>1, <3>2
  <2>4. \A i \in InSelected' \ d.left : InHas(InKey(inPayload[i]))'
    BY <2>1, <2>3 DEF InHas, InKey
  <2> QED BY <1>1, <2>2, <2>4 DEF InCallFits
<1> QED BY <1>1, <1>2, <1>4

\* The look before the transaction.
LEMMA InLooks ==
  ASSUME InInv, NEW t \in InThreads, InLook(t)
  PROVE  InInv'
<1>0. /\ UNCHANGED <<inPayload, inJobs, inLock>> /\ UNCHANGED InMaps
      /\ inCall[t].pc = "submit" /\ inCall[t].left # {} /\ inCall[t] \in InCalls
  BY DEF InLook, InMaps, InSelected, InInv, InData
<1>1. InKeysApart' /\ (inJobs' # << >> => InMaps')
  BY <1>0 DEF InInv, InKeysApart
<1>2. inCall' \in [InThreads -> InCalls] /\ \A s \in InThreads : InCallFits(s)'
  <2>1. CASE InHas(InKey(inPayload[InTurn(inCall[t])]))
    <3>1. inCall' = [inCall EXCEPT ![t] = InDuplicate(inCall[t])]
      BY <2>1 DEF InLook
    <3>2. /\ InDuplicate(inCall[t]) \in InCalls /\ InDuplicate(inCall[t]).pc = "submit"
          /\ InDuplicate(inCall[t]).answer = inCall[t].answer
          /\ InDuplicate(inCall[t]).left = inCall[t].left \ {InTurn(inCall[t])}
      BY <1>0 DEF InDuplicate, InCalls
    <3> QED BY <1>0, <2>1, <3>1, <3>2, InGoesOn DEF InHas
  <2>2. CASE ~InHas(InKey(inPayload[InTurn(inCall[t])]))
    <3>1. inCall' = [inCall EXCEPT ![t] = [inCall[t] EXCEPT !.pc = "insert"]]
      BY <2>2 DEF InLook
    <3>d. [inCall[t] EXCEPT !.pc = "insert"] \in InCalls
      BY <1>0 DEF InCalls
    <3>2. inCall' \in [InThreads -> InCalls] /\ inCall'[t] = [inCall[t] EXCEPT !.pc = "insert"]
          /\ \A s \in InThreads \ {t} : inCall'[s] = inCall[s]
      BY <3>1, <3>d DEF InInv, InData
    <3>3. \A s \in InThreads \ {t} : InCallFits(s)'
      BY <1>0, <3>2, InOthers DEF InInv
    <3>4. /\ inCall'[t].pc = "insert" /\ inCall'[t].left = inCall[t].left
          /\ inCall'[t].answer = inCall[t].answer
      BY <1>0, <3>2 DEF InCalls
    <3>5. InCallFits(t)'
      BY <1>0, <3>4 DEF InInv, InCallFits, InSelected, InHas, InMaps
    <3> QED BY <3>2, <3>3, <3>5
  <2> QED BY <2>1, <2>2
<1>3. InData'
  BY <1>0, <1>2 DEF InInv, InData
<1> QED BY <1>1, <1>2, <1>3 DEF InInv

\* The transaction: a duplicate, a busy model, or a new row under a key no other row has.
LEMMA InCommits ==
  ASSUME InInv, NEW t \in InThreads, InCommit(t)
  PROVE  InInv'
<1> DEFINE c == inCall[t]
           r == inPayload[InTurn(c)]
<1>0. /\ UNCHANGED inPayload /\ UNCHANGED InMaps /\ UNCHANGED InSelected
      /\ c.pc = "insert" /\ c.left # {} /\ c \in InCalls /\ InCallFits(t) /\ InMaps
  BY DEF InCommit, InMaps, InSelected, InInv, InData, InCallFits
<1>r. r \in InRecords
  BY <1>0, InTurnIsLeft DEF InInv
<1>d. /\ InDuplicate(c) \in InCalls /\ InDuplicate(c).pc = "submit"
      /\ InDuplicate(c).answer = c.answer /\ InDuplicate(c).left = c.left \ {InTurn(c)}
  BY <1>0 DEF InDuplicate, InCalls
<1>1. CASE InHas(InKey(r)) /\ inCall' = [inCall EXCEPT ![t] = InDuplicate(c)]
           /\ UNCHANGED <<inJobs, inLock>>
  <2>1. inCall' \in [InThreads -> InCalls] /\ \A s \in InThreads : InCallFits(s)'
    BY <1>0, <1>1, <1>d, InGoesOn DEF InHas
  <2> QED BY <1>0, <1>1, <2>1 DEF InInv, InData, InKeysApart
<1>2. CASE inCall' = [inCall EXCEPT ![t] = InAnswers(409)]
           /\ UNCHANGED <<inJobs, inLock>>
  <2>1. inCall' \in [InThreads -> InCalls] /\ inCall'[t].pc = "answered" /\ inCall'[t].left = {}
        /\ inCall'[t].answer = 409 /\ \A s \in InThreads \ {t} : inCall'[s] = inCall[s]
    <3> DEFINE d == InAnswers(409)
    <3>1. d \in InCalls /\ d.pc = "answered" /\ d.left = {} /\ d.answer = 409
      BY InIdleTyped, InAnswered
    <3> HIDE DEF d
    <3>2. inCall' = [inCall EXCEPT ![t] = d]
      BY <1>2 DEF d
    <3> QED BY <3>1, <3>2 DEF InInv, InData
  <2>2. \A s \in InThreads \ {t} : InCallFits(s)'
    BY <1>0, <1>2, <2>1, InOthers DEF InInv
  <2>3. InCallFits(t)'
    BY <2>1 DEF InCallFits
  <2> QED BY <1>0, <1>2, <2>1, <2>2, <2>3 DEF InInv, InData, InKeysApart
<1>3. CASE /\ ~InHas(InKey(r)) /\ inJobs' = Append(inJobs, InJobOf(r))
           /\ inLock' = [inLock EXCEPT ![r.model] = Len(inJobs')]
           /\ inCall' = [inCall EXCEPT ![t] = [InDuplicate(c) EXCEPT !.fresh = TRUE]]
  <2>g. /\ inJobs' \in Seq({InJobOf(q) : q \in InRecords}) /\ inJobs' # << >>
        /\ DOMAIN inJobs = 1 .. Len(inJobs) /\ DOMAIN inJobs' = 1 .. Len(inJobs) + 1
        /\ Len(inJobs) \in Nat /\ Len(inJobs') = Len(inJobs) + 1
        /\ \A i \in DOMAIN inJobs : inJobs'[i] = inJobs[i]
        /\ inJobs'[Len(inJobs) + 1] = InJobOf(r)
    BY <1>r, <1>3, InGrows DEF InInv
  <2>k. InJobOf(r).key = InKey(r)
    BY DEF InJobOf
  <2>1. \A k : (\E i \in DOMAIN inJobs : inJobs[i].key = k)
               => \E i \in DOMAIN inJobs' : inJobs'[i].key = k
    BY <2>g
  <2>2. \E i \in DOMAIN inJobs' : inJobs'[i].key = InKey(r)
    <3>1. Len(inJobs) + 1 \in DOMAIN inJobs'
      BY <2>g
    <3> QED BY <2>g, <2>k, <3>1
  <2>d. /\ [InDuplicate(c) EXCEPT !.fresh = TRUE] \in InCalls
        /\ [InDuplicate(c) EXCEPT !.fresh = TRUE].pc = "submit"
        /\ [InDuplicate(c) EXCEPT !.fresh = TRUE].answer = c.answer
        /\ [InDuplicate(c) EXCEPT !.fresh = TRUE].left = c.left \ {InTurn(c)}
    BY <1>d DEF InCalls
  <2>3. inCall' \in [InThreads -> InCalls] /\ \A s \in InThreads : InCallFits(s)'
    BY <1>0, <1>3, <2>1, <2>2, <2>d, InGoesOn
  <2>4. inLock' \in [InModels -> Nat]
    <3>1. Len(inJobs') \in Nat
      BY <2>g
    <3> QED BY <1>3, <3>1 DEF InInv, InData
  <2>5. InData'
    BY <1>0, <2>3, <2>4, <2>g DEF InInv, InData, InJobOf, InKey
  <2>6. ASSUME NEW i \in DOMAIN inJobs', NEW j \in DOMAIN inJobs', inJobs'[i].key = inJobs'[j].key
        PROVE  i = j
    <3>1. \A n \in DOMAIN inJobs : inJobs'[n].key # InKey(r)
      BY <1>3, <2>g DEF InHas
    <3>2. CASE i \in DOMAIN inJobs /\ j \in DOMAIN inJobs
      BY <2>6, <2>g, <3>2 DEF InInv, InKeysApart
    <3>3. CASE i \in DOMAIN inJobs /\ j = Len(inJobs) + 1
      BY <2>6, <2>g, <2>k, <3>1, <3>3
    <3>4. CASE j \in DOMAIN inJobs /\ i = Len(inJobs) + 1
      BY <2>6, <2>g, <2>k, <3>1, <3>4
    <3> QED BY <2>g, <3>2, <3>3, <3>4
  <2>7. InKeysApart'
    BY <2>6 DEF InKeysApart
  <2> QED BY <1>0, <2>3, <2>5, <2>7 DEF InInv
<1> HIDE DEF c, r
<1> QED BY <1>1, <1>2, <1>3 DEF InCommit, InJobOf, c, r

\* However posts, their repetitions and the ends of jobs interleave: an answer of 2xx accounts for
\* the whole payload and no key has two jobs.
THEOREM InAlwaysAccounted == InSpec => []InBatchAccounted
<1>1. InInit => InInv
  <2> SUFFICES ASSUME InInit PROVE InInv
    OBVIOUS
  <2>1. inPayload \in Seq(InRecords)
    BY InBounds DEF InInit, SeqOf
  <2>2. inJobs = << >> /\ DOMAIN inJobs = {}
    BY DEF InInit
  <2>3. InData /\ InKeysApart
    BY <2>1, <2>2, InIdleTyped DEF InInit, InData, InKeysApart
  <2>4. \A t \in InThreads : InCallFits(t)
    BY InIdleTyped DEF InInit, InCallFits
  <2> QED BY <2>2, <2>3, <2>4 DEF InInv
<1>2. InInv /\ [InNext]_inVars => InInv'
  <2> SUFFICES ASSUME InInv, [InNext]_inVars PROVE InInv'
    OBVIOUS
  <2>1. CASE UNCHANGED inVars
    BY <2>1 DEF inVars, InInv, InData, InKeysApart, InCallFits, InSelected, InMaps, InHas
  <2>2. ASSUME NEW t \in InThreads, InAnswer(t)
        PROVE  InInv'
    <3>0. /\ UNCHANGED <<inPayload, inJobs, inLock>> /\ inCall[t] \in InCalls
          /\ inCall[t].pc = "submit" /\ inCall[t].left = {} /\ InCallFits(t)
      BY <2>2 DEF InAnswer, InInv, InData
    <3> DEFINE d == InAnswers(IF inCall[t].fresh THEN 201 ELSE 200)
    <3>1. d \in InCalls /\ d.pc = "answered" /\ d.left = {}
      BY <3>0, InAnswered
    <3>2. inCall' = [inCall EXCEPT ![t] = d]
      BY <2>2 DEF InAnswer
    <3> HIDE DEF d
    <3>3. inCall' \in [InThreads -> InCalls] /\ inCall'[t] = d
          /\ \A s \in InThreads \ {t} : inCall'[s] = inCall[s]
      BY <3>1, <3>2 DEF InInv, InData
    <3>4. \A s \in InThreads \ {t} : InCallFits(s)'
      BY <3>0, <3>3, InOthers DEF InInv
    <3>5. InCallFits(t)'
      BY <3>0, <3>1, <3>3 DEF InCallFits, InSelected, InHas
    <3>6. InData' /\ InKeysApart' /\ (inJobs' # << >> => InMaps')
      BY <3>0, <3>3 DEF InInv, InData, InKeysApart, InMaps, InSelected
    <3> QED BY <3>4, <3>5, <3>6 DEF InInv
  <2>3. ASSUME NEW m \in InModels, InJobEnds(m)
        PROVE  InInv'
    <3>1. UNCHANGED <<inPayload, inCall, inJobs>> /\ inLock' = [inLock EXCEPT ![m] = 0]
      BY <2>3 DEF InJobEnds
    <3> QED BY <3>1 DEF InInv, InData, InKeysApart, InCallFits, InSelected, InMaps, InHas
  <2> QED BY <2>1, <2>2, <2>3, InPosts, InLooks, InCommits DEF InNext
<1>3. InInv => InBatchAccounted
  <2> SUFFICES ASSUME InInv PROVE InBatchAccounted
    OBVIOUS
  <2>1. ASSUME NEW t \in InThreads, inCall[t].answer \in {200, 201}, NEW i \in InSelected
        PROVE  \E j \in DOMAIN inJobs :
                  inJobs[j].model = inPayload[i].model /\ inJobs[j].id = inPayload[i].id
    <3>1. PICK j \in DOMAIN inJobs : inJobs[j].key = InKey(inPayload[i])
      BY <2>1 DEF InInv, InCallFits, InHas
    <3>2. inJobs[j] \in {InJobOf(r) : r \in InRecords} /\ inPayload[i] \in InRecords
      BY ElementOfSeq, LenProperties DEF InInv, InData, InSelected
    <3>3. PICK r \in InRecords : inJobs[j] = InJobOf(r)
      BY <3>2
    <3>4. InKey(r) = InKey(inPayload[i]) /\ inJobs[j].model = r.model /\ inJobs[j].id = r.id
      BY <3>1, <3>3 DEF InJobOf
    <3> QED BY <3>2, <3>4, InKeyTells
  <2> QED BY <2>1 DEF InBatchAccounted, InInv, InKeysApart
<1> QED BY <1>1, <1>2, <1>3, PTL DEF InSpec

-----------------------------------------------------------------------------
(* Health rules.  Means are compared crosswise, so their order is that of  *)
(* products with the numbers of samples.                                   *)

HeArms == [count : Nat, n : Nat, sum : Int]
HeRules == [direction : {"lower", "higher"}, limit : BOOLEAN, degradation : BOOLEAN,
            ratio : BOOLEAN, required : BOOLEAN]

HeInv == heRule \in HeRules /\ heStable \in HeArms /\ heCandidate \in HeArms

LEMMA HeTimes ==
  ASSUME NEW n \in Nat, NEW x \in Int, NEW y \in Int, x <= y
  PROVE  x * n <= y * n /\ x * n \in Int /\ y * n \in Int
<1>1. PICK d \in Nat : y = x + d
  <2>1. y - x \in Nat /\ y = x + (y - x)
    OBVIOUS
  <2> QED BY <2>1
<1>2. y * n = x * n + d * n
  BY <1>1
<1>3. d * n \in Nat /\ x * n \in Int
  BY <1>1
<1>4. x * n <= x * n + d * n /\ x * n + d * n \in Int
  BY <1>3
<1> QED BY <1>2, <1>3, <1>4

\* A mean beyond a threshold stays there when a value no smaller than the mean joins.
LEMMA HeMeanRises ==
  ASSUME NEW n \in Nat, n > 0, NEW sum \in Int, NEW v \in Int, NEW t \in Int,
         sum > t * n, v * n >= sum
  PROVE  sum + v > t * (n + 1)
<1>1. v * n \in Int /\ t * n \in Int /\ v * n > t * n
  OBVIOUS
<1>2. v > t
  <2> SUFFICES ASSUME v <= t PROVE FALSE
    OBVIOUS
  <2>1. v * n <= t * n
    BY HeTimes
  <2> QED BY <1>1, <2>1
<1>3. t * (n + 1) = t * n + t
  OBVIOUS
<1> QED BY <1>1, <1>2, <1>3

\* ... nor one that is below it when a value no greater joins.
LEMMA HeMeanFalls ==
  ASSUME NEW n \in Nat, n > 0, NEW sum \in Int, NEW v \in Int, NEW t \in Int,
         sum < t * n, v * n <= sum
  PROVE  sum + v < t * (n + 1)
<1>1. PICK s, w, u : s = -sum /\ w = -v /\ u = -t
  OBVIOUS
<1>2. s \in Int /\ w \in Int /\ u \in Int
  BY <1>1
<1>3. u * n = -(t * n) /\ w * n = -(v * n) /\ t * n \in Int /\ v * n \in Int
  BY <1>1
<1>4. s > u * n /\ w * n >= s
  BY <1>1, <1>3
<1>5. s + w > u * (n + 1)
  BY <1>2, <1>4, HeMeanRises
<1>6. u * (n + 1) = -(t * (n + 1)) /\ t * (n + 1) \in Int
  BY <1>1
<1> QED BY <1>1, <1>5, <1>6

\* The difference to the other arm, whose k samples add up to other.
LEMMA HeApartRises ==
  ASSUME NEW n \in Nat, n > 0, NEW sum \in Int, NEW v \in Int, NEW k \in Nat, NEW other \in Int,
         NEW e \in Int, sum * k - other * n > e * n * k, v * n >= sum
  PROVE  (sum + v) * k - other * (n + 1) > e * (n + 1) * k
<1>1. PICK t, s, w : t = other + e * k /\ s = sum * k /\ w = v * k
  OBVIOUS
<1>2. t \in Int /\ s \in Int /\ w \in Int
  BY <1>1
<1>3. s > t * n
  <2>1. t * n = other * n + e * n * k
    BY <1>1
  <2>2. other * n \in Int /\ e * n * k \in Int
    OBVIOUS
  <2> QED BY <1>1, <1>2, <2>1, <2>2
<1>4. w * n >= s
  <2>1. sum * k <= (v * n) * k
    <3>1. v * n \in Int /\ sum <= v * n
      OBVIOUS
    <3> QED BY <3>1, HeTimes
  <2>2. (v * n) * k = w * n
    BY <1>1
  <2> QED BY <1>1, <2>1, <2>2
<1>5. s + w > t * (n + 1)
  BY <1>2, <1>3, <1>4, HeMeanRises
<1>6. s + w = (sum + v) * k /\ t * (n + 1) = other * (n + 1) + e * (n + 1) * k
  BY <1>1
<1>7. other * (n + 1) \in Int /\ e * (n + 1) * k \in Int /\ (sum + v) * k \in Int
  OBVIOUS
<1> QED BY <1>5, <1>6, <1>7

LEMMA HeApartFalls ==
  ASSUME NEW n \in Nat, n > 0, NEW sum \in Int, NEW v \in Int, NEW k \in Nat, NEW other \in Int,
         NEW e \in Int, other * n - sum * k > e * n * k, v * n <= sum
  PROVE  other * (n + 1) - (sum + v) * k > e * (n + 1) * k
<1>1. PICK s, w, o : s = -sum /\ w = -v /\ o = -other
  OBVIOUS
<1>2. s \in Int /\ w \in Int /\ o \in Int
  BY <1>1
<1>3. /\ s * k = -(sum * k) /\ o * n = -(other * n) /\ w * n = -(v * n)
      /\ sum * k \in Int /\ other * n \in Int /\ v * n \in Int /\ e * n * k \in Int
  BY <1>1
<1>4. s * k - o * n > e * n * k /\ w * n >= s
  BY <1>1, <1>3
<1>5. (s + w) * k - o * (n + 1) > e * (n + 1) * k
  BY <1>2, <1>4, HeApartRises
<1>6. /\ (s + w) * k = -((sum + v) * k) /\ o * (n + 1) = -(other * (n + 1))
      /\ (sum + v) * k \in Int /\ other * (n + 1) \in Int /\ e * (n + 1) * k \in Int
  BY <1>1
<1> QED BY <1>5, <1>6

LEMMA HeKeepsInv == HeInv /\ [HeNext]_heVars => HeInv'
<1> SUFFICES ASSUME HeInv, [HeNext]_heVars PROVE HeInv'
  OBVIOUS
<1>1. ASSUME NEW a \in HeArms, NEW b \in HeObserve(a) PROVE b \in HeArms
  <2>1. PICK v \in HeValues, sampled \in BOOLEAN : b = HeReported(a, v, sampled)
    BY DEF HeObserve
  <2>2. v \in Int /\ a.count \in Nat /\ a.n \in Nat /\ a.sum \in Int
    BY HeAssumption DEF HeArms
  <2>3. a.count + 1 \in Nat /\ a.n + 1 \in Nat /\ a.sum + v \in Int
    BY <2>2
  <2> QED BY <2>1, <2>2, <2>3 DEF HeReported, HeArms
<1>2. CASE HeObserveStable
  BY <1>1, <1>2 DEF HeInv, HeObserveStable
<1>3. CASE HeObserveCandidate
  BY <1>1, <1>3 DEF HeInv, HeObserveCandidate
<1>4. CASE HeNewWindow
  BY <1>4 DEF HeInv, HeNewWindow, HeNoStats, HeArms
<1>5. CASE UNCHANGED heVars
  BY <1>5 DEF HeInv, heVars
<1> QED BY <1>2, <1>3, <1>4, <1>5 DEF HeNext

\* The candidate's arm c gets the value v, and nothing else changes.
LEMMA HeWorseStep ==
  ASSUME HeInv, HeNext, HeGetsWorse
  PROVE  /\ heRule' = heRule /\ heStable' = heStable /\ heCandidate' \in HeArms
         /\ heCandidate'.count >= heCandidate.count /\ heCandidate'.n = heCandidate.n + 1
<1>1. heCandidate'.n = heCandidate.n + 1 /\ heCandidate.n > 0 /\ heStable' = heStable
  BY DEF HeGetsWorse
<1>2. heCandidate \in HeArms /\ heCandidate.n \in Nat /\ heCandidate.count \in Nat
  BY DEF HeInv, HeArms
<1>3. HeInv'
  BY HeKeepsInv
<1>4. CASE HeObserveStable
  BY <1>1, <1>2, <1>4 DEF HeObserveStable
<1>5. CASE HeNewWindow
  <2>1. heCandidate'.n = 0
    BY <1>5 DEF HeNewWindow, HeNoStats
  <2> QED BY <1>1, <1>2, <2>1
<1>6. CASE HeObserveCandidate
  <2>1. PICK v \in HeValues, sampled \in BOOLEAN : heCandidate' = HeReported(heCandidate, v, sampled)
    BY <1>6 DEF HeObserveCandidate, HeObserve
  <2>2. heCandidate'.count \in {heCandidate.count, heCandidate.count + 1}
    BY <2>1 DEF HeReported
  <2>3. heRule' = heRule
    BY <1>6 DEF HeObserveCandidate
  <2> QED BY <1>1, <1>2, <1>3, <2>2, <2>3 DEF HeInv
<1> QED BY <1>4, <1>5, <1>6 DEF HeNext

\* Worse by more than e per pair of samples before, worse by more than e after.
LEMMA HeStaysWorse ==
  ASSUME HeInv, HeNext, HeGetsWorse, NEW e \in Int,
         HeWorseBy(heCandidate, heStable) > e * heCandidate.n * heStable.n
  PROVE  HeWorseBy(heCandidate', heStable') > e * heCandidate'.n * heStable.n
<1> DEFINE v == heCandidate'.sum - heCandidate.sum
<1>1. /\ heRule' = heRule /\ heStable' = heStable /\ heCandidate' \in HeArms
      /\ heCandidate'.n = heCandidate.n + 1
  BY HeWorseStep
<1>2. PICK n, sum, k, other, w : /\ n = heCandidate.n /\ sum = heCandidate.sum
                                 /\ k = heStable.n /\ other = heStable.sum /\ w = v
  OBVIOUS
<1>3. n \in Nat /\ sum \in Int /\ k \in Nat /\ other \in Int /\ heCandidate'.sum \in Int
  BY <1>1, <1>2 DEF HeInv, HeArms
<1>4. w \in Int /\ heCandidate'.sum = sum + w /\ n > 0
  BY <1>2, <1>3 DEF HeGetsWorse
<1> HIDE DEF v
<1>5. CASE heRule.direction = "lower"
  <2>1. w * n >= sum
    BY <1>2, <1>5 DEF HeGetsWorse, v
  <2>2. sum * k - other * n > e * n * k
    BY <1>2, <1>5 DEF HeWorseBy
  <2>3. (sum + w) * k - other * (n + 1) > e * (n + 1) * k
    BY <1>3, <1>4, <2>1, <2>2, HeApartRises
  <2>4. HeWorseBy(heCandidate', heStable') = (sum + w) * k - other * (n + 1)
    BY <1>1, <1>2, <1>4, <1>5 DEF HeWorseBy
  <2> QED BY <1>1, <1>2, <2>3, <2>4
<1>6. CASE heRule.direction # "lower"
  <2>1. w * n <= sum
    BY <1>2, <1>6 DEF HeGetsWorse, v
  <2>2. other * n - sum * k > e * n * k
    BY <1>2, <1>6 DEF HeWorseBy
  <2>3. other * (n + 1) - (sum + w) * k > e * (n + 1) * k
    BY <1>3, <1>4, <2>1, <2>2, HeApartFalls
  <2>4. HeWorseBy(heCandidate', heStable') = other * (n + 1) - (sum + w) * k
    BY <1>1, <1>2, <1>4, <1>6 DEF HeWorseBy
  <2> QED BY <1>1, <1>2, <2>3, <2>4
<1> QED BY <1>5, <1>6

LEMMA HeStaysBeyond ==
  ASSUME HeInv, HeNext, HeGetsWorse, HeBeyondLimit(heCandidate)
  PROVE  HeBeyondLimit(heCandidate')
<1> DEFINE v == heCandidate'.sum - heCandidate.sum
<1>1. heRule' = heRule /\ heCandidate' \in HeArms /\ heCandidate'.n = heCandidate.n + 1
  BY HeWorseStep
<1>2. PICK n, sum, w : n = heCandidate.n /\ sum = heCandidate.sum /\ w = v
  OBVIOUS
<1>3. n \in Nat /\ sum \in Int /\ heCandidate'.sum \in Int /\ HeLimit \in Int
  BY <1>1, <1>2, HeAssumption DEF HeInv, HeArms
<1>4. w \in Int /\ heCandidate'.sum = sum + w /\ n > 0
  BY <1>2, <1>3 DEF HeGetsWorse
<1> HIDE DEF v
<1>5. CASE heRule.direction = "lower"
  <2>1. w * n >= sum
    BY <1>2, <1>5 DEF HeGetsWorse, v
  <2>2. sum > HeLimit * n
    BY <1>2, <1>5 DEF HeBeyondLimit
  <2>3. sum + w > HeLimit * (n + 1)
    BY <1>3, <1>4, <2>1, <2>2, HeMeanRises
  <2> QED BY <1>1, <1>2, <1>4, <1>5, <2>3 DEF HeBeyondLimit
<1>6. CASE heRule.direction # "lower"
  <2>1. w * n <= sum
    BY <1>2, <1>6 DEF HeGetsWorse, v
  <2>2. sum < HeLimit * n
    BY <1>2, <1>6 DEF HeBeyondLimit
  <2>3. sum + w < HeLimit * (n + 1)
    BY <1>3, <1>4, <2>1, <2>2, HeMeanFalls
  <2> QED BY <1>1, <1>2, <1>4, <1>6, <2>3 DEF HeBeyondLimit
<1> QED BY <1>5, <1>6

LEMMA HeStaysEnough ==
  ASSUME HeInv, HeNext, HeGetsWorse, HeEnough(heCandidate, heStable)
  PROVE  HeEnough(heCandidate', heStable')
<1>1. heStable' = heStable /\ heCandidate' \in HeArms /\ heCandidate'.count >= heCandidate.count
  BY HeWorseStep
<1>2. heCandidate.count \in Nat /\ heCandidate'.count \in Nat /\ HeMinSamples \in Nat
  BY <1>1, HeAssumption DEF HeInv, HeArms
<1>3. heCandidate.count >= HeMinSamples /\ heStable.count >= HeMinSamples
  BY DEF HeEnough
<1>4. heCandidate'.count >= HeMinSamples
  BY <1>1, <1>2, <1>3
<1> QED BY <1>1, <1>3, <1>4 DEF HeEnough

\* For any thresholds and samples: a breach of a limit or of a largest degradation, and an A/B
\* test that finds the candidate worse, survive a sample no better than the candidate's mean
\* (health.py: evaluate_health, ab_test).
THEOREM HeNeverClears == HeSpec => HeWorseKeepsBreach
<1>1. HeInit => HeInv
  BY DEF HeInit, HeInv, HeRules, HeArms, HeNoStats
<1>2. HeInv /\ [HeNext]_heVars => HeInv'
  BY HeKeepsInv
<1>3. ASSUME HeInv, HeNext, HeGetsWorse, ~heRule.ratio,
             HeVerdict(heCandidate, heStable) = "breach"
      PROVE  HeVerdict(heCandidate', heStable') = "breach"
  <2>1. HeEnough(heCandidate, heStable) /\ HeReasons(heCandidate, heStable)
    BY <1>3 DEF HeVerdict
  <2>2. HeEnough(heCandidate', heStable')
    BY <1>3, <2>1, HeStaysEnough
  <2>3. heStable' = heStable /\ heCandidate' \in HeArms /\ heCandidate'.n = heCandidate.n + 1
    BY <1>3, HeWorseStep
  <2>4. heCandidate'.n > 0
    BY <1>3, <2>3 DEF HeInv, HeArms
  <2>5. HeReasons(heCandidate', heStable')
    <3>1. CASE heRule.limit /\ HeBeyondLimit(heCandidate)
      <4>1. HeBeyondLimit(heCandidate')
        BY <1>3, <3>1, HeStaysBeyond
      <4> QED BY <2>4, <3>1, <4>1 DEF HeReasons
    <3>2. CASE ~(heRule.limit /\ HeBeyondLimit(heCandidate))
      <4>1. /\ HeCompares /\ heStable.n > 0 /\ heRule.degradation
            /\ HeWorseBy(heCandidate, heStable) > HeMaxDegradation * heCandidate.n * heStable.n
        BY <1>3, <2>1, <3>2 DEF HeReasons
      <4>2. HeMaxDegradation \in Int
        BY HeAssumption
      <4>3. HeWorseBy(heCandidate', heStable') > HeMaxDegradation * heCandidate'.n * heStable.n
        BY <1>3, <4>1, <4>2, HeStaysWorse
      <4> QED BY <2>3, <2>4, <4>1, <4>3 DEF HeReasons
    <3> QED BY <3>1, <3>2
  <2> QED BY <2>2, <2>5 DEF HeVerdict
<1>4. ASSUME HeInv, HeNext, HeGetsWorse,
             HeAbTest(heCandidate, heStable, TRUE) = "worse"
      PROVE  HeAbTest(heCandidate', heStable', TRUE) = "worse"
  <2>1. HeAbEnough(heCandidate, heStable) /\ HeWorseBy(heCandidate, heStable) > 0
    BY <1>4 DEF HeAbTest
  <2>2. HeEnough(heCandidate', heStable')
    BY <1>4, <2>1, HeStaysEnough DEF HeAbEnough
  <2>3. heStable' = heStable /\ heCandidate' \in HeArms /\ heCandidate'.n = heCandidate.n + 1
    BY <1>4, HeWorseStep
  <2>4. heCandidate.n \in Nat /\ heStable.n \in Nat
    BY <1>4 DEF HeInv, HeArms
  <2>5. heCandidate.n >= 2 /\ heStable.n >= 2
    BY <2>1 DEF HeAbEnough
  <2>6. HeAbEnough(heCandidate', heStable')
    BY <2>2, <2>3, <2>4, <2>5 DEF HeAbEnough
  <2>7. HeWorseBy(heCandidate, heStable) > 0 * heCandidate.n * heStable.n
    <3>1. 0 * heCandidate.n * heStable.n = 0
      BY <2>4
    <3> QED BY <2>1, <3>1
  <2>8. HeWorseBy(heCandidate', heStable') > 0 * heCandidate'.n * heStable.n
    BY <1>4, <2>7, HeStaysWorse
  <2>9. 0 * heCandidate'.n * heStable.n = 0
    BY <2>3, <2>4
  <2>10. HeWorseBy(heCandidate', heStable') \in Int
    <3>1. PICK n, m, x, y : /\ n = heCandidate'.n /\ m = heStable.n
                            /\ x = heCandidate'.sum /\ y = heStable.sum
      OBVIOUS
    <3>2. n \in Int /\ m \in Int /\ x \in Int /\ y \in Int
      BY <1>4, <2>3, <3>1 DEF HeInv, HeArms
    <3>3. x * m - y * n \in Int /\ y * n - x * m \in Int
      BY <3>2
    <3> QED BY <2>3, <3>1, <3>3 DEF HeWorseBy
  <2>11. HeWorseBy(heCandidate', heStable') > 0 /\ ~(HeWorseBy(heCandidate', heStable') < 0)
    BY <2>8, <2>9, <2>10
  <2> QED BY <2>6, <2>11 DEF HeAbTest
<1>5. ASSUME HeInv, UNCHANGED heVars PROVE ~HeGetsWorse
  BY <1>5 DEF HeInv, HeArms, heVars, HeGetsWorse
<1> DEFINE Step ==
      HeGetsWorse =>
        /\ ~heRule.ratio => HeBreachStays
        /\ HeAbTest(heCandidate, heStable, TRUE) = "worse"
              => HeAbTest(heCandidate', heStable', TRUE) = "worse"
<1>6. HeInv /\ [HeNext]_heVars => [Step]_heVars
  BY <1>3, <1>4, <1>5 DEF HeBreachStays
<1> QED BY <1>1, <1>2, <1>6, PTL DEF HeSpec, HeWorseKeepsBreach
-----------------------------------------------------------------------------
(***************************************************************************)
(* Measurements: MsNothingEstimated.  What a bucket's sample lacks of the   *)
(* one before it is the bucket's count, so that what an attempt sends is    *)
(* what its own registry holds; and a registry holds its process's own      *)
(* outermost calls, since what is inside a call is on the stack below it.   *)
(***************************************************************************)

MsMetrics == [count : [1..MsBuckets -> Nat], sum : Nat, errors : Nat]

\* A running total of the buckets' counts.
MsRuns(f, r) == /\ f \in [0..MsBuckets -> Nat] /\ f[0] = 0
                /\ \A i \in 1..MsBuckets : f[i] = f[i - 1] + r.count[i]

\* There is one.
LEMMA MsRunsOnce ==
    ASSUME NEW r \in MsMetrics
    PROVE  \E f : MsRuns(f, r)
<1> DEFINE Upto(k, f) == /\ f \in [0..k -> Nat] /\ f[0] = 0
                         /\ \A i \in 1..k : f[i] = f[i - 1] + r.count[i]
           Bad == {k \in 0..MsBuckets : ~\E f : Upto(k, f)}
<1>0. MsBuckets \in Nat /\ MsBuckets \in 0..MsBuckets
  BY MsAssumption
<1>1. SUFFICES ASSUME Bad # {} PROVE FALSE
  <2>1. CASE Bad = {}
    <3>1. PICK f : Upto(MsBuckets, f)
      BY <1>0, <2>1
    <3> QED
      BY <3>1 DEF MsRuns
  <2> QED
    BY <2>1
<1>2. PICK k \in Bad : \A j \in Bad : k <= j
  <2>1. Bad \subseteq Nat
    OBVIOUS
  <2> HIDE DEF Bad
  <2> QED
    BY <1>1, <2>1, LeastNat
<1>3. CASE k = 0
  <2>1. PICK f : f = [i \in 0..0 |-> 0]
    OBVIOUS
  <2>2. Upto(0, f)
    BY <2>1
  <2>3. \E g : Upto(0, g)
    BY <2>2
  <2> QED
    BY <1>2, <1>3, <2>3
<1>4. CASE k # 0
  <2>1. k \in 1..MsBuckets /\ k - 1 \in 0..MsBuckets /\ ~(k <= k - 1)
    BY <1>0, <1>2, <1>4
  <2>2. PICK f : Upto(k - 1, f)
    <3>1. k - 1 \notin Bad
      <4> HIDE DEF Bad
      <4> QED
        BY <1>2, <2>1
    <3> HIDE DEF Upto
    <3> QED
      BY <2>1, <3>1
  <2>3. PICK n \in Nat : n = f[k - 1] + r.count[k]
    <3>1. k - 1 \in 0..k - 1 /\ k \in 1..MsBuckets
      BY <1>0, <2>1
    <3>2. f[k - 1] \in Nat
      BY <2>2, <3>1
    <3>3. r.count[k] \in Nat
      BY <3>1 DEF MsMetrics
    <3> QED
      BY <3>2, <3>3
  <2>4. PICK g : g = [i \in 0..k |-> IF i = k THEN n ELSE f[i]]
    OBVIOUS
  <2>5. \A i \in 0..k - 1 : g[i] = f[i] /\ f[i] \in Nat
    BY <2>1, <2>2, <2>4
  <2>6. g \in [0..k -> Nat] /\ g[0] = 0 /\ g[k] = n
    BY <2>1, <2>2, <2>4, <2>5
  <2>7. ASSUME NEW i \in 1..k PROVE g[i] = g[i - 1] + r.count[i]
    <3>1. CASE i = k
      <4>1. g[k - 1] = f[k - 1]
        BY <2>1, <2>5
      <4> QED
        BY <2>3, <2>6, <3>1, <4>1
    <3>2. CASE i # k
      <4>1. i \in 1..k - 1 /\ i \in 0..k - 1 /\ i - 1 \in 0..k - 1
        BY <2>1, <3>2
      <4>2. g[i] = f[i] /\ g[i - 1] = f[i - 1]
        BY <2>5, <4>1
      <4>3. f[i] = f[i - 1] + r.count[i]
        BY <2>2, <4>1
      <4> QED
        BY <4>2, <4>3
    <3> QED
      BY <3>1, <3>2
  <2>8. Upto(k, g)
    BY <2>6, <2>7
  <2>9. \E h : Upto(k, h)
    BY <2>8
  <2> QED
    BY <1>2, <2>9
<1> QED
  BY <1>3, <1>4

\* The samples are the running totals.
LEMMA MsSamplesRun ==
    ASSUME NEW r \in MsMetrics
    PROVE  MsRuns(MsSamples(r), r)
<1> DEFINE IsUpTo(f) == f = [i \in 0..MsBuckets |-> IF i = 0 THEN 0 ELSE f[i - 1] + r.count[i]]
<1>0. MsBuckets \in Nat
  BY MsAssumption
<1>1. PICK f : MsRuns(f, r)
  BY MsRunsOnce
<1>2. IsUpTo(f)
  <2>1. \A i \in 0..MsBuckets : i = 0 \/ i \in 1..MsBuckets
    BY <1>0
  <2>2. \A i \in 0..MsBuckets : f[i] = IF i = 0 THEN 0 ELSE f[i - 1] + r.count[i]
    BY <1>1, <2>1 DEF MsRuns
  <2>3. f = [i \in 0..MsBuckets |-> f[i]]
    BY <1>1 DEF MsRuns
  <2> QED
    BY <2>2, <2>3
<1>3. MsSamples(r) = CHOOSE g : IsUpTo(g)
  BY DEF MsSamples
<1>4. PICK s : s = MsSamples(r)
  OBVIOUS
<1>5. IsUpTo(s)
  <2> HIDE DEF IsUpTo
  <2> QED
    BY <1>2, <1>3, <1>4
<1>6. DOMAIN s = 0..MsBuckets /\ s = [i \in 0..MsBuckets |-> s[i]]
  BY <1>5
<1>7. 0 \in 0..MsBuckets /\ s[0] = 0
  BY <1>0, <1>5
<1>8. \A i \in 1..MsBuckets : i \in 0..MsBuckets /\ i # 0 /\ s[i] = s[i - 1] + r.count[i]
  BY <1>0, <1>5
<1>9. \A i \in 0..MsBuckets : s[i] = f[i]
  <2> DEFINE Bad == {i \in 0..MsBuckets : s[i] # f[i]}
  <2>1. SUFFICES ASSUME Bad # {} PROVE FALSE
    OBVIOUS
  <2>2. PICK k \in Bad : \A j \in Bad : k <= j
    <3>1. Bad \subseteq Nat
      BY <1>0
    <3> HIDE DEF Bad
    <3> QED
      BY <2>1, <3>1, LeastNat
  <2>3. k \in 1..MsBuckets
    BY <1>0, <1>1, <1>7, <2>2 DEF MsRuns
  <2>4. k - 1 \in 0..MsBuckets /\ ~(k <= k - 1)
    BY <1>0, <2>3
  <2>5. s[k - 1] = f[k - 1]
    BY <2>2, <2>4
  <2> QED
    BY <1>1, <1>8, <2>2, <2>3, <2>5 DEF MsRuns
<1>10. s = f
  BY <1>1, <1>6, <1>9 DEF MsRuns
<1> QED
  BY <1>1, <1>4, <1>10

\* A sample that has not moved is zero, as are all before it.
LEMMA MsRunsUp ==
    ASSUME NEW r \in MsMetrics, NEW f, MsRuns(f, r), NEW i \in 1..MsBuckets
    PROVE  /\ i \in 0..MsBuckets /\ i - 1 \in 0..MsBuckets /\ f[i] \in Nat /\ f[i - 1] \in Nat
           /\ r.count[i] \in Nat /\ f[i] = f[i - 1] + r.count[i] /\ f[i - 1] <= f[i]
<1>0. MsBuckets \in Nat
  BY MsAssumption
<1>1. i \in 0..MsBuckets /\ i - 1 \in 0..MsBuckets
  BY <1>0
<1>2. f[i] \in Nat /\ f[i - 1] \in Nat
  BY <1>1 DEF MsRuns
<1>3. r.count[i] \in Nat
  BY DEF MsMetrics
<1>4. f[i] = f[i - 1] + r.count[i]
  BY DEF MsRuns
<1> QED
  BY <1>1, <1>2, <1>3, <1>4

LEMMA MsMax ==
    ASSUME NEW a \in Nat, NEW b \in Nat, a <= b
    PROVE  Max({a, b}) = b /\ Max({a, a}) = a
<1>1. \A x \in {a, b} : (\A y \in {a, b} : x >= y) => x = b
  OBVIOUS
<1>2. b \in {a, b} /\ \A y \in {a, b} : b >= y
  OBVIOUS
<1>3. Max({a, b}) = b
  BY <1>1, <1>2 DEF Max
<1>4. \A x \in {a, a} : x = a
  OBVIOUS
<1>5. a \in {a, a} /\ \A y \in {a, a} : a >= y
  OBVIOUS
<1>6. Max({a, a}) = a
  BY <1>4, <1>5 DEF Max
<1> QED
  BY <1>3, <1>6

\* The samples that have moved tell all of them.
LEMMA MsCumulates ==
    ASSUME NEW r \in MsMetrics, NEW f, f = MsSamples(r)
    PROVE  MsCumulative(MsDelta(r).buckets) = f
<1> PICK d : d = MsDelta(r).buckets
  OBVIOUS
<1>0. MsBuckets \in Nat /\ MsRuns(f, r)
  BY MsAssumption, MsSamplesRun
<1>1. /\ \A i \in 1..MsBuckets : i \in DOMAIN d <=> f[i] # 0
      /\ \A i \in DOMAIN d : d[i] = f[i]
      /\ DOMAIN d \subseteq 1..MsBuckets
  BY DEF MsDelta
<1> DEFINE At(g, i) == IF i = 0 THEN 0
                         ELSE Max({g[i - 1], IF i \in DOMAIN d THEN d[i] ELSE g[i - 1]})
           IsUpTo(g) == g = [i \in 0..MsBuckets |-> At(g, i)]
<1>2. ASSUME NEW g, NEW i \in 1..MsBuckets, g[i - 1] = f[i - 1] PROVE At(g, i) = f[i]
  <2>1. /\ f[i] \in Nat /\ f[i - 1] \in Nat /\ f[i - 1] <= f[i] /\ i # 0
    BY <1>0, MsRunsUp
  <2>2. CASE f[i] = 0
    <3>1. f[i - 1] = 0 /\ i \notin DOMAIN d
      BY <1>1, <2>1, <2>2
    <3>2. At(g, i) = Max({f[i - 1], f[i - 1]})
      BY <1>2, <2>1, <3>1
    <3> QED
      BY <2>1, <2>2, <3>1, <3>2, MsMax
  <2>3. CASE f[i] # 0
    <3>1. At(g, i) = Max({f[i - 1], f[i]})
      BY <1>1, <1>2, <2>1, <2>3
    <3> QED
      BY <2>1, <3>1, MsMax
  <2> QED
    BY <2>2, <2>3
<1>3. IsUpTo(f)
  <2>1. \A i \in 0..MsBuckets : i = 0 \/ i \in 1..MsBuckets
    BY <1>0
  <2>2. \A i \in 1..MsBuckets : At(f, i) = f[i]
    <3> HIDE DEF At
    <3> QED
      BY <1>2
  <2>3. At(f, 0) = 0 /\ f[0] = 0 /\ f = [i \in 0..MsBuckets |-> f[i]]
    BY <1>0 DEF MsRuns
  <2>4. \A i \in 0..MsBuckets : At(f, i) = f[i]
    <3> HIDE DEF At
    <3> QED
      BY <2>1, <2>2, <2>3
  <2> HIDE DEF At
  <2> QED
    BY <2>3, <2>4
<1>4. MsCumulative(d) = CHOOSE g : IsUpTo(g)
  BY DEF MsCumulative
<1>5. PICK c : c = MsCumulative(d)
  OBVIOUS
<1>6. IsUpTo(c)
  <2> HIDE DEF IsUpTo
  <2> QED
    BY <1>3, <1>4, <1>5
<1>7. DOMAIN c = 0..MsBuckets /\ c = [i \in 0..MsBuckets |-> c[i]]
      /\ \A i \in 0..MsBuckets : c[i] = At(c, i)
  <2> HIDE DEF At
  <2> QED
    BY <1>6
<1>8. \A i \in 0..MsBuckets : c[i] = f[i]
  <2> DEFINE Bad == {i \in 0..MsBuckets : c[i] # f[i]}
  <2>1. SUFFICES ASSUME Bad # {} PROVE FALSE
    OBVIOUS
  <2>2. PICK k \in Bad : \A j \in Bad : k <= j
    <3>1. Bad \subseteq Nat
      BY <1>0
    <3> HIDE DEF Bad
    <3> QED
      BY <2>1, <3>1, LeastNat
  <2>3. k # 0
    <3>1. 0 \in 0..MsBuckets /\ At(c, 0) = 0
      BY <1>0
    <3>2. c[0] = 0 /\ f[0] = 0
      BY <1>0, <1>7, <3>1 DEF MsRuns
    <3> QED
      BY <2>2, <3>2
  <2>4. k \in 1..MsBuckets /\ k - 1 \in 0..MsBuckets /\ ~(k <= k - 1)
    BY <1>0, <2>2, <2>3
  <2>5. c[k - 1] = f[k - 1]
    BY <2>2, <2>4
  <2>6. c[k] = f[k]
    <3> HIDE DEF At
    <3> QED
      BY <1>2, <1>7, <2>2, <2>4, <2>5
  <2> QED
    BY <2>2, <2>6
<1>9. f = [i \in 0..MsBuckets |-> f[i]]
  BY <1>0 DEF MsRuns
<1> QED
  BY <1>5, <1>7, <1>8, <1>9

\* Applying the difference a registry shows adds what it holds.
LEMMA MsAppliesAll ==
    ASSUME NEW r \in MsMetrics, NEW s \in MsMetrics
    PROVE  MsApplied(r, MsDelta(s)) = MsTogether(r, s)
<1>1. PICK f : f = MsSamples(s)
  OBVIOUS
<1>2. MsRuns(f, s) /\ MsCumulative(MsDelta(s).buckets) = f
  BY <1>1, MsSamplesRun, MsCumulates
<1>3. \A i \in 1..MsBuckets : MsIncrement(f, i) = s.count[i]
  <2> SUFFICES ASSUME NEW i \in 1..MsBuckets PROVE f[i] - f[i - 1] = s.count[i]
    BY DEF MsIncrement
  <2>1. f[i] \in Nat /\ f[i - 1] \in Nat /\ s.count[i] \in Nat /\ f[i] = f[i - 1] + s.count[i]
    BY <1>2, MsRunsUp
  <2> QED
    BY <2>1
<1>4. MsDelta(s).sum = s.sum /\ MsDelta(s).errors = s.errors
  BY DEF MsDelta
<1> QED
  BY <1>2, <1>3, <1>4 DEF MsApplied, MsTogether

-----------------------------------------------------------------------------
MsFrames == [port : MsPorts, timed : BOOLEAN, inside : SUBSET MsPorts]

\* A call knows the ports of the calls around it, and is timed if its own is
\* not among them.
MsFits(stack) ==
    \A i \in 1..Len(stack) :
       /\ \A o \in MsPorts : o \in stack[i].inside <=> \E j \in i..Len(stack) : stack[j].port = o
       /\ stack[i].timed = \A j \in i + 1..Len(stack) : stack[j].port # stack[i].port

MsInv ==
    /\ msRegistry \in [MsProcesses -> [MsPorts -> MsMetrics]]
    /\ msStack \in [MsProcesses -> Seq(MsFrames)]
    /\ msAttempt = [a \in MsAttempts |-> msAttempt[a]]
    /\ msReport = [a \in MsAttempts |-> msReport[a]]
    /\ \A p \in MsProcesses : MsFits(msStack[p])
    /\ msDone = msRegistry
    /\ \A a \in MsAttempts : msAttempt[a] = "sent" =>
          msReport[a] = [o \in MsPorts |-> MsDelta(msRegistry[a][o])]

\* A call goes on the stack.
LEMMA MsPushed ==
    ASSUME NEW s \in Seq(MsFrames), MsFits(s), NEW port \in MsPorts, NEW t, NEW c,
           c = [port |-> port, timed |-> port \notin MsInside(s),
                inside |-> MsInside(s) \cup {port}],
           t = <<c>> \o s
    PROVE  t \in Seq(MsFrames) /\ MsFits(t)
<1>0. \A i \in 1..Len(s), o \in MsPorts :
         o \in s[i].inside <=> \E j \in i..Len(s) : s[j].port = o
  BY Zenon DEF MsFits
<1>1. \A o \in MsPorts : o \in MsInside(s) <=> \E j \in 1..Len(s) : s[j].port = o
  <2>1. CASE s = <<>>
    BY <2>1 DEF MsInside
  <2>2. CASE s # <<>>
    <3>1. 1 \in 1..Len(s)
      BY <2>2
    <3> QED
      BY <1>0, <2>2, <3>1 DEF MsInside
  <2> QED
    BY <2>1, <2>2
<1>2. MsInside(s) \subseteq MsPorts
  <2>1. CASE s = <<>>
    BY <2>1 DEF MsInside
  <2>2. CASE s # <<>>
    <3>1. 1 \in 1..Len(s) /\ s[1] \in MsFrames
      BY <2>2
    <3> QED
      BY <2>2, <3>1 DEF MsInside, MsFrames
  <2> QED
    BY <2>1, <2>2
<1>3. c \in MsFrames
  BY <1>2 DEF MsFrames
<1>4. t \in Seq(MsFrames) /\ Len(t) = Len(s) + 1 /\ t[1] = c /\ Len(s) \in Nat
      /\ \A i \in 2..Len(t) : t[i] = s[i - 1]
  BY <1>3, ConcatProperties
<1>5. ASSUME NEW i \in 1..Len(s)
      PROVE  i + 1 \in 2..Len(t) /\ t[i + 1] = s[i]
  BY <1>4
<1>6. ASSUME NEW i \in 2..Len(t)
      PROVE  i - 1 \in 1..Len(s) /\ t[i] = s[i - 1]
  BY <1>4
<1>7. ASSUME NEW o \in MsPorts, NEW i \in 1..Len(s)
      PROVE  (\E j \in i..Len(s) : s[j].port = o) <=> (\E j \in i + 1..Len(t) : t[j].port = o)
  <2>1. ASSUME NEW j \in i..Len(s) PROVE j + 1 \in i + 1..Len(t) /\ t[j + 1] = s[j]
    BY <1>4
  <2>2. ASSUME NEW j \in i + 1..Len(t) PROVE j - 1 \in i..Len(s) /\ t[j] = s[j - 1]
    BY <1>4
  <2> QED
    BY <2>1, <2>2
<1>8. ASSUME NEW i \in 1..Len(t)
      PROVE  /\ \A o \in MsPorts : o \in t[i].inside <=> \E j \in i..Len(t) : t[j].port = o
             /\ t[i].timed = \A j \in i + 1..Len(t) : t[j].port # t[i].port
  <2>1. CASE i = 1
    <3>1. t[i].port = port /\ t[i].inside = MsInside(s) \cup {port}
          /\ t[i].timed = (port \notin MsInside(s))
      BY <1>4, <2>1
    <3>2. ASSUME NEW o \in MsPorts
          PROVE  o \in MsInside(s) <=> \E j \in 2..Len(t) : t[j].port = o
      <4>1. \A j \in 1..Len(s) : j + 1 \in 2..Len(t) /\ t[j + 1] = s[j]
        BY <1>5
      <4>2. \A j \in 2..Len(t) : j - 1 \in 1..Len(s) /\ t[j] = s[j - 1]
        BY <1>6
      <4> QED
        BY <1>1, <4>1, <4>2
    <3>3. \A j \in 1..Len(t) : j = 1 \/ j \in 2..Len(t)
      BY <1>4
    <3>4. 1 \in 1..Len(t) /\ \A j \in 2..Len(t) : j \in 1..Len(t)
      BY <1>4
    <3>5. ASSUME NEW o \in MsPorts
          PROVE  o \in t[i].inside <=> \E j \in 1..Len(t) : t[j].port = o
      BY <2>1, <3>1, <3>2, <3>3, <3>4
    <3>6. (port \notin MsInside(s)) <=> \A j \in 2..Len(t) : t[j].port # t[i].port
      BY <3>1, <3>2
    <3>7. i + 1 = 2
      BY <2>1
    <3>8. t[i].timed = \A j \in i + 1..Len(t) : t[j].port # t[i].port
      BY <3>1, <3>6, <3>7, Zenon
    <3> QED
      BY <2>1, <3>5, <3>8, Zenon
  <2>2. CASE i # 1
    <3>1. PICK k \in 1..Len(s) : i = k + 1 /\ t[i] = s[k]
      <4>1. i \in 2..Len(t) /\ i = (i - 1) + 1
        BY <1>4, <2>2
      <4> QED
        BY <1>6, <4>1
    <3>2. \A o \in MsPorts : o \in t[i].inside <=> \E j \in i..Len(t) : t[j].port = o
      BY <1>0, <1>7, <3>1
    <3>3. \A j \in k + 1..Len(s) : j + 1 \in i + 1..Len(t) /\ t[j + 1] = s[j]
      BY <1>4, <3>1
    <3>4. \A j \in i + 1..Len(t) : j - 1 \in k + 1..Len(s) /\ t[j] = s[j - 1]
      BY <1>4, <3>1
    <3>5. s[k].timed = \A j \in k + 1..Len(s) : s[j].port # s[k].port
      BY DEF MsFits
    <3>6. (\A j \in k + 1..Len(s) : s[j].port # s[k].port)
            <=> \A j \in i + 1..Len(t) : t[j].port # t[i].port
      <4>1. ASSUME \A j \in k + 1..Len(s) : s[j].port # s[k].port, NEW j \in i + 1..Len(t)
            PROVE  t[j].port # t[i].port
        BY <3>1, <3>4, <4>1
      <4>2. ASSUME \A j \in i + 1..Len(t) : t[j].port # t[i].port, NEW j \in k + 1..Len(s)
            PROVE  s[j].port # s[k].port
        BY <3>1, <3>3, <4>2
      <4> QED
        BY <4>1, <4>2
    <3>7. t[i].timed = \A j \in i + 1..Len(t) : t[j].port # t[i].port
      BY <3>1, <3>5, <3>6, Zenon
    <3> QED
      BY <3>2, <3>7, Zenon
  <2> QED
    BY <2>1, <2>2
<1>9. MsFits(t)
  BY <1>8, Zenon DEF MsFits
<1> QED
  BY <1>4, <1>9

\* The innermost call leaves it.
LEMMA MsPopped ==
    ASSUME NEW s \in Seq(MsFrames), MsFits(s), s # <<>>
    PROVE  Tail(s) \in Seq(MsFrames) /\ MsFits(Tail(s))
<1>1. PICK t : t = Tail(s)
  OBVIOUS
<1>2. t \in Seq(MsFrames) /\ Len(t) = Len(s) - 1 /\ Len(s) \in Nat /\ Len(t) \in Nat
      /\ \A i \in 1..Len(t) : t[i] = s[i + 1]
  BY <1>1, HeadTailProperties
<1>3. ASSUME NEW i \in 1..Len(t)
      PROVE  /\ \A o \in MsPorts : o \in t[i].inside <=> \E j \in i..Len(t) : t[j].port = o
             /\ t[i].timed = \A j \in i + 1..Len(t) : t[j].port # t[i].port
  <2>1. i + 1 \in 1..Len(s) /\ t[i] = s[i + 1]
    BY <1>2
  <2>2. \A j \in i..Len(t) : j + 1 \in i + 1..Len(s) /\ t[j] = s[j + 1]
    BY <1>2
  <2>3. \A j \in i + 1..Len(s) : j - 1 \in i..Len(t) /\ s[j] = t[j - 1]
    <3>1. ASSUME NEW j \in i + 1..Len(s) PROVE j - 1 \in i..Len(t) /\ s[j] = t[j - 1]
      <4>1. j - 1 \in i..Len(t) /\ (j - 1) + 1 = j
        BY <1>2
      <4> QED
        BY <2>2, <4>1
    <3> QED
      BY <3>1
  <2>4. \A j \in i + 1..Len(t) : j + 1 \in i + 2..Len(s) /\ t[j] = s[j + 1]
    BY <1>2
  <2>5. \A j \in i + 2..Len(s) : j - 1 \in i + 1..Len(t) /\ s[j] = t[j - 1]
    <3>1. ASSUME NEW j \in i + 2..Len(s) PROVE j - 1 \in i + 1..Len(t) /\ s[j] = t[j - 1]
      <4>1. j - 1 \in i + 1..Len(t) /\ (j - 1) + 1 = j
        BY <1>2
      <4> QED
        BY <2>4, <4>1
    <3> QED
      BY <3>1
  <2>6. /\ \A o \in MsPorts : o \in s[i + 1].inside <=> \E j \in i + 1..Len(s) : s[j].port = o
        /\ s[i + 1].timed = \A j \in i + 1 + 1..Len(s) : s[j].port # s[i + 1].port
    BY <2>1 DEF MsFits
  <2>7. i + 1 + 1 = i + 2
    BY <1>2
  <2>8. \A o \in MsPorts : o \in t[i].inside <=> \E j \in i..Len(t) : t[j].port = o
    <3> SUFFICES ASSUME NEW o \in MsPorts
                 PROVE  (\E j \in i + 1..Len(s) : s[j].port = o)
                          <=> (\E j \in i..Len(t) : t[j].port = o)
      BY <2>1, <2>6
    <3> QED
      BY <2>2, <2>3
  <2>9. (\A j \in i + 1 + 1..Len(s) : s[j].port # s[i + 1].port)
          <=> \A j \in i + 1..Len(t) : t[j].port # t[i].port
    BY <2>1, <2>4, <2>5, <2>7
  <2>10. t[i].timed = \A j \in i + 1..Len(t) : t[j].port # t[i].port
    BY <2>1, <2>6, <2>9, Zenon
  <2> QED
    BY <2>8, <2>10, Zenon
<1>4. MsFits(t)
  BY <1>3, Zenon DEF MsFits
<1> QED
  BY <1>1, <1>2, <1>4

\* A call that returned is counted.
LEMMA MsObservesOne ==
    ASSUME NEW r \in MsMetrics, NEW bucket \in 1..MsBuckets, NEW raises \in BOOLEAN
    PROVE  MsObserved(r, bucket, raises) \in MsMetrics
<1>1. bucket - 1 \in Nat /\ MsBuckets \in Nat
  BY MsAssumption
<1>2. [r.count EXCEPT ![bucket] = @ + 1] \in [1..MsBuckets -> Nat]
  <2>1. PICK c : c = r.count /\ c \in [1..MsBuckets -> Nat]
    BY DEF MsMetrics
  <2>2. c[bucket] + 1 \in Nat
    <3>1. c[bucket] \in Nat
      BY <2>1
    <3> QED
      BY <3>1
  <2>3. [c EXCEPT ![bucket] = c[bucket] + 1] \in [1..MsBuckets -> Nat]
    BY <2>1, <2>2
  <2> QED
    BY <2>1, <2>3
<1>3. r.sum + bucket - 1 \in Nat
  BY <1>1 DEF MsMetrics
<1>4. (IF raises THEN r.errors + 1 ELSE r.errors) \in Nat
  BY DEF MsMetrics
<1> QED
  BY <1>2, <1>3, <1>4 DEF MsObserved, MsMetrics

LEMMA MsTogetherHolds ==
    ASSUME NEW r \in MsMetrics, NEW s \in MsMetrics
    PROVE  MsTogether(r, s) \in MsMetrics
<1>1. \A i \in 1..MsBuckets : r.count[i] + s.count[i] \in Nat
  <2>1. PICK c : c = r.count /\ c \in [1..MsBuckets -> Nat]
    BY DEF MsMetrics
  <2>2. PICK d : d = s.count /\ d \in [1..MsBuckets -> Nat]
    BY DEF MsMetrics
  <2>3. \A i \in 1..MsBuckets : c[i] + d[i] \in Nat
    <3> SUFFICES ASSUME NEW i \in 1..MsBuckets PROVE c[i] + d[i] \in Nat
      OBVIOUS
    <3>1. c[i] \in Nat /\ d[i] \in Nat
      BY <2>1, <2>2
    <3> QED
      BY <3>1
  <2> QED
    BY <2>1, <2>2, <2>3
<1>2. r.sum + s.sum \in Nat /\ r.errors + s.errors \in Nat
  BY DEF MsMetrics
<1> QED
  BY <1>1, <1>2 DEF MsTogether, MsMetrics

LEMMA MsCalled ==
    ASSUME MsInv, NEW p \in MsProcesses, NEW port \in MsPorts, MsCall(p, port)
    PROVE  MsInv'
<1>1. PICK c : c = [port |-> port, timed |-> port \notin MsInside(msStack[p]),
                    inside |-> MsInside(msStack[p]) \cup {port}]
  OBVIOUS
<1>2. PICK t : t = <<c>> \o msStack[p]
  OBVIOUS
<1>3. t \in Seq(MsFrames) /\ MsFits(t)
  BY <1>1, <1>2, MsPushed DEF MsInv
<1>4. msStack' = [msStack EXCEPT ![p] = t]
  BY <1>1, <1>2 DEF MsCall, MsInv
<1>5. msStack' \in [MsProcesses -> Seq(MsFrames)]
  BY <1>3, <1>4 DEF MsInv
<1>6. \A q \in MsProcesses : MsFits(msStack'[q])
  BY <1>3, <1>4 DEF MsInv
<1> QED
  BY <1>5, <1>6 DEF MsCall, MsInv

LEMMA MsReturned ==
    ASSUME MsInv, NEW p \in MsProcesses, NEW bucket \in 1..MsBuckets, NEW raises \in BOOLEAN,
           MsReturn(p, bucket, raises)
    PROVE  MsInv'
<1>1. PICK s : s = msStack[p]
  OBVIOUS
<1>2. s \in Seq(MsFrames) /\ MsFits(s) /\ s # <<>> /\ MsLives(p)
  BY <1>1 DEF MsInv, MsReturn
<1>3. PICK c : c = Head(s)
  OBVIOUS
<1>4. c = s[1] /\ c \in MsFrames /\ 1 \in 1..Len(s) /\ Len(s) \in Nat
  BY <1>2, <1>3
<1>5. c.timed = \A i \in 2..Len(s) : s[i].port # c.port
  <2>1. s[1].timed = \A i \in 1 + 1..Len(s) : s[i].port # s[1].port
    BY <1>2, <1>4, Zenon DEF MsFits
  <2>2. 1 + 1 = 2
    OBVIOUS
  <2> QED
    BY <1>4, <2>1, <2>2, Zenon
<1>6. /\ msRegistry' = IF ~c.timed THEN msRegistry
                       ELSE [msRegistry EXCEPT ![p][c.port] = MsObserved(@, bucket, raises)]
      /\ msDone' = IF ~c.timed THEN msDone
                   ELSE [msDone EXCEPT ![p][c.port] = MsObserved(@, bucket, raises)]
      /\ msStack' = [msStack EXCEPT ![p] = Tail(s)]
      /\ UNCHANGED <<msAttempt, msReport>>
  BY <1>1, <1>3, <1>5, Zenon DEF MsReturn
<1>7. msDone' = msRegistry'
  BY <1>6 DEF MsInv
<1>8. /\ msRegistry' \in [MsProcesses -> [MsPorts -> MsMetrics]]
      /\ \A a \in MsAttempts : msAttempt[a] = "sent" => msRegistry'[a] = msRegistry[a]
  <2>1. CASE ~c.timed
    BY <1>6, <2>1 DEF MsInv
  <2>2. CASE c.timed
    <3>1. c.port \in MsPorts /\ msRegistry[p][c.port] \in MsMetrics
      BY <1>4 DEF MsInv, MsFrames
    <3>2. PICK m \in MsMetrics : m = MsObserved(msRegistry[p][c.port], bucket, raises)
      BY <3>1, MsObservesOne
    <3>3. msRegistry' = [msRegistry EXCEPT ![p] = [msRegistry[p] EXCEPT ![c.port] = m]]
      BY <1>6, <2>2, <3>2
    <3>4. [msRegistry[p] EXCEPT ![c.port] = m] \in [MsPorts -> MsMetrics]
      BY <3>1, <3>2 DEF MsInv
    <3>5. \A a \in MsAttempts : msAttempt[a] = "sent" => a # p
      BY <1>2 DEF MsLives
    <3> QED
      BY <3>3, <3>4, <3>5 DEF MsInv, MsProcesses
  <2> QED
    BY <2>1, <2>2
<1>9. /\ msStack' \in [MsProcesses -> Seq(MsFrames)]
      /\ \A q \in MsProcesses : MsFits(msStack'[q])
  <2>1. PICK t : t = Tail(s) /\ t \in Seq(MsFrames) /\ MsFits(t)
    BY <1>2, MsPopped
  <2>2. msStack' = [msStack EXCEPT ![p] = t]
    BY <1>6, <2>1
  <2> QED
    BY <2>1, <2>2 DEF MsInv
<1>10. \A a \in MsAttempts : msAttempt'[a] = "sent" =>
          msReport'[a] = [o \in MsPorts |-> MsDelta(msRegistry'[a][o])]
  BY <1>6, <1>8 DEF MsInv
<1> QED
  BY <1>6, <1>7, <1>8, <1>9, <1>10 DEF MsInv

LEMMA MsReported ==
    ASSUME MsInv, NEW a \in MsAttempts, MsSpawn(a) \/ MsSend(a) \/ MsKill(a)
    PROVE  MsInv'
<1>1. /\ msAttempt' = [b \in MsAttempts |-> msAttempt'[b]]
      /\ \A b \in MsAttempts : b # a => msAttempt'[b] = msAttempt[b]
      /\ UNCHANGED <<msRegistry, msDone>>
  BY DEF MsInv, MsSpawn, MsSend, MsKill
<1>2. msReport' = [b \in MsAttempts |-> msReport'[b]]
  BY DEF MsInv, MsSpawn, MsSend, MsKill
<1>3. ASSUME NEW b \in MsAttempts, msAttempt'[b] = "sent"
      PROVE  msReport'[b] = [o \in MsPorts |-> MsDelta(msRegistry'[b][o])]
  <2>1. CASE MsSpawn(a)
    BY <1>3, <2>1 DEF MsInv, MsSpawn
  <2>2. CASE MsSend(a)
    <3>1. CASE b = a
      BY <2>2, <3>1 DEF MsInv, MsSend
    <3>2. CASE b # a
      BY <1>3, <2>2, <3>2 DEF MsInv, MsSend
    <3> QED
      BY <3>1, <3>2
  <2>3. CASE MsKill(a)
    BY <1>3, <2>3 DEF MsInv, MsKill
  <2> QED
    BY <2>1, <2>2, <2>3
<1>4. /\ msStack' \in [MsProcesses -> Seq(MsFrames)]
      /\ \A p \in MsProcesses : MsFits(msStack'[p])
  <2>1. CASE UNCHANGED msStack
    BY <2>1 DEF MsInv
  <2>2. CASE msStack' = [msStack EXCEPT ![a] = <<>>]
    <3>0. MsFits(<<>>) /\ <<>> \in Seq(MsFrames)
      BY DEF MsFits
    <3>1. PICK e : e = <<>> /\ MsFits(e) /\ e \in Seq(MsFrames)
      BY <3>0
    <3>2. msStack' = [msStack EXCEPT ![a] = e]
      BY <2>2, <3>1
    <3>3. \A p \in MsProcesses : msStack'[p] \in {e, msStack[p]}
      BY <3>2 DEF MsInv
    <3>4. \A p \in MsProcesses : MsFits(msStack'[p])
      <4> SUFFICES ASSUME NEW p \in MsProcesses PROVE MsFits(msStack'[p])
        OBVIOUS
      <4>1. MsFits(msStack[p])
        BY DEF MsInv
      <4>2. CASE msStack'[p] = e
        BY <3>1, <4>2
      <4>3. CASE msStack'[p] = msStack[p]
        BY <4>1, <4>3
      <4> QED
        BY <3>3, <4>2, <4>3
    <3>5. msStack' \in [MsProcesses -> Seq(MsFrames)]
      BY <3>1, <3>2 DEF MsInv
    <3> QED
      BY <3>4, <3>5
  <2> QED
    BY <2>1, <2>2 DEF MsSpawn, MsSend, MsKill
<1> QED
  BY <1>1, <1>2, <1>3, <1>4 DEF MsInv

LEMMA MsAdded ==
    ASSUME MsInv, NEW a \in MsAttempts, MsApply(a)
    PROVE  MsInv'
<1>1. MsWorker \in MsProcesses /\ a \in MsProcesses /\ MsWorker \notin MsAttempts
  BY MsAssumption DEF MsProcesses
<1>2. PICK r : r = msRegistry[MsWorker]
  OBVIOUS
<1>3. PICK s : s = msRegistry[a]
  OBVIOUS
<1>4. r \in [MsPorts -> MsMetrics] /\ s \in [MsPorts -> MsMetrics]
  BY <1>1, <1>2, <1>3 DEF MsInv
<1>5. msReport[a] = [o \in MsPorts |-> MsDelta(s[o])]
  BY <1>3 DEF MsInv, MsApply
<1>6. \A o \in MsPorts : MsApplied(r[o], msReport[a][o]) = MsTogether(r[o], s[o])
  BY <1>4, <1>5, MsAppliesAll
<1>7. PICK t : t = [o \in MsPorts |-> MsTogether(r[o], s[o])]
  OBVIOUS
<1>8. t \in [MsPorts -> MsMetrics]
  BY <1>4, <1>7, MsTogetherHolds
<1>9. msRegistry' = [msRegistry EXCEPT ![MsWorker] = t]
  <2>1. msRegistry' = [msRegistry EXCEPT ![MsWorker] =
                         [o \in MsPorts |-> MsApplied(r[o], msReport[a][o])]]
    BY <1>1, <1>2 DEF MsApply, MsInv
  <2>2. [o \in MsPorts |-> MsApplied(r[o], msReport[a][o])] = t
    BY <1>6, <1>7
  <2> QED
    BY <2>1, <2>2
<1>10. msDone' = [msDone EXCEPT ![MsWorker] = t]
  BY <1>1, <1>2, <1>3, <1>7 DEF MsApply, MsInv
<1>11. /\ msAttempt' = [b \in MsAttempts |-> msAttempt'[b]]
       /\ \A b \in MsAttempts : msAttempt'[b] = "sent" => msAttempt[b] = "sent"
       /\ UNCHANGED <<msStack, msReport>>
  BY DEF MsApply, MsInv
<1>12. msRegistry' \in [MsProcesses -> [MsPorts -> MsMetrics]] /\ msDone' = msRegistry'
  BY <1>1, <1>8, <1>9, <1>10 DEF MsInv
<1>13. \A b \in MsAttempts : msRegistry'[b] = msRegistry[b]
  BY <1>1, <1>9 DEF MsInv, MsProcesses
<1> QED
  BY <1>11, <1>12, <1>13 DEF MsInv

\* What is served is the outermost calls of the worker and of the attempts whose
\* message it has applied, each once and in its bucket, for any number of
\* attempts, ports and calls (metrics.py apply_delta, observed.py).
THEOREM MsNeverEstimates == MsSpec => []MsNothingEstimated
<1>1. MsInit => MsInv
  <2> SUFFICES ASSUME MsInit PROVE MsInv
    OBVIOUS
  <2>1. MsZero \in MsMetrics
    BY DEF MsZero, MsMetrics
  <2>2. MsFits(<<>>) /\ <<>> \in Seq(MsFrames)
    BY DEF MsFits
  <2> QED
    BY <2>1, <2>2 DEF MsInit, MsInv
<1>2. MsInv /\ [MsNext]_msVars => MsInv'
  <2> SUFFICES ASSUME MsInv, [MsNext]_msVars PROVE MsInv'
    OBVIOUS
  <2>1. CASE MsNext
    BY <2>1, MsCalled, MsReturned, MsReported, MsAdded DEF MsNext
  <2>2. CASE UNCHANGED msVars
    BY <2>2 DEF msVars, MsInv
  <2> QED
    BY <2>1, <2>2
<1>3. MsInv => MsNothingEstimated
  BY DEF MsInv, MsNothingEstimated
<1> QED
  BY <1>1, <1>2, <1>3, PTL DEF MsSpec
-----------------------------------------------------------------------------
(***************************************************************************)
(* Startup: CfLintHolds.  Secrets added to a file change the LLM provider   *)
(* and what its choice fills in, and nothing else a validator reads; and    *)
(* no rule asks more of an LLM adapter than what the choice fills in.       *)
(***************************************************************************)

\* The plain keys that the choice of a provider may change.
CfLlmKeys == {"llm_provider", "llm_openai_base_url", "llm_openai_model", "anthropic_model"}

\* All that it may change.
CfChanged == CfLlmKeys \cup {"llm_openai_api_key"}

CfChooses(data) == "llm_provider" \in DOMAIN data => data["llm_provider"] = "auto"

\* What no choice was made for: the keys but the provider's.
CfUnchosen(data) == [k \in DOMAIN data \ {"llm_provider"} |-> data[k]]

\* The keys that the choice of the compatible provider fills in.
CfOpenAiKeys == {"llm_openai_api_key", "llm_openai_base_url", "llm_openai_model"}

LEMMA CfChoose ==
    ASSUME NEW data, NEW provider, NEW keys, "llm_provider" \notin keys,
           NEW chosen, chosen = Choose(data, provider, keys)
    PROVE  /\ "llm_provider" \in DOMAIN chosen /\ chosen["llm_provider"] = provider
           /\ \A k \in keys :
                 /\ k \in DOMAIN chosen
                 /\ chosen[k] = IF Has(data, k) THEN data[k] ELSE "set"
           /\ \A k : k # "llm_provider" /\ k \notin keys =>
                 /\ k \in DOMAIN chosen <=> k \in DOMAIN data
                 /\ k \in DOMAIN data => chosen[k] = data[k]
<1>1. PICK one : one = [llm_provider |-> provider]
  OBVIOUS
<1>2. PICK fill : fill = [k \in {x \in keys : ~Has(data, x)} |-> "set"]
  OBVIOUS
<1>3. PICK upper : upper = Over(one, fill)
  OBVIOUS
<1>4. chosen = Over(upper, data)
  BY <1>1, <1>2, <1>3 DEF Choose
<1>5. /\ DOMAIN upper = {"llm_provider"} \cup {x \in keys : ~Has(data, x)}
      /\ upper["llm_provider"] = provider
      /\ \A k \in keys : ~Has(data, k) => upper[k] = "set"
  BY <1>1, <1>2, <1>3 DEF Over
<1>6. /\ DOMAIN chosen = DOMAIN upper \cup DOMAIN data
      /\ \A k \in DOMAIN upper : chosen[k] = upper[k]
      /\ \A k \in DOMAIN data \ DOMAIN upper : chosen[k] = data[k]
  BY <1>4 DEF Over
<1>7. \A k : Has(data, k) => k \in DOMAIN data
  BY DEF Has
<1>8. ASSUME NEW k \in keys
      PROVE  k \in DOMAIN chosen /\ chosen[k] = IF Has(data, k) THEN data[k] ELSE "set"
  <2>1. CASE Has(data, k)
    <3>1. k \in DOMAIN data /\ k \notin DOMAIN upper
      BY <1>5, <1>7, <1>8, <2>1
    <3> QED
      BY <1>6, <2>1, <3>1
  <2>2. CASE ~Has(data, k)
    BY <1>5, <1>6, <1>8, <2>2
  <2> QED
    BY <2>1, <2>2
<1>9. ASSUME NEW k, k # "llm_provider", k \notin keys
      PROVE  /\ k \in DOMAIN chosen <=> k \in DOMAIN data
             /\ k \in DOMAIN data => chosen[k] = data[k]
  BY <1>5, <1>6, <1>9
<1>10. "llm_provider" \in DOMAIN chosen /\ chosen["llm_provider"] = provider
  BY <1>5, <1>6
<1> QED
  BY <1>8, <1>9, <1>10

\* The choice by case; it takes a key to choose.
CfChoice(data, chosen) ==
    \/ ~CfChooses(data) /\ chosen = data
    \/ CfChooses(data) /\ chosen = CfUnchosen(data)
    \/ /\ CfChooses(data) /\ DOMAIN data \cap CfSecrets # {}
       /\ \/ chosen = Choose(data, "gemini", {})
          \/ chosen = Choose(data, "openai-compatible", CfOpenAiKeys)
          \/ chosen = Choose(data, "anthropic", {"anthropic_model"})

LEMMA CfChoices == ASSUME NEW data PROVE CfChoice(data, LlmProviderFromKey(data))
<1>1. PICK chosen : chosen = LlmProviderFromKey(data)
  OBVIOUS
<1> DEFINE gemini == Has(data, "gemini_api_key")
           openai == Has(data, "llm_openai_api_key") \/ Has(data, "openai_api_key")
           anthropic == Has(data, "anthropic_api_key")
<1>2. gemini \/ openai \/ anthropic => DOMAIN data \cap CfSecrets # {}
  BY DEF Has, CfSecrets
<1>3. /\ ~CfChooses(data) => chosen = data
      /\ CfChooses(data) /\ gemini => chosen = Choose(data, "gemini", {})
      /\ CfChooses(data) /\ ~gemini /\ openai =>
            chosen = Choose(data, "openai-compatible", CfOpenAiKeys)
      /\ CfChooses(data) /\ ~gemini /\ ~openai /\ anthropic =>
            chosen = Choose(data, "anthropic", {"anthropic_model"})
      /\ CfChooses(data) /\ ~gemini /\ ~openai /\ ~anthropic => chosen = CfUnchosen(data)
  BY <1>1 DEF LlmProviderFromKey, CfChooses, CfOpenAiKeys, CfUnchosen
<1> HIDE DEF gemini, openai, anthropic
<1>4. CfChoice(data, chosen)
  BY <1>2, <1>3 DEF CfChoice
<1> QED
  BY <1>1, <1>4

\* What stays of the layers below the choice.
LEMMA CfChosen ==
    ASSUME NEW data, NEW chosen, chosen = LlmProviderFromKey(data)
    PROVE  /\ \A k : k \notin CfChanged =>
                 /\ k \in DOMAIN chosen <=> k \in DOMAIN data
                 /\ k \in DOMAIN data => chosen[k] = data[k]
           /\ \A k \in DOMAIN data \ {"llm_provider"} :
                 k \in DOMAIN chosen /\ (data[k] # "" => chosen[k] = data[k])
           /\ CfChoice(data, chosen)
<1>1. CfChoice(data, chosen)
  BY CfChoices
<1>2. CASE chosen = data
  BY <1>1, <1>2
<1>3. CASE chosen = CfUnchosen(data)
  BY <1>1, <1>3 DEF CfUnchosen, CfChanged, CfLlmKeys
<1>4. ASSUME NEW provider, NEW keys, "llm_provider" \notin keys, keys \subseteq CfChanged,
             chosen = Choose(data, provider, keys)
      PROVE  /\ \A k : k \notin CfChanged =>
                   /\ k \in DOMAIN chosen <=> k \in DOMAIN data
                   /\ k \in DOMAIN data => chosen[k] = data[k]
             /\ \A k \in DOMAIN data \ {"llm_provider"} :
                   k \in DOMAIN chosen /\ (data[k] # "" => chosen[k] = data[k])
  <2>1. /\ \A k \in keys : /\ k \in DOMAIN chosen
                           /\ chosen[k] = IF Has(data, k) THEN data[k] ELSE "set"
        /\ \A k : k # "llm_provider" /\ k \notin keys =>
              /\ k \in DOMAIN chosen <=> k \in DOMAIN data
              /\ k \in DOMAIN data => chosen[k] = data[k]
    BY <1>4, CfChoose
  <2>2. "llm_provider" \in CfChanged
    BY DEF CfChanged, CfLlmKeys
  <2>3. \A k \in DOMAIN data : data[k] # "" => Has(data, k)
    BY DEF Has
  <2> QED
    BY <1>4, <2>1, <2>2, <2>3
<1>5. CASE chosen = Choose(data, "gemini", {})
  <2>1. PICK none : none = {}
    OBVIOUS
  <2>2. "llm_provider" \notin none /\ none \subseteq CfChanged
    BY <2>1
  <2>3. chosen = Choose(data, "gemini", none)
    BY <1>5, <2>1
  <2> QED
    BY <1>1, <1>4, <2>2, <2>3
<1>6. CASE chosen = Choose(data, "openai-compatible", CfOpenAiKeys)
  <2>1. "llm_provider" \notin CfOpenAiKeys /\ CfOpenAiKeys \subseteq CfChanged
    BY DEF CfOpenAiKeys, CfChanged, CfLlmKeys
  <2> QED
    BY <1>1, <1>4, <1>6, <2>1
<1>7. CASE chosen = Choose(data, "anthropic", {"anthropic_model"})
  <2>1. {"anthropic_model"} \subseteq CfChanged
    BY DEF CfChanged, CfLlmKeys
  <2> QED
    BY <1>1, <1>4, <1>7, <2>1
<1> QED
  BY <1>1, <1>2, <1>3, <1>5, <1>6, <1>7 DEF CfChoice

CfBase(k) == IF k \in DOMAIN CfDefaults THEN CfDefaults[k] ELSE ""

LEMMA CfValue ==
    ASSUME NEW chosen, NEW value, value = Over(Over(chosen, CfDefaults), [k \in CfKeys |-> ""])
    PROVE  \A k \in CfKeys : value[k] = IF k \in DOMAIN chosen THEN chosen[k] ELSE CfBase(k)
<1>1. PICK unset : unset = [k \in CfKeys |-> ""]
  OBVIOUS
<1>2. PICK lower : lower = Over(chosen, CfDefaults)
  OBVIOUS
<1>3. value = Over(lower, unset)
  BY <1>1, <1>2
<1>4. /\ DOMAIN lower = DOMAIN chosen \cup DOMAIN CfDefaults
      /\ \A k \in DOMAIN lower : lower[k] = IF k \in DOMAIN chosen THEN chosen[k] ELSE CfDefaults[k]
  BY <1>2 DEF Over
<1>5. \A k \in CfKeys : value[k] = IF k \in DOMAIN lower THEN lower[k] ELSE ""
  BY <1>1, <1>3 DEF Over
<1> QED
  BY <1>4, <1>5 DEF CfBase

\* Layers an operator can have written.
CfTyped(data) ==
    \A k \in DOMAIN data :
       /\ k \in CfKeys
       /\ data[k] \in CfValues(k)

LEMMA CfValuesOf ==
    /\ \A k \in CfSecrets : "" \notin CfValues(k)
    /\ \A k : k \notin CfSecrets => CfValues(k) = CfPlain[k]
<1>1. \A k \in CfSecrets : "" \notin CfValues(k)
  BY DEF CfValues, CfSigningKeys
<1>2. \A k : k \notin CfSecrets => CfValues(k) = CfPlain[k]
  BY DEF CfValues, CfSecrets
<1> QED
  BY <1>1, <1>2

\* The adapters other than those of an LLM.
CfOthers == {"mlflow", "filesystem", "fs_store", "fsspec", "database", "rq", "inline", "log",
             "webhook", "registry_alias", "kubernetes", "env", "file", "vault"}

LEMMA CfOthersAsk ==
    ASSUME NEW a \in CfOthers
    PROVE  CfAdapters[a].required \cup CfAdapters[a].production \subseteq CfKeys \ CfLlmKeys
<1>1. {"mlflow_tracking_uri", "registry_fs_root", "artifact_store_root", "artifact_store_url",
       "job_queue_rq_redis_url", "notification_signing_keys", "notification_webhook_url",
       "k8s_api_url", "secrets_dir", "secrets_vault_url", "secrets_vault_token_file"}
        \subseteq CfKeys \ CfLlmKeys
  BY DEF CfKeys, CfSecrets, CfPlain, CfLlmKeys
<1>2. CfAdapters[a].required \cup CfAdapters[a].production \subseteq
      {"mlflow_tracking_uri", "registry_fs_root", "artifact_store_root", "artifact_store_url",
       "job_queue_rq_redis_url", "notification_signing_keys", "notification_webhook_url",
       "k8s_api_url", "secrets_dir", "secrets_vault_url", "secrets_vault_token_file"}
  <2>1. \A w, x, y, z : Capability(w, x, y, z).required = x /\ Capability(w, x, y, z).production = y
    BY DEF Capability
  <2>2. CASE a = "mlflow"
    BY <2>1, <2>2 DEF CfAdapters
  <2>3. CASE a = "filesystem"
    BY <2>1, <2>3 DEF CfAdapters
  <2>4. CASE a = "fs_store"
    BY <2>1, <2>4 DEF CfAdapters
  <2>5. CASE a = "fsspec"
    BY <2>1, <2>5 DEF CfAdapters
  <2>6. CASE a = "rq"
    BY <2>1, <2>6 DEF CfAdapters
  <2>7. CASE a = "webhook"
    BY <2>1, <2>7 DEF CfAdapters
  <2>8. CASE a = "file"
    BY <2>1, <2>8 DEF CfAdapters
  <2>9. CASE a = "vault"
    BY <2>1, <2>9 DEF CfAdapters
  <2>10. CASE a \in {"database", "inline", "log", "registry_alias", "env"}
    <3>1. \E w, z : CfAdapters[a] = Capability(w, {}, {}, z)
      BY <2>10 DEF CfAdapters
    <3> QED
      BY <2>1, <3>1
  <2>11. CASE a = "kubernetes"
    BY <2>1, <2>11 DEF CfAdapters
  <2> QED
    BY <2>2, <2>3, <2>4, <2>5, <2>6, <2>7, <2>8, <2>9, <2>10, <2>11 DEF CfOthers
<1> QED
  BY <1>1, <1>2

CfProviders == {"gemini", "openai-compatible", "anthropic"}

LEMMA CfLlmAsks ==
    ASSUME NEW v \in CfProviders, NEW a, a = CfAdapters[CfSelectors["llm_provider"][v]]
    PROVE  /\ a.config = {} /\ a.production = {} /\ a.features = {}
           /\ v = "gemini" => a.required = {"gemini_api_key", "gemini_model"}
           /\ v = "openai-compatible" => a.required = {"llm_openai_base_url", "llm_openai_model"}
           /\ v = "anthropic" => a.required = {"anthropic_api_key", "anthropic_model"}
<1>1. CASE v = "gemini"
  <2>1. CfSelectors["llm_provider"][v] = "gemini"
    BY <1>1 DEF CfSelectors
  <2>2. a = Capability({}, {"gemini_api_key", "gemini_model"}, {}, {})
    BY <2>1 DEF CfAdapters
  <2> QED
    BY <1>1, <2>2 DEF Capability
<1>2. CASE v = "openai-compatible"
  <2>1. CfSelectors["llm_provider"][v] = "openai_compatible"
    BY <1>2 DEF CfSelectors
  <2>2. a = Capability({}, {"llm_openai_base_url", "llm_openai_model"}, {}, {})
    BY <2>1 DEF CfAdapters
  <2> QED
    BY <1>2, <2>2 DEF Capability
<1>3. CASE v = "anthropic"
  <2>1. CfSelectors["llm_provider"][v] = "anthropic"
    BY <1>3 DEF CfSelectors
  <2>2. a = Capability({}, {"anthropic_api_key", "anthropic_model"}, {}, {})
    BY <2>1 DEF CfAdapters
  <2> QED
    BY <1>3, <2>2 DEF Capability
<1> QED
  BY <1>1, <1>2, <1>3 DEF CfProviders

\* A selector in use names an installed adapter.
LEMMA CfResolves ==
    ASSUME NEW data, CfTyped(data), NEW external, NEW c, c = Candidate(data, external),
           NEW s \in Selected(c)
    PROVE  /\ s \in CfKeys /\ s \in DOMAIN CfSelectors
           /\ s # "llm_provider" => s \notin CfLlmKeys /\ CfSelectors[s][c.value[s]] \in CfOthers
           /\ s = "llm_provider" => c.value[s] \in CfProviders
<1>1. s \in {"registry_backend", "deployment_backend", "artifact_store_backend", "llm_provider",
             "job_queue_backend", "notification_backend", "secrets_backend"}
  BY DEF Selected, CfSelectors
<1>2. s \in CfKeys /\ s \in DOMAIN CfSelectors
  BY <1>1 DEF CfKeys, CfPlain, CfSelectors
<1>3. PICK chosen : chosen = LlmProviderFromKey(data)
  OBVIOUS
<1>4. c.value[s] = IF s \in DOMAIN chosen THEN chosen[s] ELSE CfBase(s)
  <2>1. c.value = Over(Over(chosen, CfDefaults), [k \in CfKeys |-> ""])
    BY <1>3 DEF Candidate
  <2> QED
    BY <1>2, <2>1, CfValue
<1>5. s \notin CfSecrets
  BY <1>1 DEF CfSecrets
<1>6. CASE s = "llm_provider"
  <2>1. c.value[s] # "none"
    BY <1>6 DEF Selected, CfDisabled
  <2>2. CfBase(s) = "gemini"
    BY <1>6 DEF CfBase, CfDefaults
  <2>3. CfChoice(data, chosen)
    BY <1>3, CfChosen
  <2>4. CASE ~CfChooses(data) /\ chosen = data
    <3>1. s \in DOMAIN data /\ data[s] # "auto"
      BY <1>6, <2>4 DEF CfChooses
    <3>2. data[s] \in CfPlain[s]
      BY <1>5, <3>1, CfValuesOf DEF CfTyped
    <3>3. data[s] \in {"auto", "none", "gemini", "openai-compatible", "anthropic"}
      BY <1>6, <3>2 DEF CfPlain
    <3> QED
      BY <1>2, <1>4, <1>6, <2>1, <2>4, <3>1, <3>3 DEF CfProviders
  <2>5. CASE chosen = CfUnchosen(data)
    <3>1. s \notin DOMAIN chosen
      BY <1>6, <2>5 DEF CfUnchosen
    <3> QED
      BY <1>2, <1>4, <1>6, <2>2, <3>1 DEF CfProviders
  <2>6. ASSUME NEW provider \in CfProviders, NEW keys, "llm_provider" \notin keys,
               chosen = Choose(data, provider, keys)
        PROVE  c.value[s] \in CfProviders
    <3>1. "llm_provider" \in DOMAIN chosen /\ chosen["llm_provider"] = provider
      BY <2>6, CfChoose
    <3> QED
      BY <1>4, <1>6, <3>1
  <2>7. CASE chosen = Choose(data, "gemini", {})
    <3>1. PICK none : none = {}
      OBVIOUS
    <3>2. "llm_provider" \notin none /\ "gemini" \in CfProviders
      BY <3>1 DEF CfProviders
    <3>3. chosen = Choose(data, "gemini", none)
      BY <2>7, <3>1
    <3>4. c.value[s] \in CfProviders
      BY <2>6, <3>2, <3>3
    <3> QED
      BY <1>2, <1>6, <3>4
  <2>8. CASE chosen = Choose(data, "openai-compatible", CfOpenAiKeys)
    <3>1. "llm_provider" \notin CfOpenAiKeys /\ "openai-compatible" \in CfProviders
      BY DEF CfOpenAiKeys, CfProviders
    <3>2. c.value[s] \in CfProviders
      BY <2>6, <2>8, <3>1
    <3> QED
      BY <1>2, <1>6, <3>2
  <2>9. CASE chosen = Choose(data, "anthropic", {"anthropic_model"})
    <3>1. "llm_provider" \notin {"anthropic_model"} /\ "anthropic" \in CfProviders
      BY DEF CfProviders
    <3>2. c.value[s] \in CfProviders
      BY <2>6, <2>9, <3>1
    <3> QED
      BY <1>2, <1>6, <3>2
  <2> QED
    BY <2>3, <2>4, <2>5, <2>7, <2>8, <2>9 DEF CfChoice
<1>7. CASE s # "llm_provider"
  <2>1. s \notin CfLlmKeys
    BY <1>1, <1>7 DEF CfLlmKeys
  <2>2. /\ s \in DOMAIN chosen <=> s \in DOMAIN data
        /\ s \in DOMAIN data => chosen[s] = data[s] /\ data[s] \in CfPlain[s]
    <3>1. s \notin CfChanged
      BY <1>5, <2>1 DEF CfChanged, CfSecrets
    <3>2. /\ s \in DOMAIN chosen <=> s \in DOMAIN data
          /\ s \in DOMAIN data => chosen[s] = data[s]
      BY <1>3, <3>1, CfChosen
    <3>3. s \in DOMAIN data => data[s] \in CfPlain[s]
      BY <1>5, CfValuesOf DEF CfTyped
    <3> QED
      BY <3>2, <3>3
  <2>3. c.value[s] \in CfPlain[s] \/ c.value[s] = CfBase(s)
    BY <1>4, <2>2
  <2>4. CASE s = "registry_backend"
    <3>1. c.value[s] \in {"mlflow", "filesystem"}
      BY <2>3, <2>4 DEF CfPlain, CfBase, CfDefaults
    <3> QED
      BY <1>2, <1>7, <2>1, <2>4, <3>1 DEF CfSelectors, CfOthers
  <2>5. CASE s = "deployment_backend"
    <3>1. c.value[s] \in {"registry-alias", "kubernetes"}
      BY <2>3, <2>5 DEF CfPlain, CfBase, CfDefaults
    <3> QED
      BY <1>2, <1>7, <2>1, <2>5, <3>1 DEF CfSelectors, CfOthers
  <2>6. CASE s = "artifact_store_backend"
    <3>1. c.value[s] \in {"filesystem", "fsspec"}
      BY <2>3, <2>6 DEF CfPlain, CfBase, CfDefaults
    <3> QED
      BY <1>2, <1>7, <2>1, <2>6, <3>1 DEF CfSelectors, CfOthers
  <2>7. CASE s = "job_queue_backend"
    <3>1. c.value[s] \in {"database", "rq", "inline"}
      BY <2>3, <2>7 DEF CfPlain, CfBase, CfDefaults
    <3> QED
      BY <1>2, <1>7, <2>1, <2>7, <3>1 DEF CfSelectors, CfOthers
  <2>8. CASE s = "notification_backend"
    <3>1. c.value[s] \in {"webhook", "log", "none"}
      BY <2>3, <2>8 DEF CfPlain, CfBase, CfDefaults
    <3>2. c.value[s] # "none"
      BY <2>8 DEF Selected, CfDisabled
    <3> QED
      BY <1>2, <1>7, <2>1, <2>8, <3>1, <3>2 DEF CfSelectors, CfOthers
  <2>9. CASE s = "secrets_backend"
    <3>1. c.value[s] \in {"env", "file", "vault"}
      BY <2>3, <2>9 DEF CfPlain, CfBase, CfDefaults
    <3> QED
      BY <1>2, <1>7, <2>1, <2>9, <3>1 DEF CfSelectors, CfOthers
  <2> QED
    BY <1>1, <1>7, <2>4, <2>5, <2>6, <2>7, <2>8, <2>9
<1> QED
  BY <1>6, <1>7

\* Secrets on top of a file.
CfAdds(file, layers) ==
    /\ CfTyped(file) /\ CfTyped(layers) /\ DOMAIN file \cap CfSecrets = {}
    /\ DOMAIN file \subseteq DOMAIN layers /\ DOMAIN layers \subseteq DOMAIN file \cup CfSecrets
    /\ \A k \in DOMAIN file : layers[k] = file[k]

\* What a validator reads is the same, but for the choice of the LLM.
CfAgree(a, b) ==
    /\ \A k \in CfKeys \ (CfLlmKeys \cup CfSecrets) :
          a.value[k] = b.value[k] /\ (k \in a.set <=> k \in b.set)
    /\ a.set \cap CfLlmKeys \subseteq b.set
    /\ \/ \A k \in CfLlmKeys : b.value[k] = a.value[k]
       \/ /\ a.value["llm_provider"] = "gemini" /\ b.value["llm_provider"] = "openai-compatible"
          /\ b.value["llm_openai_base_url"] # "" /\ b.value["llm_openai_model"] # ""
       \/ /\ a.value["llm_provider"] = "gemini" /\ b.value["llm_provider"] = "anthropic"
          /\ b.value["anthropic_model"] # ""

\* The secrets of the layers are the candidate's, and none is empty.
CfSecretsSet(layers, b) ==
    \A k \in CfSecrets \cap DOMAIN layers : k \in b.set /\ b.value[k] # ""

\* A chosen provider has what it requires.
LEMMA CfFilled ==
    ASSUME NEW data, NEW provider, NEW keys, "llm_provider" \notin keys,
           NEW chosen, chosen = Choose(data, provider, keys)
    PROVE  \A k \in keys : k \in DOMAIN chosen /\ chosen[k] # ""
<1>1. \A k \in keys : /\ k \in DOMAIN chosen
                     /\ chosen[k] = IF Has(data, k) THEN data[k] ELSE "set"
  BY CfChoose
<1>2. \A k : Has(data, k) => data[k] # ""
  BY DEF Has
<1>3. "set" # ""
  OBVIOUS
<1> QED
  BY <1>1, <1>2, <1>3, Zenon

LEMMA CfSame ==
    ASSUME NEW file, NEW layers, CfAdds(file, layers),
           NEW a, a = Candidate(file, TRUE), NEW b, b = Candidate(layers, FALSE)
    PROVE  /\ CfAgree(a, b) /\ a.external /\ ~b.external
           /\ a.set \cap CfSecrets = {}
           /\ CfSecretsSet(layers, b)
<1> DEFINE llm == "llm_provider"
<1>1. PICK f : f = LlmProviderFromKey(file)
  OBVIOUS
<1>2. PICK l : l = LlmProviderFromKey(layers)
  OBVIOUS
<1>3. /\ a.set = DOMAIN f
      /\ \A k \in CfKeys : a.value[k] = IF k \in DOMAIN f THEN f[k] ELSE CfBase(k)
  <2>1. a.set = DOMAIN f /\ a.value = Over(Over(f, CfDefaults), [k \in CfKeys |-> ""])
    BY <1>1 DEF Candidate
  <2> QED
    BY <2>1, CfValue
<1>4. /\ b.set = DOMAIN l
      /\ \A k \in CfKeys : b.value[k] = IF k \in DOMAIN l THEN l[k] ELSE CfBase(k)
  <2>1. b.set = DOMAIN l /\ b.value = Over(Over(l, CfDefaults), [k \in CfKeys |-> ""])
    BY <1>2 DEF Candidate
  <2> QED
    BY <2>1, CfValue
<1>5. /\ CfLlmKeys \subseteq CfKeys /\ CfSecrets \subseteq CfKeys /\ CfLlmKeys \cap CfSecrets = {}
      /\ CfChanged \subseteq CfLlmKeys \cup CfSecrets
      /\ llm \in CfLlmKeys /\ llm \notin CfSecrets
  BY DEF CfKeys, CfPlain, CfSecrets, CfLlmKeys, CfChanged
<1>6. \A k : k \notin CfChanged =>
          /\ k \in DOMAIN f <=> k \in DOMAIN file
          /\ k \in DOMAIN file => f[k] = file[k]
          /\ k \in DOMAIN l <=> k \in DOMAIN layers
          /\ k \in DOMAIN layers => l[k] = layers[k]
  BY <1>1, <1>2, CfChosen
<1>7. \A k : k \notin CfSecrets =>
          /\ k \in DOMAIN file <=> k \in DOMAIN layers
          /\ k \in DOMAIN file => file[k] = layers[k]
  BY DEF CfAdds
<1>8. \A k \in CfKeys \ (CfLlmKeys \cup CfSecrets) :
         a.value[k] = b.value[k] /\ (k \in a.set <=> k \in b.set)
  <2> SUFFICES ASSUME NEW k \in CfKeys \ (CfLlmKeys \cup CfSecrets)
               PROVE  a.value[k] = b.value[k] /\ (k \in a.set <=> k \in b.set)
    OBVIOUS
  <2>1. k \notin CfChanged
    BY <1>5
  <2>2. /\ k \in DOMAIN f <=> k \in DOMAIN l
        /\ k \in DOMAIN f => f[k] = l[k]
    BY <1>6, <1>7, <2>1
  <2> QED
    BY <1>3, <1>4, <2>2
<1>9. CfSecretsSet(layers, b)
  <2> SUFFICES ASSUME NEW k \in CfSecrets, k \in DOMAIN layers
               PROVE  k \in b.set /\ b.value[k] # ""
    BY DEF CfSecretsSet
  <2>1. k \in CfKeys /\ k # llm
    BY <1>5
  <2>2. layers[k] \in CfValues(k)
    BY DEF CfAdds, CfTyped
  <2>3. "" \notin CfValues(k)
    BY CfValuesOf
  <2>4. layers[k] # ""
    BY <2>2, <2>3
  <2>5. k \in DOMAIN l /\ l[k] = layers[k]
    BY <1>2, <2>1, <2>4, CfChosen
  <2> QED
    BY <1>4, <2>1, <2>4, <2>5
<1>10. CfChooses(file) <=> CfChooses(layers)
  BY <1>5, <1>7 DEF CfChooses
<1>11. \/ ~CfChooses(file) /\ f = file /\ l = layers
       \/ CfChooses(file) /\ f = CfUnchosen(file)
  <2>1. CfChoice(file, f) /\ CfChoice(layers, l)
    BY <1>1, <1>2, CfChosen
  <2>2. DOMAIN file \cap CfSecrets = {}
    BY DEF CfAdds
  <2> QED
    BY <1>10, <2>1, <2>2 DEF CfChoice
<1>12. a.set \cap CfSecrets = {}
  <2>1. DOMAIN f \subseteq DOMAIN file
    BY <1>11 DEF CfUnchosen
  <2> QED
    BY <1>3, <2>1 DEF CfAdds
<1>13. a.set \cap CfLlmKeys \subseteq b.set
  <2> SUFFICES ASSUME NEW k \in CfLlmKeys, k \in DOMAIN f PROVE k \in DOMAIN l
    BY <1>3, <1>4
  <2>1. k \in DOMAIN file /\ k \in DOMAIN layers
    BY <1>5, <1>7, <1>11 DEF CfUnchosen
  <2>2. CASE ~CfChooses(file)
    BY <1>11, <2>1, <2>2
  <2>3. CASE CfChooses(file)
    <3>1. k # llm
      BY <1>11, <2>3 DEF CfUnchosen
    <3> QED
      BY <1>2, <2>1, <3>1, CfChosen
  <2> QED
    BY <2>2, <2>3
<1>14. ASSUME CfChooses(file)
       PROVE  /\ a.value[llm] = "gemini"
              /\ \A k \in CfLlmKeys \ {llm} :
                    a.value[k] = IF k \in DOMAIN layers THEN layers[k] ELSE CfBase(k)
  <2>1. f = CfUnchosen(file)
    BY <1>11, <1>14
  <2>2. CfBase(llm) = "gemini"
    BY DEF CfBase, CfDefaults
  <2>3. llm \notin DOMAIN f
    BY <2>1 DEF CfUnchosen
  <2>4. a.value[llm] = "gemini"
    BY <1>3, <1>5, <2>2, <2>3
  <2>5. ASSUME NEW k \in CfLlmKeys \ {llm}
        PROVE  a.value[k] = IF k \in DOMAIN layers THEN layers[k] ELSE CfBase(k)
    <3>1. /\ k \in DOMAIN f <=> k \in DOMAIN layers
          /\ k \in DOMAIN layers => f[k] = layers[k]
      BY <1>5, <1>7, <2>1 DEF CfUnchosen
    <3> QED
      BY <1>3, <1>5, <3>1
  <2> QED
    BY <2>4, <2>5
<1>15. CfAgree(a, b)
  <2>1. CASE ~CfChooses(file)
    <3>1. ASSUME NEW k \in CfLlmKeys PROVE b.value[k] = a.value[k]
      <4>1. /\ k \in DOMAIN f <=> k \in DOMAIN l
            /\ k \in DOMAIN f => f[k] = l[k]
        BY <1>5, <1>7, <1>11, <2>1
      <4> QED
        BY <1>3, <1>4, <1>5, <4>1
    <3> QED
      BY <1>8, <1>13, <3>1 DEF CfAgree
  <2>2. CASE CfChooses(file) /\ l = CfUnchosen(layers)
    <3>1. llm \notin DOMAIN l /\ CfBase(llm) = "gemini"
      BY <2>2 DEF CfUnchosen, CfBase, CfDefaults
    <3>2. b.value[llm] = "gemini"
      BY <1>4, <1>5, <3>1
    <3>3. ASSUME NEW k \in CfLlmKeys \ {llm} PROVE b.value[k] = a.value[k]
      <4>1. /\ k \in DOMAIN l <=> k \in DOMAIN layers
            /\ k \in DOMAIN layers => l[k] = layers[k]
        BY <2>2 DEF CfUnchosen
      <4> QED
        BY <1>4, <1>5, <1>14, <2>2, <4>1
    <3> QED
      BY <1>8, <1>13, <1>14, <2>2, <3>2, <3>3 DEF CfAgree
  <2>3. CASE CfChooses(file) /\ l = Choose(layers, "gemini", {})
    <3>1. PICK none : none = {}
      OBVIOUS
    <3>2. llm \notin none /\ l = Choose(layers, "gemini", none)
      BY <2>3, <3>1
    <3>3. /\ llm \in DOMAIN l /\ l[llm] = "gemini"
          /\ \A k : k # llm /\ k \notin none =>
                /\ k \in DOMAIN l <=> k \in DOMAIN layers
                /\ k \in DOMAIN layers => l[k] = layers[k]
      BY <3>2, CfChoose
    <3>4. b.value[llm] = "gemini"
      BY <1>4, <1>5, <3>3
    <3>5. ASSUME NEW k \in CfLlmKeys \ {llm} PROVE b.value[k] = a.value[k]
      <4>1. /\ k \in DOMAIN l <=> k \in DOMAIN layers
            /\ k \in DOMAIN layers => l[k] = layers[k]
        BY <3>1, <3>3
      <4> QED
        BY <1>4, <1>5, <1>14, <2>3, <4>1
    <3> QED
      BY <1>8, <1>13, <1>14, <2>3, <3>4, <3>5 DEF CfAgree
  <2>4. CASE CfChooses(file) /\ l = Choose(layers, "openai-compatible", CfOpenAiKeys)
    <3>1. llm \notin CfOpenAiKeys
      BY DEF CfOpenAiKeys
    <3>2. llm \in DOMAIN l /\ l[llm] = "openai-compatible"
      BY <2>4, <3>1, CfChoose
    <3>3. \A k \in CfOpenAiKeys : k \in DOMAIN l /\ l[k] # ""
      BY <2>4, <3>1, CfFilled
    <3>4. b.value[llm] = "openai-compatible"
      BY <1>4, <1>5, <3>2
    <3>5. {"llm_openai_base_url", "llm_openai_model"} \subseteq CfOpenAiKeys \cap CfKeys
      BY <1>5 DEF CfOpenAiKeys, CfLlmKeys
    <3>6. b.value["llm_openai_base_url"] # "" /\ b.value["llm_openai_model"] # ""
      BY <1>4, <3>3, <3>5
    <3> QED
      BY <1>8, <1>13, <1>14, <2>4, <3>4, <3>6 DEF CfAgree
  <2>5. CASE CfChooses(file) /\ l = Choose(layers, "anthropic", {"anthropic_model"})
    <3>1. llm \notin {"anthropic_model"}
      OBVIOUS
    <3>2. llm \in DOMAIN l /\ l[llm] = "anthropic"
      BY <2>5, <3>1, CfChoose
    <3>3. \A k \in {"anthropic_model"} : k \in DOMAIN l /\ l[k] # ""
      BY <2>5, <3>1, CfFilled
    <3>4. b.value[llm] = "anthropic"
      BY <1>4, <1>5, <3>2
    <3>5. "anthropic_model" \in CfKeys
      BY <1>5 DEF CfLlmKeys
    <3>6. b.value["anthropic_model"] # ""
      BY <1>4, <3>3, <3>5
    <3> QED
      BY <1>8, <1>13, <1>14, <2>5, <3>4, <3>6 DEF CfAgree
  <2>6. CfChoice(layers, l)
    BY <1>2, CfChosen
  <2> QED
    BY <1>10, <2>1, <2>2, <2>3, <2>4, <2>5, <2>6 DEF CfChoice
<1>16. a.external /\ ~b.external
  BY DEF Candidate
<1> QED
  BY <1>9, <1>12, <1>15, <1>16

\* The adapters in use are the same, but for the one of the LLM.
LEMMA CfSameAdapters ==
    ASSUME NEW file, NEW layers, CfAdds(file, layers),
           NEW a, a = Candidate(file, TRUE), NEW b, b = Candidate(layers, FALSE)
    PROVE  /\ Selected(b) = Selected(a)
           /\ \A s \in Selected(a) : s # "llm_provider" => Resolve(b, s) = Resolve(a, s)
           /\ "llm_provider" \in Selected(a) =>
                 /\ Resolve(a, "llm_provider").config = {} /\ Resolve(b, "llm_provider").config = {}
                 /\ Resolve(a, "llm_provider").production = {}
                 /\ Resolve(b, "llm_provider").production = {}
                 /\ Resolve(b, "llm_provider").features = {}
           /\ AdapterProductionKeys(b) = AdapterProductionKeys(a)
<1>1. CfAgree(a, b) /\ CfTyped(file) /\ CfTyped(layers)
  BY CfSame DEF CfAdds
<1>2. \A s \in DOMAIN CfSelectors : s \in CfKeys /\ s \notin CfSecrets
        /\ (s # "llm_provider" => s \notin CfLlmKeys)
  BY DEF CfSelectors, CfKeys, CfPlain, CfSecrets, CfLlmKeys
<1>3. \A s \in DOMAIN CfSelectors : s # "llm_provider" => a.value[s] = b.value[s]
  BY <1>1, <1>2 DEF CfAgree
<1>4. a.value["llm_enabled"] = b.value["llm_enabled"]
  BY <1>1 DEF CfAgree, CfKeys, CfPlain, CfSecrets, CfLlmKeys
<1>5. a.value["llm_provider"] = "none" <=> b.value["llm_provider"] = "none"
  BY <1>1 DEF CfAgree, CfLlmKeys
<1>6. Selected(b) = Selected(a)
  <2>1. ASSUME NEW s \in DOMAIN CfSelectors, s \in DOMAIN CfDisabled
        PROVE  a.value[s] # CfDisabled[s] <=> b.value[s] # CfDisabled[s]
    <3>1. CASE s = "llm_provider"
      BY <1>5, <3>1 DEF CfDisabled
    <3>2. CASE s # "llm_provider"
      BY <1>3, <3>2
    <3> QED
      BY <3>1, <3>2
  <2> QED
    BY <1>4, <2>1 DEF Selected
<1>7. \A s \in Selected(a) : s \in DOMAIN CfSelectors
  BY DEF Selected
<1>8. \A s \in Selected(a) : s # "llm_provider" => Resolve(b, s) = Resolve(a, s)
  BY <1>3, <1>7 DEF Resolve
<1>9. ASSUME "llm_provider" \in Selected(a)
      PROVE  /\ Resolve(a, "llm_provider").config = {} /\ Resolve(b, "llm_provider").config = {}
             /\ Resolve(a, "llm_provider").production = {}
             /\ Resolve(b, "llm_provider").production = {}
             /\ Resolve(b, "llm_provider").features = {}
  <2>1. a.value["llm_provider"] \in CfProviders
    BY <1>1, <1>9, CfResolves, Zenon
  <2>2. b.value["llm_provider"] \in CfProviders
    BY <1>1, <1>6, <1>9, CfResolves, Zenon
  <2> QED
    BY <2>1, <2>2, CfLlmAsks DEF Resolve
<1>10. \A s \in Selected(a) : /\ Resolve(b, s).config = Resolve(a, s).config
                              /\ Resolve(b, s).production = Resolve(a, s).production
  <2> SUFFICES ASSUME NEW s \in Selected(a)
               PROVE  /\ Resolve(b, s).config = Resolve(a, s).config
                      /\ Resolve(b, s).production = Resolve(a, s).production
    OBVIOUS
  <2>1. CASE s = "llm_provider"
    BY <1>9, <2>1
  <2>2. CASE s # "llm_provider"
    BY <1>8, <2>2
  <2> QED
    BY <2>1, <2>2
<1>11. AdapterProductionKeys(b) = AdapterProductionKeys(a)
  <2>1. PICK ra : ra = UNION {Resolve(a, s).config : s \in Selected(a) \ CfSubordinate}
    OBVIOUS
  <2>2. ra = UNION {Resolve(b, s).config : s \in Selected(b) \ CfSubordinate}
    BY <1>6, <1>10, <2>1
  <2>3. PICK in : in = {s \in Selected(a) : s \in CfSubordinate => s \in ra}
    OBVIOUS
  <2>4. in = {s \in Selected(b) : s \in CfSubordinate => s \in ra}
    BY <1>6, <2>3
  <2>5. AdapterProductionKeys(a) = UNION {Resolve(a, s).production : s \in in}
    BY <2>1, <2>3, Zenon DEF AdapterProductionKeys
  <2>6. AdapterProductionKeys(b) = UNION {Resolve(b, s).production : s \in in}
    BY <2>2, <2>4, Zenon DEF AdapterProductionKeys
  <2>7. \A s \in in : Resolve(b, s).production = Resolve(a, s).production
    BY <1>10, <2>3
  <2>8. \A x : (\E s \in in : x \in Resolve(b, s).production)
                <=> (\E s \in in : x \in Resolve(a, s).production)
    BY <2>7
  <2>9. AdapterProductionKeys(b) \subseteq AdapterProductionKeys(a)
    BY <2>5, <2>6, <2>8
  <2>10. AdapterProductionKeys(a) \subseteq AdapterProductionKeys(b)
    BY <2>5, <2>6, <2>8
  <2> QED
    BY <2>9, <2>10
<1> QED
  BY <1>6, <1>8, <1>9, <1>11

\* The rules that read one or two plain keys.
LEMMA CfPlainRules ==
    ASSUME NEW file, NEW layers, CfAdds(file, layers),
           NEW a, a = Candidate(file, TRUE), NEW b, b = Candidate(layers, FALSE), Valid(a)
    PROVE  /\ DataLimitsConsistent(b) /\ PolicyFilesLoaded(b) /\ LlmSwitchConsistent(b)
           /\ JobTimingsConsistent(b) /\ TracingComplete(b) /\ SandboxImagePinned(b)
           /\ DeliveryFitsDeployment(b) /\ ApiKeysWellFormed(b) /\ DriftMappersValid(b)
<1>1. CfAgree(a, b)
  BY CfSame
<1>2. {"limits", "api_keys", "drift_mappers", "delivery_policy_file", "llm_enabled", "sandbox_backend",
       "sandbox_docker_image", "delivery_strategy", "deployment_backend"}
        \subseteq CfKeys \ (CfLlmKeys \cup CfSecrets)
  BY DEF CfKeys, CfPlain, CfSecrets, CfLlmKeys
<1>3. /\ a.value["limits"] = b.value["limits"]
      /\ a.value["api_keys"] = b.value["api_keys"]
      /\ a.value["drift_mappers"] = b.value["drift_mappers"]
      /\ a.value["delivery_policy_file"] = b.value["delivery_policy_file"]
      /\ a.value["llm_enabled"] = b.value["llm_enabled"]
      /\ "llm_enabled" \in a.set <=> "llm_enabled" \in b.set
      /\ a.value["sandbox_backend"] = b.value["sandbox_backend"]
      /\ a.value["sandbox_docker_image"] = b.value["sandbox_docker_image"]
      /\ a.value["delivery_strategy"] = b.value["delivery_strategy"]
      /\ a.value["deployment_backend"] = b.value["deployment_backend"]
  BY <1>1, <1>2 DEF CfAgree
<1>4. a.value["llm_provider"] = "none" <=> b.value["llm_provider"] = "none"
  BY <1>1 DEF CfAgree, CfLlmKeys
<1>5. DataLimitsConsistent(b) /\ JobTimingsConsistent(b) /\ TracingComplete(b)
  BY <1>3 DEF Valid, DataLimitsConsistent, JobTimingsConsistent, TracingComplete
<1>6. PolicyFilesLoaded(b)
  BY <1>3 DEF Valid, PolicyFilesLoaded, LoadPolicyFile
<1>7. LlmSwitchConsistent(b)
  BY <1>3, <1>4 DEF Valid, LlmSwitchConsistent, CfDisabled
<1>8. SandboxImagePinned(b)
  BY <1>3 DEF Valid, SandboxImagePinned
<1>9. DeliveryFitsDeployment(b)
  BY <1>3 DEF Valid, DeliveryFitsDeployment, NeedsTrafficSplit, Resolve
<1>10. ApiKeysWellFormed(b) /\ DriftMappersValid(b)
  BY <1>3 DEF Valid, ApiKeysWellFormed, DriftMappersValid
<1> QED
  BY <1>5, <1>6, <1>7, <1>8, <1>9, <1>10

\* Every secret an adapter other than the LLM's needs is there.
CfSecretsGiven(b, keys) ==
    \A s \in Selected(b) \ {"llm_provider"} :
       CfSecrets \cap (Resolve(b, s).required \cup Resolve(b, s).production) \subseteq keys

LEMMA CfStarts ==
    ASSUME NEW file, NEW layers, CfAdds(file, layers),
           NEW a, a = Candidate(file, TRUE), NEW b, b = Candidate(layers, FALSE), Valid(a),
           SigningKeysValid(b), CfSecretsGiven(b, DOMAIN layers)
    PROVE  Valid(b)
<1>1. /\ CfAgree(a, b) /\ a.external /\ ~b.external
      /\ a.set \cap CfSecrets = {} /\ CfSecretsSet(layers, b)
  BY CfSame
<1>2. /\ Selected(b) = Selected(a)
      /\ \A s \in Selected(a) : s # "llm_provider" => Resolve(b, s) = Resolve(a, s)
      /\ "llm_provider" \in Selected(a) =>
            /\ Resolve(b, "llm_provider").production = {}
            /\ Resolve(b, "llm_provider").features = {}
      /\ AdapterProductionKeys(b) = AdapterProductionKeys(a)
  <2>1. Selected(b) = Selected(a) /\ AdapterProductionKeys(b) = AdapterProductionKeys(a)
    BY CfSameAdapters
  <2>2. \A s \in Selected(a) : s # "llm_provider" => Resolve(b, s) = Resolve(a, s)
    <3> SUFFICES ASSUME NEW s \in Selected(a), s # "llm_provider"
                 PROVE  Resolve(b, s) = Resolve(a, s)
      OBVIOUS
    <3>1. s \in DOMAIN CfSelectors
      BY DEF Selected
    <3>2. s \in CfKeys \ (CfLlmKeys \cup CfSecrets)
      BY <3>1 DEF CfSelectors, CfKeys, CfPlain, CfSecrets, CfLlmKeys
    <3>3. a.value[s] = b.value[s]
      BY <1>1, <3>2 DEF CfAgree
    <3> QED
      BY <3>3 DEF Resolve
  <2>3. ASSUME "llm_provider" \in Selected(a)
        PROVE  /\ Resolve(b, "llm_provider").production = {}
               /\ Resolve(b, "llm_provider").features = {}
    BY <2>3, CfSameAdapters
  <2> QED
    BY <2>1, <2>2, <2>3
<1>3. CfTyped(file) /\ CfTyped(layers)
  BY DEF CfAdds
<1>4. \A s \in Selected(b) : s # "llm_provider" =>
         Resolve(b, s).required \cup Resolve(b, s).production \subseteq CfKeys \ CfLlmKeys
  <2> SUFFICES ASSUME NEW s \in Selected(b), s # "llm_provider"
               PROVE  Resolve(b, s).required \cup Resolve(b, s).production
                        \subseteq CfKeys \ CfLlmKeys
    OBVIOUS
  <2>1. CfSelectors[s][b.value[s]] \in CfOthers
    BY <1>3, CfResolves, Zenon
  <2> QED
    BY <2>1, CfOthersAsk DEF Resolve
<1>5. ASSUME NEW k \in CfProductionRequired \cup AdapterProductionKeys(b), k \in a.set \/ k \in CfSecrets
      PROVE  k \in b.set
  <2>1. CASE k \in CfSecrets
    <3>1. k \notin CfProductionRequired
      BY <2>1 DEF CfProductionRequired, CfSecrets
    <3>2. PICK s \in Selected(b) : k \in Resolve(b, s).production
      BY <1>5, <3>1 DEF AdapterProductionKeys
    <3>3. s # "llm_provider"
      BY <1>2, <3>2
    <3>4. k \in DOMAIN layers
      BY <2>1, <3>2, <3>3 DEF CfSecretsGiven
    <3> QED
      BY <1>1, <2>1, <3>4 DEF CfSecretsSet
  <2>2. CASE k \notin CfSecrets /\ k \in a.set
    <3>1. CASE k \in CfLlmKeys
      BY <1>1, <2>2, <3>1 DEF CfAgree
    <3>2. CASE k \notin CfLlmKeys
      <4>1. k \in CfKeys
        <5>1. CASE k \in CfProductionRequired
          BY <5>1 DEF CfProductionRequired, CfKeys, CfPlain
        <5>2. CASE k \notin CfProductionRequired
          <6>1. PICK s \in Selected(b) : k \in Resolve(b, s).production
            BY <1>5, <5>2 DEF AdapterProductionKeys
          <6>2. s # "llm_provider"
            BY <1>2, <6>1
          <6> QED
            BY <1>4, <6>1, <6>2
        <5> QED
          BY <5>1, <5>2
      <4> QED
        BY <1>1, <2>2, <3>2, <4>1 DEF CfAgree
    <3> QED
      BY <3>1, <3>2
  <2> QED
    BY <1>5, <2>1, <2>2
<1>6. a.value["environment"] = b.value["environment"]
  BY <1>1 DEF CfAgree, CfKeys, CfPlain, CfSecrets, CfLlmKeys
<1>7. ProductionExplicit(b)
  <2> SUFFICES ASSUME b.value["environment"] = "production"
               PROVE  /\ \A s \in Selected(b) : "development_only" \notin Resolve(b, s).features
                      /\ \A k \in CfProductionRequired \cup AdapterProductionKeys(b) : k \in b.set
    BY <1>1 DEF ProductionExplicit
  <2>1. /\ \A s \in Selected(a) : "development_only" \notin Resolve(a, s).features
        /\ \A k \in CfProductionRequired \cup AdapterProductionKeys(a) :
              k \in a.set \/ k \in CfSecrets
    BY <1>6 DEF Valid, ProductionExplicit
  <2>2. \A s \in Selected(b) : "development_only" \notin Resolve(b, s).features
    BY <1>2, <2>1
  <2> QED
    BY <1>2, <1>5, <2>1, <2>2
<1>8. AdapterKeysPresent(b)
  <2> SUFFICES ASSUME NEW s \in Selected(b), NEW k \in Resolve(b, s).required,
                      ~(s = "llm_provider" /\ k \in CfSecrets)
               PROVE  b.value[k] # ""
    BY DEF AdapterKeysPresent
  <2>1. CASE k \in CfSecrets
    <3>1. k \in DOMAIN layers
      BY <2>1 DEF CfSecretsGiven
    <3> QED
      BY <1>1, <2>1, <3>1 DEF CfSecretsSet
  <2>2. CASE k \notin CfSecrets /\ s # "llm_provider"
    <3>1. k \in Resolve(a, s).required /\ s \in Selected(a)
      BY <1>2, <2>2
    <3>2. a.value[k] # ""
      BY <2>2, <3>1 DEF Valid, AdapterKeysPresent
    <3>3. k \in CfKeys \ CfLlmKeys
      BY <1>4, <2>2
    <3> QED
      BY <1>1, <2>2, <3>2, <3>3 DEF CfAgree
  <2>3. CASE k \notin CfSecrets /\ s = "llm_provider"
    <3>1. PICK v : v = b.value["llm_provider"]
      OBVIOUS
    <3>2. v \in CfProviders
      BY <1>3, <2>3, <3>1, CfResolves, Zenon
    <3>3. PICK r : r = CfAdapters[CfSelectors["llm_provider"][v]]
      OBVIOUS
    <3>4. k \in r.required
      BY <2>3, <3>1, <3>3 DEF Resolve
    <3>5. /\ v = "gemini" => r.required = {"gemini_api_key", "gemini_model"}
          /\ v = "openai-compatible" => r.required = {"llm_openai_base_url", "llm_openai_model"}
          /\ v = "anthropic" => r.required = {"anthropic_api_key", "anthropic_model"}
      BY <3>2, <3>3, CfLlmAsks
    <3>6. k # "gemini_api_key" /\ k # "anthropic_api_key"
      BY <2>3 DEF CfSecrets
    <3>7. CASE a.value["llm_provider"] = v
      <4>1. k \in Resolve(a, s).required /\ s \in Selected(a)
        BY <1>2, <2>3, <3>3, <3>4, <3>7 DEF Resolve
      <4>2. a.value[k] # ""
        BY <2>3, <4>1 DEF Valid, AdapterKeysPresent
      <4>3. CASE k = "gemini_model"
        <5>1. k \in CfKeys \ (CfLlmKeys \cup CfSecrets)
          BY <4>3 DEF CfKeys, CfPlain, CfLlmKeys, CfSecrets
        <5>2. a.value[k] = b.value[k]
          BY <1>1, <5>1 DEF CfAgree
        <5> QED
          BY <4>2, <5>2
      <4>4. CASE k # "gemini_model"
        <5>1. v # "gemini"
          BY <3>4, <3>5, <3>6, <4>4
        <5>2. k \in CfLlmKeys
          BY <3>2, <3>4, <3>5, <3>6, <5>1 DEF CfLlmKeys, CfProviders
        <5>3. a.value["llm_provider"] # "gemini"
          BY <3>7, <5>1
        <5>4. b.value[k] = a.value[k]
          BY <1>1, <5>2, <5>3 DEF CfAgree
        <5> QED
          BY <4>2, <5>4
      <4> QED
        BY <4>3, <4>4
    <3>8. CASE a.value["llm_provider"] # v
      <4>1. ~ \A x \in CfLlmKeys : b.value[x] = a.value[x]
        BY <3>1, <3>8 DEF CfLlmKeys
      <4>2. \/ /\ v = "openai-compatible"
               /\ b.value["llm_openai_base_url"] # "" /\ b.value["llm_openai_model"] # ""
            \/ v = "anthropic" /\ b.value["anthropic_model"] # ""
        BY <1>1, <3>1, <4>1 DEF CfAgree
      <4>3. CASE /\ v = "openai-compatible"
                 /\ b.value["llm_openai_base_url"] # "" /\ b.value["llm_openai_model"] # ""
        <5>1. k = "llm_openai_base_url" \/ k = "llm_openai_model"
          BY <3>4, <3>5, <4>3
        <5> QED
          BY <4>3, <5>1
      <4>4. CASE v = "anthropic" /\ b.value["anthropic_model"] # ""
        <5>1. k = "anthropic_model"
          BY <3>4, <3>5, <3>6, <4>4
        <5> QED
          BY <4>4, <5>1
      <4> QED
        BY <4>2, <4>3, <4>4
    <3> QED
      BY <3>7, <3>8
  <2> QED
    BY <2>1, <2>2, <2>3
<1> QED
  BY <1>7, <1>8, CfPlainRules DEF Valid

\* One layer on top of another is typed when they are.
LEMMA CfOverTyped ==
    ASSUME NEW f, NEW g, CfTyped(f), CfTyped(g)
    PROVE  CfTyped(Over(f, g))
<1>1. PICK over : over = Over(f, g)
  OBVIOUS
<1>2. /\ DOMAIN over = DOMAIN f \cup DOMAIN g
      /\ \A k \in DOMAIN f : over[k] = f[k]
      /\ \A k \in DOMAIN g \ DOMAIN f : over[k] = g[k]
  BY <1>1 DEF Over
<1>3. CfTyped(over)
  BY <1>2 DEF CfTyped
<1> QED
  BY <1>1, <1>3

\* Secrets set in the environment or found in the store are added to the file.
LEMMA CfLayersAdd ==
    ASSUME CfTyped(cfFile), CfTyped(cfEnv), CfTyped(cfVault), DOMAIN cfVault \subseteq CfSecrets,
           DOMAIN cfFile \cap CfSecrets = {}, DOMAIN cfEnv \subseteq CfSecrets
    PROVE  CfAdds(cfFile, Layers)
<1>1. PICK store : store = SecretsLayer
  OBVIOUS
<1>2. DOMAIN store \subseteq CfSecrets /\ CfTyped(store)
  <2>1. CASE SecretsBackend = "env"
    <3>1. store = << >>
      BY <1>1, <2>1 DEF SecretsLayer
    <3> QED
      BY <3>1 DEF CfTyped
  <2>2. CASE SecretsBackend # "env"
    <3>1. store = [k \in DOMAIN cfVault \ DOMAIN cfEnv |-> cfVault[k]]
      BY <1>1, <2>2 DEF SecretsLayer
    <3> QED
      BY <3>1 DEF CfTyped
  <2> QED
    BY <2>1, <2>2
<1>3. PICK upper : upper = Over(cfEnv, store)
  OBVIOUS
<1>4. CfTyped(upper)
  BY <1>2, <1>3, CfOverTyped
<1>5. DOMAIN upper \subseteq CfSecrets
  BY <1>2, <1>3 DEF Over
<1>6. PICK layers : layers = Over(upper, cfFile)
  OBVIOUS
<1>7. layers = Layers
  BY <1>1, <1>3, <1>6 DEF Layers
<1>8. CfTyped(layers)
  BY <1>4, <1>6, CfOverTyped
<1>9. /\ DOMAIN layers = DOMAIN upper \cup DOMAIN cfFile
      /\ \A k \in DOMAIN cfFile \ DOMAIN upper : layers[k] = cfFile[k]
  BY <1>6 DEF Over
<1>10. \A k \in DOMAIN cfFile : k \notin DOMAIN upper
  BY <1>5
<1>11. CfAdds(cfFile, layers)
  BY <1>5, <1>8, <1>9, <1>10 DEF CfAdds
<1> QED
  BY <1>7, <1>11

\* What the lint and the start said, of the layers they saw.
CfInv ==
    /\ CfTyped(cfFile) /\ CfTyped(cfEnv)
    /\ CfTyped(cfVault) /\ DOMAIN cfVault \subseteq CfSecrets
    /\ cfLint = "clean" => ReadConfigFile /\ Valid(Candidate(cfFile, TRUE))
    /\ cfProcess.state = "refused" =>
          ~(ReadConfigFile /\ SecretsReachable /\ Valid(LoadSettings))

LEMMA CfGrows ==
    ASSUME NEW data, CfTyped(data), NEW k \in CfKeys, NEW v \in CfValues(k)
    PROVE  CfTyped(Over([x \in {k} |-> v], data))
<1>1. PICK one : one = [x \in {k} |-> v]
  OBVIOUS
<1>2. CfTyped(one)
  BY <1>1 DEF CfTyped
<1>3. CfTyped(Over(one, data))
  BY <1>2, CfOverTyped
<1> QED
  BY <1>1, <1>3

LEMMA CfPlainTyped ==
    ASSUME NEW data, DOMAIN data \cap CfSecrets = {}, DOMAIN data \subseteq DOMAIN CfPlain,
           \A k \in DOMAIN data : data[k] \in CfPlain[k]
    PROVE  CfTyped(data)
<1>1. \A k \in DOMAIN data : k \in CfKeys /\ CfValues(k) = CfPlain[k]
  BY CfValuesOf DEF CfKeys
<1> QED
  BY <1>1 DEF CfTyped

LEMMA CfInitInv == CfInit => CfInv
<1> SUFFICES ASSUME CfInit PROVE CfInv
  OBVIOUS
<1>1. CfTyped(cfFile)
  <2>1. CASE cfFile = << >>
    BY <2>1 DEF CfTyped
  <2>2. CASE cfFile = [environment |-> "production", database_url |-> "set",
                       artifact_workdir |-> "set", mlflow_tracking_uri |-> "set"]
    <3>1. DOMAIN cfFile = {"environment", "database_url", "artifact_workdir", "mlflow_tracking_uri"}
      BY <2>2
    <3>2. DOMAIN cfFile \subseteq DOMAIN CfPlain /\ DOMAIN cfFile \cap CfSecrets = {}
      BY <3>1 DEF CfPlain, CfSecrets
    <3>3. \A k \in DOMAIN cfFile : cfFile[k] \in CfPlain[k]
      BY <2>2, <3>1 DEF CfPlain
    <3> QED
      BY <3>2, <3>3, CfPlainTyped
  <2>3. CASE cfFile = [secrets_backend |-> "vault", secrets_vault_url |-> "set",
                       secrets_vault_token_file |-> "set"]
    <3>1. DOMAIN cfFile = {"secrets_backend", "secrets_vault_url", "secrets_vault_token_file"}
      BY <2>3
    <3>2. DOMAIN cfFile \subseteq DOMAIN CfPlain /\ DOMAIN cfFile \cap CfSecrets = {}
      BY <3>1 DEF CfPlain, CfSecrets
    <3>3. \A k \in DOMAIN cfFile : cfFile[k] \in CfPlain[k]
      BY <2>3, <3>1 DEF CfPlain
    <3> QED
      BY <3>2, <3>3, CfPlainTyped
  <2>4. CASE cfFile = [deployment_backend |-> "kubernetes", k8s_api_url |-> "set"]
    <3>1. DOMAIN cfFile = {"deployment_backend", "k8s_api_url"}
      BY <2>4
    <3>2. DOMAIN cfFile \subseteq DOMAIN CfPlain /\ DOMAIN cfFile \cap CfSecrets = {}
      BY <3>1 DEF CfPlain, CfSecrets
    <3>3. \A k \in DOMAIN cfFile : cfFile[k] \in CfPlain[k]
      BY <2>4, <3>1 DEF CfPlain
    <3> QED
      BY <3>2, <3>3, CfPlainTyped
  <2> QED
    BY <2>1, <2>2, <2>3, <2>4 DEF CfInit, CfFirstFiles
<1>2. CfTyped(cfEnv) /\ CfTyped(cfVault) /\ DOMAIN cfVault = {}
  BY DEF CfInit, CfTyped
<1>3. cfProcess.state = "none" /\ cfLint = "unknown"
  BY DEF CfInit, CfNotUp
<1> QED
  BY <1>1, <1>2, <1>3 DEF CfInv

\* What a store is filled with is typed.
LEMMA CfStoresTyped ==
    \A store \in CfStores : CfTyped(store) /\ DOMAIN store \subseteq CfSecrets
<1> SUFFICES ASSUME NEW store \in CfStores
             PROVE  CfTyped(store) /\ DOMAIN store \subseteq CfSecrets
  OBVIOUS
<1>1. \A k \in CfSecrets : k # "notification_signing_keys" => CfValues(k) = {"set"}
  BY DEF CfValues
<1>2. CfValues("notification_signing_keys") = CfSigningKeys
  BY DEF CfValues
<1>3. ASSUME NEW keys \in CfSigningKeys,
             store = [k \in CfSecrets |-> IF k = "notification_signing_keys" THEN keys ELSE "set"]
      PROVE  CfTyped(store) /\ DOMAIN store \subseteq CfSecrets
  <2>1. \A k \in DOMAIN store : k \in CfKeys /\ store[k] \in CfValues(k)
    BY <1>1, <1>2, <1>3 DEF CfKeys
  <2> QED
    BY <1>3, <2>1 DEF CfTyped
<1>4. ASSUME NEW key \in {"openai_api_key", "anthropic_api_key"}, store = [k \in {key} |-> "set"]
      PROVE  CfTyped(store) /\ DOMAIN store \subseteq CfSecrets
  <2>1. key \in CfSecrets /\ key # "notification_signing_keys"
    BY DEF CfSecrets
  <2>2. \A k \in DOMAIN store : k \in CfKeys /\ store[k] \in CfValues(k)
    BY <1>1, <1>4, <2>1 DEF CfKeys
  <2> QED
    BY <1>4, <2>1, <2>2 DEF CfTyped
<1> QED
  BY <1>3, <1>4 DEF CfStores

LEMMA CfNextInv == CfInv /\ [CfNext]_cfVars => CfInv'
<1> SUFFICES ASSUME CfInv, [CfNext]_cfVars PROVE CfInv'
  OBVIOUS
<1> USE DEF CfInv
<1>1. ASSUME NEW k \in CfKeys, CfEditFile(k) PROVE CfInv'
  <2>1. PICK v \in CfValues(k) :
           cfFile' = Over([x \in {k} |-> v], cfFile)
    BY <1>1 DEF CfEditFile
  <2>2. CfTyped(cfFile')
    BY <2>1, CfGrows
  <2>3. /\ cfEnv' = cfEnv /\ cfVault' = cfVault
        /\ cfLint' = "unknown" /\ cfProcess' = cfProcess /\ cfProcess.state = "none"
    BY <1>1 DEF CfEditFile
  <2>4. CfTyped(cfEnv')
    BY <2>3
  <2> QED
    BY <2>2, <2>3, <2>4 DEF CfTyped
<1>2. ASSUME NEW k \in CfKeys, CfSetEnv(k) PROVE CfInv'
  <2>1. PICK v \in CfValues(k) :
           cfEnv' = Over([x \in {k} |-> v], cfEnv)
    BY <1>2 DEF CfSetEnv
  <2>2. CfTyped(cfEnv')
    BY <2>1, CfGrows
  <2>3. /\ cfFile' = cfFile /\ cfVault' = cfVault
        /\ cfLint' = cfLint /\ cfProcess' = cfProcess /\ cfProcess.state = "none"
    BY <1>2 DEF CfSetEnv
  <2>4. CfTyped(cfFile')
    BY <2>3
  <2>5. cfLint' = "clean" => ReadConfigFile' /\ Valid(Candidate(cfFile, TRUE))'
    BY <2>3 DEF ReadConfigFile
  <2> QED
    BY <2>2, <2>3, <2>4, <2>5 DEF CfTyped
<1>3. ASSUME CfLintFile PROVE CfInv'
  <2>1. /\ cfFile' = cfFile /\ cfEnv' = cfEnv /\ cfVault' = cfVault
        /\ cfProcess' = cfProcess /\ cfProcess.state = "none"
    BY <1>3 DEF CfLintFile
  <2>2. cfLint' = "clean" => ReadConfigFile /\ Valid(Candidate(cfFile, TRUE))
    BY <1>3 DEF CfLintFile
  <2>3. cfLint' = "clean" => ReadConfigFile' /\ Valid(Candidate(cfFile, TRUE))'
    BY <2>1, <2>2 DEF ReadConfigFile
  <2>4. CfTyped(cfFile') /\ CfTyped(cfEnv')
    BY <2>1
  <2> QED
    BY <2>1, <2>3, <2>4 DEF CfTyped
<1>4. ASSUME CfFillStore PROVE CfInv'
  <2>1. /\ cfFile' = cfFile /\ cfEnv' = cfEnv /\ cfLint' = cfLint
        /\ cfProcess' = cfProcess /\ cfProcess.state = "none"
    BY <1>4 DEF CfFillStore
  <2>2. CfTyped(cfVault') /\ DOMAIN cfVault' \subseteq CfSecrets
    BY <1>4, CfStoresTyped DEF CfFillStore
  <2>3. cfLint' = "clean" => ReadConfigFile' /\ Valid(Candidate(cfFile, TRUE))'
    BY <2>1 DEF ReadConfigFile
  <2>4. CfTyped(cfFile') /\ CfTyped(cfEnv')
    BY <2>1
  <2>5. CfSecrets' = CfSecrets
    BY DEF CfSecrets
  <2> QED
    BY <2>1, <2>2, <2>3, <2>4, <2>5 DEF CfTyped
<1>5. ASSUME CfStart PROVE CfInv'
  <2>1. /\ cfFile' = cfFile /\ cfEnv' = cfEnv /\ cfVault' = cfVault /\ cfDown' = cfDown
        /\ cfLint' = cfLint
    BY <1>5 DEF CfStart
  <2>2. cfProcess'.state = "refused" =>
           ~(ReadConfigFile /\ SecretsReachable /\ Valid(LoadSettings))
    BY <1>5 DEF CfStart, BuildContainer, CfNotUp
  <2>3. cfLint' = "clean" => ReadConfigFile' /\ Valid(Candidate(cfFile, TRUE))'
    BY <2>1 DEF ReadConfigFile
  <2>4. CfTyped(cfFile') /\ CfTyped(cfEnv')
    BY <2>1
  <2>5. ReadConfigFile' = ReadConfigFile /\ SecretsReachable' = SecretsReachable
    BY <2>1 DEF ReadConfigFile, SecretsReachable, SecretsBackend, FileSecretsOpen,
                VaultSecretsRead, CfKnown
  <2>6. LoadSettings' = LoadSettings
    BY <2>1 DEF LoadSettings, Layers, SecretsLayer, SecretsBackend
  <2>7. Valid(LoadSettings)' = Valid(LoadSettings)
    BY <2>6
  <2> QED
    BY <2>1, <2>2, <2>3, <2>4, <2>5, <2>7 DEF CfTyped
<1>6. ASSUME UNCHANGED cfVars PROVE CfInv'
  <2>1. /\ cfFile' = cfFile /\ cfEnv' = cfEnv /\ cfVault' = cfVault /\ cfDown' = cfDown
        /\ cfLint' = cfLint /\ cfProcess' = cfProcess
    BY <1>6 DEF cfVars
  <2>2. cfLint' = "clean" => ReadConfigFile' /\ Valid(Candidate(cfFile, TRUE))'
    BY <2>1 DEF ReadConfigFile
  <2>3. CfTyped(cfFile') /\ CfTyped(cfEnv')
    BY <2>1
  <2>4. ReadConfigFile' = ReadConfigFile /\ SecretsReachable' = SecretsReachable
    BY <2>1 DEF ReadConfigFile, SecretsReachable, SecretsBackend, FileSecretsOpen,
                VaultSecretsRead, CfKnown
  <2>5. LoadSettings' = LoadSettings
    BY <2>1 DEF LoadSettings, Layers, SecretsLayer, SecretsBackend
  <2>6. Valid(LoadSettings)' = Valid(LoadSettings)
    BY <2>5
  <2> QED
    BY <2>1, <2>2, <2>3, <2>4, <2>6 DEF CfTyped
<1> QED
  BY <1>1, <1>2, <1>3, <1>4, <1>5, <1>6 DEF CfNext

LEMMA CfInvLint == CfInv => CfLintHolds
<1> SUFFICES ASSUME CfInv, cfLint = "clean", cfProcess.state = "refused",
                    DOMAIN cfEnv \subseteq CfSecrets, SecretsReachable,
                    SigningKeysValid(LoadSettings),
                    \A s \in Selected(LoadSettings) \ {"llm_provider"} :
                       \A k \in CfSecrets \cap (Resolve(LoadSettings, s).required
                                                 \cup Resolve(LoadSettings, s).production) :
                          k \in DOMAIN Layers
             PROVE  FALSE
  BY DEF CfLintHolds
<1>1. ReadConfigFile /\ Valid(Candidate(cfFile, TRUE)) /\ ~Valid(LoadSettings)
  BY DEF CfInv
<1>2. CfAdds(cfFile, Layers)
  BY <1>1, CfLayersAdd DEF CfInv, ReadConfigFile
<1>3. PICK layers : layers = Layers
  OBVIOUS
<1>4. PICK a : a = Candidate(cfFile, TRUE)
  OBVIOUS
<1>5. PICK b : b = Candidate(layers, FALSE)
  OBVIOUS
<1>6. b = LoadSettings
  BY <1>3, <1>5 DEF LoadSettings
<1>7. CfSecretsGiven(b, DOMAIN layers)
  BY <1>3, <1>6 DEF CfSecretsGiven
<1>8. SigningKeysValid(b)
  BY <1>6
<1>9. Valid(b)
  BY <1>1, <1>2, <1>3, <1>4, <1>5, <1>7, <1>8, CfStarts
<1> QED
  BY <1>1, <1>6, <1>9

\* A file that lints clean starts wherever only secrets are added to it
\* (lint_config_file, load_settings): whatever the file and the store hold.
THEOREM CfLintAlwaysHolds == CfSpec => []CfLintHolds
<1>1. CfSpec => []CfInv
  BY CfInitInv, CfNextInv, PTL DEF CfSpec
<1> QED
  BY <1>1, CfInvLint, PTL
=============================================================================
