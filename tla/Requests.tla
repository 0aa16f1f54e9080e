------------------------------ MODULE Requests ------------------------------
(***************************************************************************)
(* One HTTP request through the API's middleware stack (api/app.py):       *)
(* SecurityHeaders outermost, then RequestContext, then BodySizeLimit, and *)
(* inside them the FastAPI application, which is external: it reads the    *)
(* body chunk by chunk, then answers with a start and a body message, or   *)
(* raises, or returns without an answer once the client has gone.          *)
(***************************************************************************)
EXTENDS Naturals, Sequences

CONSTANTS RqMaxBytes,   \* API_MAX_REQUEST_BYTES
          RqMaxChunks   \* chunks a client sends

ASSUME RqBounds == RqMaxBytes \in Nat /\ RqMaxChunks \in Nat

VARIABLES rqState,     \* "new", "app" (inside the application), "returned", "closed"
          rqBody,      \* sizes of the chunks the client still has to send
          rqSeen,      \* the byte count, too_large and refused of the limiter
          rqGiven,     \* bytes handed to the application
          rqEnd,       \* the application has seen the end of the body
          rqAnswering, \* messages of its answer the application still sends
          rqWire,      \* statuses of the response starts put on the wire
          rqRecorded   \* the status the metrics recorded, 0 before

rqVars == <<rqState, rqBody, rqSeen, rqGiven, rqEnd, rqAnswering, rqWire, rqRecorded>>

(* Error codes of the application and the status each becomes.             *)
RqStatusFor ==
  [UNAUTHENTICATED |-> 401, FORBIDDEN |-> 403, RATE_LIMITED |-> 429, MODEL_NOT_FOUND |-> 404,
   CONFLICT |-> 409, INVALID_REQUEST |-> 422, DATABASE_UNAVAILABLE |-> 503, JOB_TIMEOUT |-> 504]

(* What a handler answers: its own status or the one of the error raised.  *)
RqStatuses == {200, 202} \cup {RqStatusFor[c] : c \in DOMAIN RqStatusFor}

RqQuiet == [bytes |-> 0, tooLarge |-> FALSE, refused |-> FALSE]

RqInit ==
  /\ rqState = "new" /\ rqBody = << >> /\ rqSeen = RqQuiet /\ rqGiven = 0 /\ rqEnd = FALSE
  /\ rqAnswering = << >> /\ rqWire = << >> /\ rqRecorded = 0

(* The limiter's own answer.                                               *)
RqRefuse == rqWire' = Append(rqWire, 413)

(* A request whose declared length is no number or too large never reaches *)
(* the application.                                                        *)
RqArriveDeclared ==
  /\ rqState = "new" /\ RqRefuse /\ rqState' = "closed" /\ rqRecorded' = 413
  /\ UNCHANGED <<rqBody, rqSeen, rqGiven, rqEnd, rqAnswering>>

RqArrive(chunks) ==
  /\ rqState = "new" /\ rqState' = "app" /\ rqBody' = chunks
  /\ UNCHANGED <<rqSeen, rqGiven, rqEnd, rqAnswering, rqWire, rqRecorded>>

(* _receive: the application asks for the next chunk.  Past the limit it   *)
(* is handed an empty end of body and nothing more is read.                *)
RqReceive ==
  /\ rqState = "app" /\ ~ rqEnd /\ rqAnswering = << >>
  /\ LET bytes == rqSeen.bytes + (IF rqBody = << >> THEN 0 ELSE Head(rqBody))
         over == bytes > RqMaxBytes
     IN  /\ rqSeen' = [rqSeen EXCEPT !.bytes = bytes, !.tooLarge = over]
         /\ rqBody' = IF rqBody = << >> THEN << >> ELSE Tail(rqBody)
         /\ rqGiven' = IF over THEN rqGiven ELSE bytes
         /\ rqEnd' = (over \/ Len(rqBody) <= 1)
  /\ UNCHANGED <<rqState, rqAnswering, rqWire, rqRecorded>>

(* The application decides its answer: after the body, or before reading   *)
(* all of it when a dependency refuses the caller.                         *)
RqHandle(status) ==
  /\ rqState = "app" /\ rqAnswering = << >> /\ rqWire = << >>
  /\ rqEnd \/ status \in {401, 403, 429}
  /\ rqAnswering' = <<status, 0>>     \* the start, then the body message
  /\ UNCHANGED <<rqState, rqBody, rqSeen, rqGiven, rqEnd, rqWire, rqRecorded>>

(* Mutant: every message of an oversized request's answer is replaced.     *)
RqSendRepeats ==
  /\ rqState = "app" /\ rqAnswering # << >>
  /\ rqAnswering' = Tail(rqAnswering)
  /\ IF ~ rqSeen.tooLarge
     THEN /\ rqWire' = IF Head(rqAnswering) = 0 THEN rqWire ELSE Append(rqWire, Head(rqAnswering))
          /\ UNCHANGED rqSeen
     ELSE RqRefuse /\ rqSeen' = [rqSeen EXCEPT !.refused = TRUE]
  /\ rqState' = IF Len(rqAnswering) = 1 THEN "returned" ELSE "app"
  /\ UNCHANGED <<rqBody, rqGiven, rqEnd, rqRecorded>>

(* _send: what the application answers to an oversized body is replaced,   *)
(* once, by the 413.                                                       *)
RqSend ==
  /\ rqState = "app" /\ rqAnswering # << >>
  /\ rqAnswering' = Tail(rqAnswering)
  /\ \/ /\ ~ rqSeen.tooLarge
        /\ rqWire' = IF Head(rqAnswering) = 0 THEN rqWire ELSE Append(rqWire, Head(rqAnswering))
        /\ UNCHANGED rqSeen
     \/ /\ rqSeen.tooLarge /\ ~ rqSeen.refused
        /\ RqRefuse /\ rqSeen' = [rqSeen EXCEPT !.refused = TRUE]
     \/ /\ rqSeen.tooLarge /\ rqSeen.refused
        /\ UNCHANGED <<rqWire, rqSeen>>
  /\ rqState' = IF Len(rqAnswering) = 1 THEN "returned" ELSE "app"
  /\ UNCHANGED <<rqBody, rqGiven, rqEnd, rqRecorded>>

(* The client is gone: the application returns without an answer.          *)
RqDisconnect ==
  /\ rqState = "app" /\ rqAnswering = << >> /\ rqState' = "returned"
  /\ UNCHANGED <<rqBody, rqSeen, rqGiven, rqEnd, rqAnswering, rqWire, rqRecorded>>

(* The application returned: an oversized request still owes its 413.      *)
(* RequestContext then records the status that was sent (500 if none).     *)
RqReturn ==
  /\ rqState = "returned"
  /\ IF rqSeen.tooLarge /\ ~ rqSeen.refused THEN RqRefuse ELSE UNCHANGED rqWire
  /\ rqRecorded' = IF rqWire' = << >> THEN 500 ELSE rqWire'[Len(rqWire')]
  /\ rqState' = "closed"
  /\ UNCHANGED <<rqBody, rqSeen, rqGiven, rqEnd, rqAnswering>>

(* An unhandled exception passes the limiter by; RequestContext answers    *)
(* 500 unless a response has started, and then raises it again.            *)
RqRaise ==
  /\ rqState = "app"
  /\ rqWire' = IF rqWire = << >> THEN <<500>> ELSE rqWire
  /\ rqRecorded' = rqWire'[Len(rqWire')]
  /\ rqState' = "closed"
  /\ UNCHANGED <<rqBody, rqSeen, rqGiven, rqEnd, rqAnswering>>

RqNext ==
  \/ RqArriveDeclared
  \/ \E n \in 0..RqMaxChunks : \E chunks \in [1..n -> 0..(RqMaxBytes + 1)] : RqArrive(chunks)
  \/ RqReceive
  \/ \E status \in RqStatuses : RqHandle(status)
  \/ RqSend \/ RqDisconnect \/ RqReturn \/ RqRaise

RqSpec == RqInit /\ [][RqNext]_rqVars

RqTypeOK ==
  /\ rqState \in {"new", "app", "returned", "closed"}
  /\ rqSeen \in [bytes : Nat, tooLarge : BOOLEAN, refused : BOOLEAN]
  /\ rqGiven \in Nat /\ rqEnd \in BOOLEAN
  /\ \A i \in DOMAIN rqWire : rqWire[i] \in RqStatuses \cup {413, 500}

(***************************************************************************)
(* Whatever the order in which the body is read and answered, a request    *)
(* gets at most one response start, the application is never handed more   *)
(* than the limit, an answer it computes from a cut body is never sent,    *)
(* and the metrics record the status that went out.                        *)
(***************************************************************************)
RqOneTrueAnswer ==
  /\ Len(rqWire) <= 1
  /\ rqGiven <= RqMaxBytes
  /\ \A i \in DOMAIN rqWire : rqSeen.tooLarge => rqWire[i] \in {413, 500}
  /\ rqState = "closed" => \A i \in DOMAIN rqWire : rqRecorded = rqWire[i]
=============================================================================
