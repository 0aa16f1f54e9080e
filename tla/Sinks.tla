-------------------------------- MODULE Sinks --------------------------------
(***************************************************************************)
(* One notification on its way through a sink (adapters/notify*.py), with  *)
(* the outbound policy its HTTP client obeys (core/outbound.py).  What the  *)
(* dispatcher does with the outcome is in Dispatcher; here it only sends    *)
(* again after a retryable failure.  The receivers are modelled from the    *)
(* answers the sinks tell apart.                                           *)
(***************************************************************************)
EXTENDS Naturals, FiniteSets

CONSTANTS SkTries   \* bound: times the dispatcher sends

ASSUME SkAssumption == SkTries \in Nat \ {0}

VARIABLES skSink,    \* the adapter
          skTry,     \* sends so far
          skStep,    \* what send is doing
          skAccepted,\* the tries whose message the receiver has
          skBuffer,  \* Kafka: the tries whose record the producer still holds
          skAcks,    \* Kafka: the delivery callbacks that have run, and their error
          skOut      \* the outcome of the last send

skVars == <<skSink, skTry, skStep, skAccepted, skBuffer, skAcks, skOut>>

SkHttp == {"webhook", "slack", "pagerduty", "pubsub"}
SkAws == {"sqs", "sns"}
SkSessions == {"nats", "email"}

SkInit ==
    /\ skSink \in SkHttp \cup SkAws \cup SkSessions \cup {"log", "kafka"}
    /\ skTry = 0 /\ skStep = "idle" /\ skAccepted = {} /\ skBuffer = {} /\ skAcks = {}
    /\ skOut = [kind |-> "none", try |-> 0]

SkEnds(kind) == skOut' = [kind |-> kind, try |-> skTry] /\ skStep' = "idle"

\* Delivered, or a NotificationDeliveryError that can or cannot be retried.
SkFails(retryable) == SkEnds(IF retryable THEN "retry" ELSE "dead")

SkAccept == skAccepted' = skAccepted \cup {skTry}

SkSend ==
    /\ skStep = "idle" /\ skOut.kind \in {"none", "retry"} /\ skTry < SkTries
    /\ skTry' = skTry + 1
    /\ skStep' = CASE skSink = "log" -> "write" [] skSink = "kafka" -> "produce"
                   [] skSink \in SkHttp -> "check" [] skSink \in SkSessions -> "connect"
                   [] skSink \in SkAws -> "post"
    /\ skOut' = [kind |-> "sending", try |-> skTry + 1]
    /\ UNCHANGED <<skSink, skAccepted, skBuffer, skAcks>>

\* LogSink accepts everything.
SkLog ==
    /\ skStep = "write" /\ SkAccept /\ SkEnds("ok")
    /\ UNCHANGED <<skSink, skTry, skBuffer, skAcks>>

-----------------------------------------------------------------------------
(* HTTP                                                                    *)

\* A host as the policy sees it: trusted by configuration, blocked by name,
\* and whether every address it resolves to is public.
SkHosts == [trusted : BOOLEAN, blocked : BOOLEAN, public : BOOLEAN, https : BOOLEAN]

\* OutboundPolicy.check, with OUTBOUND_REQUIRE_HTTPS: plain http only to a
\* configured endpoint; a trusted host goes before the other rules.
SkAllows(h) == (h.https \/ h.trusted) /\ (h.trusted \/ (~h.blocked /\ h.public))

\* Before anything is sent.
SkCheck ==
    /\ skStep = "check"
    /\ \E h \in SkHosts :
          IF SkAllows(h) THEN skStep' = "post" /\ skOut' = skOut ELSE SkFails(FALSE)
    /\ UNCHANGED <<skSink, skTry, skAccepted, skBuffer, skAcks>>

SkAnswers == {"2xx", "busy", "refused", "5xx"}   \* busy: 408, 425, 429 or throttling

\* is_retryable_status, aws_error
SkRetryable(status) == status \in {"busy", "5xx"}

\* post, send_message and publish: the receiver takes the message and says so;
\* answers 5xx with or without having taken it; or refuses it.
SkPost(status) ==
    /\ skStep = "post"
    /\ \/ status \in {"2xx", "5xx"} /\ SkAccept
       \/ status # "2xx" /\ UNCHANGED skAccepted
    /\ IF status = "2xx" THEN SkEnds("ok") ELSE SkFails(SkRetryable(status))
    /\ UNCHANGED <<skSink, skTry, skBuffer, skAcks>>

\* A timeout or a transport error, before or after the message was taken.
SkPostLost ==
    /\ skStep = "post"
    /\ SkAccept \/ UNCHANGED skAccepted
    /\ SkFails(TRUE)
    /\ UNCHANGED <<skSink, skTry, skBuffer, skAcks>>

-----------------------------------------------------------------------------
(* NATS and SMTP: a session per message                                    *)

\* NATS greets with INFO (which may require TLS); SMTP logs in.
SkConnect(outcome) ==
    /\ skStep = "connect"
    /\ CASE outcome = "open" -> skStep' = "publish" /\ skOut' = skOut
         [] outcome = "unreachable" -> SkFails(TRUE)
         [] outcome = "not_like_this" -> SkFails(FALSE)
    /\ UNCHANGED <<skSink, skTry, skAccepted, skBuffer, skAcks>>

\* HPUB and then PING; or the mail, to at least one recipient.
SkPublish(status) ==
    /\ skStep = "publish"
    /\ CASE status = "taken" -> SkAccept /\ skStep' = "confirm" /\ skOut' = skOut
         [] status = "broken" -> UNCHANGED skAccepted /\ SkFails(TRUE)
         [] status = "busy" -> UNCHANGED skAccepted /\ SkFails(TRUE)
         [] status = "refused" -> UNCHANGED skAccepted /\ SkFails(FALSE)
    /\ UNCHANGED <<skSink, skTry, skBuffer, skAcks>>

\* PONG, or QUIT: only then has send returned.
SkConfirms(answered) == IF answered THEN SkEnds("ok") ELSE SkFails(TRUE)

SkConfirm(answered) ==
    /\ skStep = "confirm" /\ SkConfirms(answered)
    /\ UNCHANGED <<skSink, skTry, skAccepted, skBuffer, skAcks>>

-----------------------------------------------------------------------------
(* Kafka: one producer with a buffer for every send                        *)

SkProduce(full) ==
    /\ skStep = "produce"
    /\ IF full THEN SkFails(TRUE) /\ skBuffer' = skBuffer            \* BufferError
       ELSE skBuffer' = skBuffer \cup {skTry} /\ skStep' = "flush" /\ skOut' = skOut
    /\ UNCHANGED <<skSink, skTry, skAccepted, skAcks>>

\* The broker takes a buffered record; or the record expires, or is refused
\* for good; then its callback runs.
SkRecord(t, error) ==
    /\ t \in skBuffer /\ skBuffer' = skBuffer \ {t}
    /\ skAccepted' = IF error = "no" THEN skAccepted \cup {t} ELSE skAccepted
    /\ skAcks' = skAcks \cup {[try |-> t, error |-> error]}
    /\ UNCHANGED <<skSink, skTry, skStep, skOut>>

\* Mutant: flush's count of what remains, and the callback, are not looked at.
SkAckedUnread == TRUE

\* remaining is 0 and the callback of this record has run.
SkAcked == skBuffer = {} /\ \E k \in skAcks : k.try = skTry

\* flush returns.
SkFlush ==
    /\ skStep = "flush"
    /\ IF ~SkAcked THEN SkFails(TRUE)
       ELSE IF \E k \in skAcks : k.try = skTry /\ k.error # "no"
            THEN \E k \in skAcks : k.try = skTry /\ SkFails(k.error = "retriable")
            ELSE SkEnds("ok")
    /\ UNCHANGED <<skSink, skTry, skAccepted, skBuffer, skAcks>>

SkNext ==
    \/ SkSend \/ SkLog \/ SkCheck \/ SkPostLost \/ SkFlush
    \/ \E s \in SkAnswers : SkPost(s)
    \/ \E o \in {"open", "unreachable", "not_like_this"} : SkConnect(o)
    \/ \E s \in {"taken", "broken", "busy", "refused"} : SkPublish(s)
    \/ \E b \in BOOLEAN : SkConfirm(b) \/ SkProduce(b)
    \/ \E t \in skBuffer, e \in {"no", "retriable", "fatal"} : SkRecord(t, e)

SkSpec == SkInit /\ [][SkNext]_skVars

-----------------------------------------------------------------------------
(* Properties                                                              *)

\* A sink tells the truth in every order of buffered records, late
\* acknowledgements, lost answers and broken sessions: a send that returned
\* has reached the receiver, and a send it reports as not worth retrying has
\* not and will not (send of every sink; "deduplicates on webhook-id" is only
\* needed after a retryable failure).
SkOutcomeIsTrue ==
    /\ skOut.kind = "ok" => skOut.try \in skAccepted
    /\ skOut.kind = "dead" => skOut.try \notin skAccepted \cup skBuffer
=============================================================================
