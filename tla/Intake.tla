------------------------------- MODULE Intake -------------------------------
(***************************************************************************)
(* A monitoring system posts its own payload, which a mapper turns into    *)
(* drift events that are submitted one after the other                     *)
(* (core/event_mapping.py, api/routes_adaptation.py submit_mapped_events,  *)
(* core/schemas.py idempotency_key, orchestrator/jobs.py _submit).  The    *)
(* sender repeats a post whose answer it did not get, possibly while an    *)
(* earlier one is still being worked through by another API thread.        *)
(*                                                                         *)
(* A record of the payload is                                              *)
(*   model    the model it is about                                        *)
(*   firing   whether it passes the mapping's `where`                      *)
(*   id       the parts of its event id, or InMissing                      *)
(*   fits     whether its values are in the mapping's value_maps and fit   *)
(*            the DriftEvent contract                                      *)
(***************************************************************************)
EXTENDS Naturals, Sequences, FiniteSets, SequencesExt

CONSTANTS InModels, InIds, InMissing,
          InThreads,      \* API threads
          InMaxRecords,   \* records of a payload
          InMaxEvents,    \* DRIFT_MAPPER_MAX_EVENTS
          InMaxPosts      \* how often the sender posts

ASSUME InBounds == InMaxRecords \in Nat /\ InMaxEvents \in Nat /\ InMaxPosts \in Nat

ASSUME InNames == InMissing \notin InIds

VARIABLES inPayload,   \* what the sender posts, again and again
          inPosts,     \* posts made
          inCall,      \* per thread: the request it works on
          inJobs,      \* adaptation_job rows in order of insertion
          inLock       \* model -> the job row holding its lock, 0 if none

inVars == <<inPayload, inPosts, inCall, inJobs, inLock>>

InRecords == [model : InModels, firing : BOOLEAN, id : InIds \cup {InMissing}, fits : BOOLEAN]

(* left: the positions in the payload whose events are not submitted yet.  *)
InIdle == [pc |-> "idle", left |-> {}, fresh |-> FALSE, answer |-> 0]

InInit ==
  /\ inPayload \in SeqOf(InRecords, InMaxRecords)
  /\ inPosts = 0
  /\ inCall = [t \in InThreads |-> InIdle]
  /\ inJobs = << >> /\ inLock = [m \in InModels |-> 0]

(* DriftEvent.idempotency_key: the event id under its model, or the        *)
(* event's content; a record's content here is the record.  The code joins *)
(* the parts with a colon: model ids have none, and no event id is the     *)
(* digest of a content.                                                    *)
InKeyWithoutModel(r) == IF r.id # InMissing THEN <<"id", r.id>> ELSE <<"content", r>>
InKey(r) == IF r.id # InMissing THEN <<r.model, "id", r.id>> ELSE <<r.model, "content", r>>

(* map_payload: the records that pass `where`, by position.                *)
InSelected == {i \in DOMAIN inPayload : inPayload[i].firing}

(* ... and every one of them must map before any is submitted.             *)
InMaps == \A i \in InSelected : inPayload[i].fits

InAnswers(status) == [pc |-> "answered", left |-> {}, fresh |-> FALSE, answer |-> status]

InPost(t) ==
  /\ inCall[t].pc \in {"idle", "answered"} /\ inPosts < InMaxPosts
  /\ inPosts' = inPosts + 1
  /\ inCall' = [inCall EXCEPT ![t] =
       IF Cardinality(InSelected) <= InMaxEvents /\ InMaps
       THEN [pc |-> "submit", left |-> InSelected, fresh |-> FALSE, answer |-> 0]
       ELSE InAnswers(422)]
  /\ UNCHANGED <<inPayload, inJobs, inLock>>

InHas(key) == \E i \in DOMAIN inJobs : inJobs[i].key = key

(* The events are submitted in the order of the payload.                   *)
InTurn(c) == CHOOSE i \in c.left : \A j \in c.left : i <= j

InDuplicate(c) == [c EXCEPT !.pc = "submit", !.left = c.left \ {InTurn(c)}]

(* _submit looks for a job with the event's key.                           *)
InLook(t) ==
  /\ inCall[t].pc = "submit" /\ inCall[t].left # {}
  /\ LET c == inCall[t] IN
     inCall' = [inCall EXCEPT ![t] = IF InHas(InKey(inPayload[InTurn(c)])) THEN InDuplicate(c)
                                     ELSE [c EXCEPT !.pc = "insert"]]
  /\ UNCHANGED <<inPayload, inPosts, inJobs, inLock>>

(* Its transaction: the key's unique constraint and the model's lock decide *)
(* between a new job, a duplicate and MODEL_BUSY, which ends the request.  *)
InCommit(t) ==
  /\ inCall[t].pc = "insert"
  /\ LET c == inCall[t]
         r == inPayload[InTurn(c)]
     IN  \/ /\ InHas(InKey(r))
            /\ inCall' = [inCall EXCEPT ![t] = InDuplicate(c)]
            /\ UNCHANGED <<inJobs, inLock>>
         \/ /\ ~ InHas(InKey(r)) /\ inLock[r.model] # 0
            /\ inCall' = [inCall EXCEPT ![t] = InAnswers(409)]
            /\ UNCHANGED <<inJobs, inLock>>
         \/ /\ ~ InHas(InKey(r)) /\ inLock[r.model] = 0
            /\ inJobs' = Append(inJobs, [key |-> InKey(r), model |-> r.model, id |-> r.id])
            /\ inLock' = [inLock EXCEPT ![r.model] = Len(inJobs')]
            /\ inCall' = [inCall EXCEPT ![t] = [InDuplicate(c) EXCEPT !.fresh = TRUE]]
  /\ UNCHANGED <<inPayload, inPosts>>

(* Every event is submitted: 201 when one made a new job, else 200.        *)
InAnswer(t) ==
  /\ inCall[t].pc = "submit" /\ inCall[t].left = {}
  /\ inCall' = [inCall EXCEPT ![t] = InAnswers(IF inCall[t].fresh THEN 201 ELSE 200)]
  /\ UNCHANGED <<inPayload, inPosts, inJobs, inLock>>

(* A job ends and its lock is released.                                    *)
InJobEnds(m) ==
  /\ inLock[m] # 0 /\ inLock' = [inLock EXCEPT ![m] = 0]
  /\ UNCHANGED <<inPayload, inPosts, inCall, inJobs>>

InNext ==
  \/ \E t \in InThreads : InPost(t) \/ InLook(t) \/ InCommit(t) \/ InAnswer(t)
  \/ \E m \in InModels : InJobEnds(m)

InSpec == InInit /\ [][InNext]_inVars

InTypeOK ==
  /\ inPosts \in 0..InMaxPosts /\ inLock \in [InModels -> 0..Len(inJobs)]
  /\ \A t \in InThreads : inCall[t].answer \in {0, 200, 201, 409, 422}

(***************************************************************************)
(* A 2xx answer to a post accounts for the whole payload: every record     *)
(* that fires has a job of its own model and id, however the posts'        *)
(* submissions interleave and whichever of them were cut short by a busy   *)
(* model.  No two jobs carry one idempotency key, and a payload that does  *)
(* not map leaves no job.                                                  *)
(***************************************************************************)
InBatchAccounted ==
  /\ \A t \in InThreads : inCall[t].answer \in {200, 201} =>
       \A i \in InSelected : \E j \in DOMAIN inJobs :
         inJobs[j].model = inPayload[i].model /\ inJobs[j].id = inPayload[i].id
  /\ \A i, j \in DOMAIN inJobs : inJobs[i].key = inJobs[j].key => i = j
  /\ inJobs # << >> => InMaps
=============================================================================
