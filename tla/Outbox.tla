------------------------------- MODULE Outbox -------------------------------
(***************************************************************************)
(* What the notification outbox promises to who reads its rows, without    *)
(* dispatchers, leases, batches, breakers and budgets: a recorded delivery *)
(* is never forgotten; it is DELIVERED only if its sink accepted it, and   *)
(* DEAD only if the sink did not take it once, in answer to a send since   *)
(* the row was recorded or redriven; a settled row changes by a redrive    *)
(* only.  A message may reach its sink more than once, also when its row   *)
(* has settled: the sink is offered it at least once.                      *)
(***************************************************************************)
CONSTANT Deliveries

VARIABLES status,  \* delivery -> NEW (no row yet), PENDING, DELIVERED or DEAD
          heard    \* delivery -> the sink's answers since it was last queued

Init ==
  /\ status = [d \in Deliveries |-> "NEW"]
  /\ heard = [d \in Deliveries |-> {}]

Becomes(d, s) == status' = [status EXCEPT ![d] = s]

Record(d) == status[d] = "NEW" /\ Becomes(d, "PENDING") /\ UNCHANGED heard

\* The sink answers a send: it accepts, fails or refuses for good.
Hear(d, a) ==
  /\ status[d] # "NEW"
  /\ heard' = [heard EXCEPT ![d] = @ \union {a}]
  /\ UNCHANGED status

Deliver(d) ==
  /\ status[d] = "PENDING" /\ "accepted" \in heard[d]
  /\ Becomes(d, "DELIVERED") /\ UNCHANGED heard

GiveUp(d) ==
  /\ status[d] = "PENDING" /\ {"failed", "refused"} \cap heard[d] # {}
  /\ Becomes(d, "DEAD") /\ UNCHANGED heard

Redrive(d) ==
  /\ status[d] = "DEAD" /\ Becomes(d, "PENDING")
  /\ heard' = [heard EXCEPT ![d] = {}]

Next ==
  \E d \in Deliveries :
    \/ Record(d) \/ Deliver(d) \/ GiveUp(d) \/ Redrive(d)
    \/ \E a \in {"accepted", "failed", "refused"} : Hear(d, a)

Spec == Init /\ [][Next]_<<status, heard>>
=============================================================================
