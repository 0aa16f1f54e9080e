----------------------------- MODULE MCDelivery -----------------------------
(* Small instances of Delivery. *)
EXTENDS Delivery, TLC

CONSTANTS r1, v1

OneCandidate == r1 :> v1
TwoSteps == <<25, 100>>
ThreeSteps == <<5, 50, 100>>
=============================================================================
