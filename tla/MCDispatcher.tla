---------------------------- MODULE MCDispatcher ----------------------------
(* Small instances of Dispatcher. *)
EXTENDS Dispatcher, TLC

CONSTANTS s1

OneSink == [d \in Deliveries |-> s1]
=============================================================================
