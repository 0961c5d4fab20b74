---------------------------- MODULE MCDeliveries -----------------------------
(* Instances of Deliveries: direct messages to one agent. *)
EXTENDS Deliveries

CONSTANT a1

Direct == [m \in Msg |-> {a1}]
==============================================================================
