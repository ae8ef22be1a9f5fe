-------------------------- MODULE MCEventDelivery --------------------------
(* Instances of EventDelivery. *)
EXTENDS EventDelivery, TLC
=============================================================================
