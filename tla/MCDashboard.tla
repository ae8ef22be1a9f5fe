---------------------------- MODULE MCDashboard ----------------------------
(* A device that exists with an event, and one that is created. *)
EXTENDS Dashboard

MCDeviceOf == [e \in Events |-> "d1"]
=============================================================================
