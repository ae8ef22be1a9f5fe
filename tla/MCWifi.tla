------------------------------- MODULE MCWifi -------------------------------
(* An instance of Wifi. *)
EXTENDS Wifi, TLC
=============================================================================
