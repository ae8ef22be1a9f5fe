--------------------------- MODULE GateContract ---------------------------
(***************************************************************************)
(* What a noise gate promises to the sink behind it, independently of how  *)
(* it keeps its state: a sample is passed on exactly when a loud sample    *)
(* occurred among it and the Hold samples before it, and the sink is told  *)
(* once, at the first sample that is not passed on, that the transmission  *)
(* is over.                                                                *)
(*                                                                         *)
(* Both implementations of the repository, the one of the audio client     *)
(* (backend/audio-client/src/noise_gate.rs) and the one of the firmware    *)
(* (bug/src/noise_gate.h), are shown to implement it.                      *)
(***************************************************************************)
EXTENDS Naturals

CONSTANT Hold  \* number of quiet samples still passed on after a loud one

VARIABLES
    since,     \* samples since the last loud one, counted up to Hold + 1
    call       \* what the sink was told at the last sample

contractVars == <<since, call>>

Passing(n) == n <= Hold

ContractInit ==
    /\ since = Hold + 1
    /\ call = "none"

\* The gate reads one sample.
Sample(loud) ==
    /\ since' = IF loud THEN 0 ELSE IF Passing(since) THEN since + 1 ELSE since
    /\ call' = IF Passing(since') THEN "record"
               ELSE IF Passing(since) THEN "end" ELSE "none"

ContractNext == \E loud \in BOOLEAN : Sample(loud)

ContractSpec == ContractInit /\ [][ContractNext]_contractVars
===========================================================================
