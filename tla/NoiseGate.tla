----------------------------- MODULE NoiseGate -----------------------------
(***************************************************************************)
(* The noise gate of the audio client,                                     *)
(* backend/audio-client/src/noise_gate.rs: a three-state machine fed one   *)
(* sample at a time that decides which samples reach the sink.             *)
(*                                                                         *)
(* A sample is an integer of the signed format the device delivers, between*)
(* -HalfRange and HalfRange - 1 (2^15 for 16 bit samples); the negation of *)
(* the least one wraps, as it does in the release build.                   *)
(***************************************************************************)
EXTENDS Integers

CONSTANTS
    HalfRange,           \* half the number of values of the sample format
    Samples,             \* the samples the microphone may deliver
    OpenThreshold,       \* NoiseGate::open_threshold
    ReleaseSampleCount   \* NoiseGate::release_sample_count

SampleRange == -HalfRange .. HalfRange - 1

ASSUME GateAssumption ==
    /\ HalfRange \in Nat \ {0}
    /\ OpenThreshold \in SampleRange
    /\ Samples \subseteq SampleRange
    /\ ReleaseSampleCount \in Nat

VARIABLES
    gate,   \* NoiseGate::state; remaining is the field of Closing
    call    \* the call process() made to the sink for the last sample

gateVars == <<gate, call>>

Open == [state |-> "Open", remaining |-> 0]
Closing(n) == [state |-> "Closing", remaining |-> n]
Closed == [state |-> "Closed", remaining |-> 0]

-----------------------------------------------------------------------------
(* The threshold test *)

\* -x in the sample format.
Negate(x) == IF x = -HalfRange THEN x ELSE -x

Abs(x) == IF x >= 0 THEN x ELSE Negate(x)

BelowThreshold(s) ==
    LET threshold == Abs(OpenThreshold) IN
    /\ Negate(threshold) < s
    /\ s < threshold

-----------------------------------------------------------------------------
(* The state machine *)

IsOpen(g) == g.state \in {"Open", "Closing"}

\* The gate closes one sample early.
NextStateShortRelease(g, s) ==
    IF ~BelowThreshold(s) THEN Open
    ELSE IF g.state = "Open" THEN Closing(ReleaseSampleCount)
    ELSE IF g.state = "Closing" /\ g.remaining > 1 THEN Closing(g.remaining - 1)
    ELSE Closed

NextState(g, s) ==
    IF ~BelowThreshold(s) THEN Open
    ELSE IF g.state = "Open" THEN Closing(ReleaseSampleCount)
    ELSE IF g.state = "Closing" /\ g.remaining > 0 THEN Closing(g.remaining - 1)
    ELSE Closed

\* What process() tells the sink after a step from g to h.
SinkCall(g, h) ==
    IF IsOpen(h) THEN "record" ELSE IF IsOpen(g) THEN "end" ELSE "none"

GateInit ==
    /\ gate = Closed
    /\ call = "none"

\* One iteration of the loop of process().
Process(s) ==
    /\ gate' = NextState(gate, s)
    /\ call' = SinkCall(gate, gate')

GateNext == \E s \in Samples : Process(s)

GateSpec == GateInit /\ [][GateNext]_gateVars

-----------------------------------------------------------------------------
(* Properties *)

GateStates ==
    {Open, Closed} \cup {Closing(n) : n \in 0 .. ReleaseSampleCount}

\* The gate is in one of the states of the enum, with a countdown that never
\* exceeds the configured release count (the usize of Closing never wraps).
GateTypeOK ==
    /\ gate \in GateStates
    /\ call \in {"none", "record", "end"}

\* Samples since the last loud one, as the state of the gate tells it.
Since ==
    IF gate.state = "Open" THEN 0
    ELSE IF gate.state = "Closing" THEN ReleaseSampleCount + 1 - gate.remaining
    ELSE ReleaseSampleCount + 2

Contract == INSTANCE GateContract WITH Hold <- ReleaseSampleCount + 1, since <- Since

\* The gate implements its contract: it stays open for ReleaseSampleCount + 1
\* quiet samples after a loud one, whatever came before (a countdown cut short
\* by a loud sample restarts in full), and each transmission is ended once.
ImplementsContract == Contract!ContractSpec
=============================================================================
