-------------------------- MODULE NoiseGateProofs --------------------------
(***************************************************************************)
(* The noise gate of the audio client for every sample format, threshold   *)
(* and release time: its state stays in the enum, and it implements the    *)
(* contract of GateContract.                                               *)
(***************************************************************************)
EXTENDS NoiseGate, TLAPS

\* The size of a sample, without the wrap-around of the format.
Magnitude(x) == IF x >= 0 THEN x ELSE -x

(* below_threshold() compares magnitudes for every threshold but the least  *)
(* sample value, whose absolute value does not fit the format.              *)
THEOREM ThresholdComparesMagnitudes ==
    ASSUME OpenThreshold # -HalfRange, NEW s \in SampleRange
    PROVE  BelowThreshold(s) <=> Magnitude(s) < Magnitude(OpenThreshold)
  BY GateAssumption DEF BelowThreshold, Magnitude, Abs, Negate, SampleRange

(* With that least value (what a threshold of 0 becomes in the unsigned     *)
(* format), and with 0 itself, no sample is below the threshold: the gate   *)
(* opens at the first sample and never closes.                              *)
THEOREM DegenerateThresholdNeverCloses ==
    ASSUME OpenThreshold \in {0, -HalfRange}, NEW s \in SampleRange, NEW g
    PROVE  NextState(g, s) = Open
  BY GateAssumption DEF NextState, BelowThreshold, Abs, Negate, SampleRange

-----------------------------------------------------------------------------
(* Type correctness *)

LEMMA GateStateNext ==
    ASSUME NEW g \in GateStates, NEW s
    PROVE  NextState(g, s) \in GateStates
  <1> USE GateAssumption DEF GateStates, NextState, Open, Closed, Closing
  <1>1. CASE ~BelowThreshold(s)
    BY <1>1
  <1>2. CASE BelowThreshold(s)
    <2>1. CASE g = Open
      BY <1>2, <2>1
    <2>2. CASE g = Closed
      BY <1>2, <2>2
    <2>3. ASSUME NEW n \in 0 .. ReleaseSampleCount, g = Closing(n)
          PROVE  NextState(g, s) \in GateStates
      BY <1>2, <2>3
    <2> QED BY <2>1, <2>2, <2>3
  <1> QED BY <1>1, <1>2

LEMMA GateTypeStep == GateTypeOK /\ [GateNext]_gateVars => GateTypeOK'
  <1> SUFFICES ASSUME GateTypeOK, [GateNext]_gateVars
               PROVE  GateTypeOK'
    OBVIOUS
  <1>1. ASSUME NEW s \in Samples, Process(s)
        PROVE  GateTypeOK'
    BY <1>1, GateStateNext DEF GateTypeOK, Process, SinkCall
  <1>2. CASE UNCHANGED gateVars
    BY <1>2 DEF GateTypeOK, gateVars
  <1> QED BY <1>1, <1>2 DEF GateNext

(* The gate never leaves the states of the enum, nor counts beyond the      *)
(* release count.                                                           *)
THEOREM GateTypeCorrect == GateSpec => []GateTypeOK
  <1>1. GateInit => GateTypeOK
    BY DEF GateInit, GateTypeOK, GateStates
  <1> QED BY <1>1, GateTypeStep, PTL DEF GateSpec

-----------------------------------------------------------------------------
(* Refinement of the contract *)

(* Every sample the gate processes is a step of the contract.               *)
THEOREM GateImplementsContract == GateSpec => ImplementsContract
  <1>1. GateInit => Contract!ContractInit
    BY GateAssumption DEF GateInit, Contract!ContractInit, Since, Closed
  <1>2. GateTypeOK /\ [GateNext]_gateVars => [Contract!ContractNext]_(Contract!contractVars)
    <2> SUFFICES ASSUME GateTypeOK, [GateNext]_gateVars
                 PROVE  [Contract!ContractNext]_(Contract!contractVars)
      OBVIOUS
    <2> USE GateAssumption
    <2>1. ASSUME NEW s \in Samples, Process(s)
          PROVE  Contract!Sample(~BelowThreshold(s))
      <3> USE <2>1 DEF Process, NextState, SinkCall, IsOpen, Contract!Sample, Contract!Passing
      <3>1. CASE gate = Open
        BY <3>1 DEF Since, Open, Closing
      <3>2. CASE gate = Closed
        BY <3>2 DEF Since, Open, Closed
      <3>3. ASSUME NEW n \in 0 .. ReleaseSampleCount, gate = Closing(n)
            PROVE  Contract!Sample(~BelowThreshold(s))
        BY <3>3 DEF Since, Open, Closed, Closing
      <3> QED BY <3>1, <3>2, <3>3 DEF GateTypeOK, GateStates
    <2>2. CASE UNCHANGED gateVars
      BY <2>2 DEF gateVars, Contract!contractVars, Since
    <2> QED BY <2>1, <2>2 DEF GateNext, Contract!ContractNext, BelowThreshold
  <1> QED BY <1>1, <1>2, GateTypeCorrect, PTL
          DEF GateSpec, ImplementsContract, Contract!ContractSpec
=============================================================================
