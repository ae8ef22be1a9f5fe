-------------------------- MODULE PositionTracker --------------------------
(***************************************************************************)
(* The position tracker of the firmware: bug/src/tracker_position.h behind *)
(* the noise gate of bug/src/noise_gate.h.  Every SAMPLE_RATE the          *)
(* acceleration is read and processed on the tracker's own thread; an event*)
(* is handed to BugEventClient, which encodes it before send() returns.    *)
(*                                                                         *)
(* Acceleration is in milli-g with the bias subtracted.  The int16_t sums  *)
(* and the int32_t velocity are integers here: at the sensor's range of 2 g*)
(* a sum is far from its limit, and theorem VelocityFits says for how long *)
(* the velocity stays within its own.  The time between two samples varies *)
(* with the load of the thread.                                            *)
(***************************************************************************)
EXTENDS Integers, Sequences

CONSTANTS
    Axes,           \* the axes of the sensor
    Readings,       \* accelerations the sensor may report
    Durations,      \* times between two samples
    Threshold,      \* NOISE_GATE_THRESHOULD
    ReleaseCount,   \* NOISE_GATE_RELEASE_COUNT
    Noise2,         \* SAMPLE_NOISE_2
    DownScale,      \* SAMPLE_POSITION_DOWN_SCALE
    SensorRange,    \* the largest acceleration, with the bias subtracted
    SampleInterval, \* the longest time between two samples
    MaxTime         \* bound: time of the last sample

ASSUME TrackerAssumption ==
    /\ Readings \subseteq Int
    /\ Durations \subseteq Nat \ {0}
    /\ Threshold \in Nat /\ ReleaseCount \in Nat /\ Noise2 \in Nat
    /\ DownScale \in Nat \ {0}
    /\ MaxTime \in Nat

VARIABLES
    gate,       \* NoiseGate: _state and _remaining_release_count
    call,       \* the call process() made for the last sample
    curr,       \* Acceleration::curr, the last sample
    now,        \* Acceleration::ts_curr
    velocity,   \* _velocity
    position,   \* _position
    event,      \* _event_position and started_at: << >> for NULL
    sent        \* history: the events given to BugEventClient::send

vars == <<gate, call, curr, now, velocity, position, event, sent>>

-----------------------------------------------------------------------------
(* NoiseGate *)

Magnitude(x) == IF x >= 0 THEN x ELSE -x

ASSUME RangeAssumption ==
    /\ SensorRange \in Nat /\ \A r \in Readings : Magnitude(r) <= SensorRange
    /\ SampleInterval \in Nat /\ \A d \in Durations : d <= SampleInterval

OverThreshold(a) == \E x \in Axes : Magnitude(a[x]) > Threshold

IsOpened(g) == g.state \in {"Opened", "Closing"}

\* The gate closes one sample early.
NextStateShortCount(g, over) ==
    IF over THEN [g EXCEPT !.state = "Opened"]
    ELSE IF g.state = "Opened" THEN [state |-> "Closing", remaining |-> ReleaseCount]
    ELSE IF g.state = "Closed" \/ g.remaining <= 1 THEN [g EXCEPT !.state = "Closed"]
    ELSE [g EXCEPT !.remaining = @ - 1]

\* The countdown is decremented after it reached 0.
NextStateWraps(g, over) ==
    IF over THEN [g EXCEPT !.state = "Opened"]
    ELSE IF g.state = "Opened" THEN [state |-> "Closing", remaining |-> ReleaseCount]
    ELSE IF g.state = "Closed" THEN g
    ELSE [state |-> IF g.remaining = 0 THEN "Closed" ELSE "Closing",
          remaining |-> g.remaining - 1]

NextState(g, over) ==
    IF over THEN [g EXCEPT !.state = "Opened"]
    ELSE IF g.state = "Opened" THEN [state |-> "Closing", remaining |-> ReleaseCount]
    ELSE IF g.state = "Closed" \/ g.remaining = 0 THEN [g EXCEPT !.state = "Closed"]
    ELSE [g EXCEPT !.remaining = @ - 1]

SinkCall(g, h) ==
    IF IsOpened(h) THEN "record" ELSE IF IsOpened(g) THEN "end" ELSE "none"

-----------------------------------------------------------------------------
(* PositionTracker *)

Zero == [x \in Axes |-> 0]

\* Division of C++, towards zero.
Quotient(a, b) == IF a >= 0 THEN a \div b ELSE -((-a) \div b)

Denoised(n) == IF Magnitude(n) > Noise2 THEN n ELSE 0

\* Acceleration::apply_velocify_and_position, from the last two samples.
Velocity(v, a, b, d) ==
    [x \in Axes |-> v[x] + Quotient(Denoised(a[x] + b[x]) * d, 2)]

Displaced(p, v, d) == [x \in Axes |-> p[x] + Quotient(v[x] * d, DownScale)]

\* The position, not the velocity, is set back when a motion starts.
RecordResetsPosition(a, d) ==
    LET v == Velocity(velocity, curr, a, d)
        p == IF event = << >> THEN Zero ELSE position
    IN
    /\ event' = IF event = << >> THEN <<[from |-> p, started |-> now']>> ELSE event
    /\ velocity' = v
    /\ position' = Displaced(p, v, d)
    /\ UNCHANGED sent

\* record(): the first sample of a motion starts an event from rest.
Record(a, d) ==
    LET v == Velocity(IF event = << >> THEN Zero ELSE velocity, curr, a, d) IN
    /\ event' = IF event = << >> THEN <<[from |-> position, started |-> now']>> ELSE event
    /\ velocity' = v
    /\ position' = Displaced(position, v, d)
    /\ UNCHANGED sent

\* The event of a motion that was not sent is not deleted.
EndOfRecordKeepsEvent ==
    LET moved == event # << >> /\ event[1].from # position IN
    /\ sent' = IF moved
               THEN Append(sent, [from |-> event[1].from, to |-> position,
                                  started |-> event[1].started, ended |-> now'])
               ELSE sent
    /\ event' = IF moved THEN << >> ELSE event
    /\ UNCHANGED <<velocity, position>>

\* end_of_record(): the event is sent if the device moved, and deleted.
EndOfRecord ==
    /\ sent' = IF event # << >> /\ event[1].from # position
               THEN Append(sent, [from |-> event[1].from, to |-> position,
                                  started |-> event[1].started, ended |-> now'])
               ELSE sent
    /\ event' = << >>
    /\ UNCHANGED <<velocity, position>>

Init ==
    /\ gate = [state |-> "Closed", remaining |-> 0]
    /\ call = "none"
    /\ curr \in [Axes -> Readings]
    /\ now = 0
    /\ velocity = Zero
    /\ position = Zero
    /\ event = << >>
    /\ sent = << >>

\* sample_callback(): the acceleration a is read, d after the last one.
SampleCallback(a, d) ==
    /\ now + d <= MaxTime
    /\ now' = now + d
    /\ curr' = a
    /\ gate' = NextState(gate, OverThreshold(a))
    /\ call' = SinkCall(gate, gate')
    /\ IF call' = "record" THEN Record(a, d)
       ELSE IF call' = "end" THEN EndOfRecord
       ELSE UNCHANGED <<velocity, position, event, sent>>

Next == \E a \in [Axes -> Readings] : \E d \in Durations : SampleCallback(a, d)

Spec == Init /\ [][Next]_vars

-----------------------------------------------------------------------------
(* Properties *)

Vectors == [Axes -> Int]

\* The uint16_t countdown never wraps below 0, and the gate never counts more
\* than the release count.
TrackerTypeOK ==
    /\ gate \in [state : {"Opened", "Closing", "Closed"}, remaining : 0 .. ReleaseCount]
    /\ call \in {"none", "record", "end"}
    /\ curr \in [Axes -> Readings]
    /\ now \in Nat
    /\ velocity \in Vectors
    /\ position \in Vectors
    /\ event \in Seq([from : Vectors, started : Nat])
    /\ sent \in Seq([from : Vectors, to : Vectors, started : Nat, ended : Nat])

\* An event is being recorded exactly while the gate is open, so that the
\* branch "unexpected call before record something" cannot be reached and no
\* event is carried over into the next motion.
EventWhileOpen == event # << >> <=> IsOpened(gate)

\* The events of a device are one path through space and time: each starts
\* where and after the one before it ended, although motions that return to
\* their starting point are not reported.
EventsChain ==
    \A i \in 1 .. Len(sent) - 1 :
        /\ sent[i + 1].from = sent[i].to
        /\ sent[i].ended < sent[i + 1].started

\* What links the events sent to the state: the strengthening of EventsChain.
ChainLinked ==
    Len(sent) > 0 =>
        /\ sent[Len(sent)].ended <= now
        /\ event = << >> => sent[Len(sent)].to = position
        /\ event # << >> => /\ sent[Len(sent)].to = event[1].from
                            /\ sent[Len(sent)].ended < event[1].started

\* How far a motion may have taken the device: the velocity starts from rest
\* with every motion and grows by at most SensorRange * d in a time d, and the
\* position follows it.  t is the time the motion took, with the sample
\* interval before its first sample.
Reachable(from, to, t) ==
    \A x \in Axes : DownScale * Magnitude(to[x] - from[x]) <= SensorRange * (t * t)

MotionTime(started, ended) == ended - started + SampleInterval

\* An event never claims a motion that the readings of its own time could not
\* have caused: no velocity is carried over from an earlier motion, however
\* many motions, interrupted releases and unreported ones came before, and
\* the rounding of the two divisions never adds up in favour of the motion.
MotionsPlausible ==
    /\ \A i \in 1 .. Len(sent) :
          Reachable(sent[i].from, sent[i].to, MotionTime(sent[i].started, sent[i].ended))
    /\ event # << >> =>
          \A x \in Axes :
             Magnitude(velocity[x]) <= SensorRange * MotionTime(event[1].started, now)

\* Samples since the last loud one, as the state of the gate tells it.
Since ==
    IF gate.state = "Opened" THEN 0
    ELSE IF gate.state = "Closing" THEN ReleaseCount + 1 - gate.remaining
    ELSE ReleaseCount + 2

Contract == INSTANCE GateContract WITH Hold <- ReleaseCount + 1, since <- Since

\* The gate of the firmware keeps the same contract as the one of the audio
\* client, although it leaves an old countdown standing while it is open.
ImplementsContract == Contract!ContractSpec
=============================================================================
