----------------------------- MODULE TimeStamps -----------------------------
(***************************************************************************)
(* The times of an event, from the tracker to the events table: the clock  *)
(* that WIFI sets, BugEventCodec::encode of the firmware, the bytes as     *)
(* bincode reads them for backend/event, and NewEvent of the backend.      *)
(*                                                                         *)
(* The tracker counts the time since the device was started; the codec     *)
(* adds _ntp_secs, the Unix time at which the thread of WIFI got an answer *)
(* from the time server, and 0 until then.  The backend takes 0 seconds    *)
(* for a time that was not set.                                            *)
(*                                                                         *)
(* A word has four bytes as in the code; a byte has ByteBase values.       *)
(***************************************************************************)
EXTENDS PositionTracker

CONSTANTS
    Dimensions,     \* axes of the sensor: 0 .. Dimensions - 1
    Second,         \* units of the tracker's clock in a second: 1000
    NanosPerUnit,   \* nanoseconds in a unit of the clock: 1000000
    MinuteSeconds,  \* seconds of a minute: 60
    StartTime,      \* Unix time, in units, at which the device was started
    Secret,         \* the secret of the device
    ByteBase        \* values of a byte: 256

WordBase == ByteBase * ByteBase * ByteBase * ByteBase

ASSUME StampAssumption ==
    /\ Dimensions \in Nat \ {0} /\ Axes = 0 .. Dimensions - 1
    /\ Second \in Nat \ {0} /\ NanosPerUnit \in Nat \ {0} /\ MinuteSeconds \in Nat \ {0}
    /\ ByteBase \in Nat \ {0, 1} /\ ByteBase % 2 = 0
    /\ Secret \in 0 .. WordBase * WordBase - 1
    /\ Second * NanosPerUnit < WordBase
    \* The epoch was more than a minute, and longer than the device runs, ago.
    /\ StartTime \in Nat /\ StartTime > MaxTime /\ StartTime > MinuteSeconds * Second
    \* The year is before 2038: the time of the server fits the int32_t _ntp_secs.
    /\ 2 * (StartTime + MaxTime) < Second * WordBase

VARIABLES
    ntp,        \* WIFI::_ntp_secs
    frames      \* history: buffers given to TCPClient::send, with the clock then

stampVars == <<vars, ntp, frames>>

-----------------------------------------------------------------------------
(* BugEventCodec *)

\* The mask of the highest byte is wrong, and it is lost.
Little4WithoutTop(data) ==
    <<data % ByteBase, (data \div ByteBase) % ByteBase, (data \div (ByteBase * ByteBase)) % ByteBase, 0>>

\* encode_little_endian_4 of the low 32 bits, in two's complement.
Little4(data) ==
    <<data % ByteBase, (data \div ByteBase) % ByteBase, (data \div (ByteBase * ByteBase)) % ByteBase,
      (data \div (ByteBase * ByteBase * ByteBase)) % ByteBase>>

Little8(data) == Little4(data) \o Little4(data \div WordBase)

\* The words of an array, in order.
Little4All(v) == [k \in 1 .. 4 * Dimensions |-> Little4(v[(k - 1) \div 4])[((k - 1) % 4) + 1]]

\* Seconds are rounded, and the rest is added to them.
SecsRounded(t, clock) == clock + (t + Second \div 2) \div Second

Secs(t, clock) == clock + t \div Second

Nsecs(t) == (t % Second) * NanosPerUnit

PositionKind == 1

\* encode() of a Position.
Encode(e, clock) ==
    Little8(Secret)
    \o Little8(Secs(e.started, clock)) \o Little4(Nsecs(e.started))
    \o Little8(Secs(e.ended, clock)) \o Little4(Nsecs(e.ended))
    \o Little4(PositionKind) \o Little4All(e.from) \o Little4All(e.to)

-----------------------------------------------------------------------------
(* bincode, as derived for Event *)

U32(buf, at) ==
    buf[at + 1] + ByteBase * (buf[at + 2] + ByteBase * (buf[at + 3] + ByteBase * buf[at + 4]))

U64(buf, at) == U32(buf, at) + WordBase * U32(buf, at + 4)

Signed(n, base) == IF 2 * n >= base THEN n - base ELSE n

I32s(buf, at) == [x \in Axes |-> Signed(U32(buf, at + 4 * x), WordBase)]

Variants == <<"Sound", "Position", "Luminosity">>

\* The fields of Event, in order; of the payloads, the one the device sends.
Decode(buf) ==
    [secret |-> U64(buf, 0),
     started_at_secs |-> Signed(U64(buf, 8), WordBase * WordBase),
     started_at_nsecs |-> U32(buf, 16),
     ended_at_secs |-> Signed(U64(buf, 20), WordBase * WordBase),
     ended_at_nsecs |-> U32(buf, 28),
     kind |-> Variants[U32(buf, 32) + 1],
     from |-> I32s(buf, 36),
     to |-> I32s(buf, 36 + 4 * Dimensions)]

-----------------------------------------------------------------------------
(* The backend *)

\* NewEvent::from, at a second of the backend's current minute.
NewEventTimes(ev, second) ==
    LET unset == ev.started_at_secs = 0 \/ ev.ended_at_secs = 0
        secs(s) == IF unset THEN second ELSE s
    IN  [started_at |-> <<secs(ev.started_at_secs), ev.started_at_nsecs>>,
         ended_at |-> <<secs(ev.ended_at_secs), ev.ended_at_nsecs>>]

-----------------------------------------------------------------------------
(* The device *)

StampInit ==
    /\ Init
    /\ ntp = 0
    /\ frames = << >>

\* sample_callback(), and the encoding of the event it may send.
SampleAndSend(a, d) ==
    /\ SampleCallback(a, d)
    /\ frames' = IF sent' = sent THEN frames
                 ELSE Append(frames, [buf |-> Encode(sent'[Len(sent')], ntp), clock |-> ntp])
    /\ UNCHANGED ntp

\* Every connection to an access point sets the clock.
SyncTimestampAlways ==
    /\ ntp' = (StartTime + now) \div Second
    /\ UNCHANGED <<vars, frames>>

\* sync_timestamp(), on the thread of WIFI; it has nothing more to do once the
\* time is set, and a time server that fails leaves it unset.
SyncTimestamp ==
    /\ ntp = 0
    /\ ntp' = (StartTime + now) \div Second
    /\ UNCHANGED <<vars, frames>>

StampNext ==
    \/ \E a \in [Axes -> Readings] : \E d \in Durations : SampleAndSend(a, d)
    \/ SyncTimestamp

StampSpec == StampInit /\ [][StampNext]_stampVars

-----------------------------------------------------------------------------
(* Properties *)

N == Len(frames)

\* The backend reads from the last buffer exactly the event the tracker sent,
\* the sign of its coordinates and the 64 bit seconds included.
WireRoundTrip ==
    N > 0 => LET e == sent[N] IN
        Decode(frames[N].buf) =
            [secret |-> Secret,
             started_at_secs |-> frames[N].clock + e.started \div Second,
             started_at_nsecs |-> (e.started % Second) * NanosPerUnit,
             ended_at_secs |-> frames[N].clock + e.ended \div Second,
             ended_at_nsecs |-> (e.ended % Second) * NanosPerUnit,
             kind |-> "Position",
             from |-> e.from,
             to |-> e.to]

Before(a, b) == a[1] < b[1] \/ (a[1] = b[1] /\ a[2] < b[2])

Row(i, second) == NewEventTimes(Decode(frames[i].buf), second)

\* With the clock set, an event is stored with an end after its start, and
\* after every event sent before it: the ones from before the clock was set,
\* whose times are those since the start, or seconds of the minute, included.
StoredInTimeOrder ==
    N > 0 /\ frames[N].clock > 0 =>
        \A s \in 0 .. MinuteSeconds - 1 :
            /\ Before(Row(N, s).started_at, Row(N, s).ended_at)
            /\ \A i \in 1 .. N - 1 : Before(Row(i, s).ended_at, Row(N, s).started_at)

Units(time) == time[1] * Second + time[2] \div NanosPerUnit

\* Between two events stamped by a set clock lies the time that really passed,
\* however often the wifi was connected again in between.
GapsKept ==
    \A i \in 1 .. N - 1 : frames[i].clock > 0 =>
        Units(Row(N, 0).started_at) - Units(Row(i, 0).ended_at) = sent[N].started - sent[i].ended
=============================================================================
