----------------------- MODULE PositionTrackerProofs -----------------------
(***************************************************************************)
(* The position tracker for every threshold, release count and sensor: an  *)
(* event is recorded exactly while the gate is open, the events sent form  *)
(* one path, and the gate of the firmware implements GateContract.  Behind *)
(* the codec, for every size of a byte and every unit of time: the backend *)
(* reads what was encoded, and stores the events in the order of time.     *)
(***************************************************************************)
EXTENDS TimeStamps, SequenceTheorems, TLAPS

EventRecs == [from : Vectors, started : Nat]
SentRecs == [from : Vectors, to : Vectors, started : Nat, ended : Nat]
Gates == [state : {"Opened", "Closing", "Closed"}, remaining : 0 .. ReleaseCount]

\* The inductive invariant.  EventsChain alone is not inductive: ChainLinked ties
\* the last event sent to the position, or to the event being recorded.
TrackerInv == TrackerTypeOK /\ EventWhileOpen /\ EventsChain /\ ChainLinked

-----------------------------------------------------------------------------
(* Arithmetic *)

LEMMA QuotientInt ==
    ASSUME NEW a \in Int, NEW b \in Nat \ {0}
    PROVE  Quotient(a, b) \in Int
  BY DEF Quotient

LEMMA ProductInt == ASSUME NEW a \in Int, NEW b \in Int PROVE a * b \in Int
  OBVIOUS

LEMMA VelocityType ==
    ASSUME NEW v \in Vectors, NEW a \in [Axes -> Readings], NEW b \in [Axes -> Readings],
           NEW d \in Durations
    PROVE  Velocity(v, a, b, d) \in Vectors
  <1> SUFFICES ASSUME NEW x \in Axes
               PROVE  v[x] + Quotient(Denoised(a[x] + b[x]) * d, 2) \in Int
    BY DEF Velocity, Vectors
  <1>1. a[x] + b[x] \in Int /\ d \in Int
    <2>1. a[x] \in Readings /\ b[x] \in Readings
      OBVIOUS
    <2>2. a[x] \in Int /\ b[x] \in Int
      BY <2>1, TrackerAssumption
    <2>3. d \in Int
      BY TrackerAssumption
    <2> QED BY <2>2, <2>3
  <1>2. Denoised(a[x] + b[x]) \in Int
    BY <1>1 DEF Denoised
  <1>3. Denoised(a[x] + b[x]) * d \in Int
    BY <1>1, <1>2, ProductInt
  <1>4. Quotient(Denoised(a[x] + b[x]) * d, 2) \in Int
    BY <1>3, QuotientInt
  <1> QED BY <1>4 DEF Vectors

LEMMA DisplacedType ==
    ASSUME NEW p \in Vectors, NEW v \in Vectors, NEW d \in Durations
    PROVE  Displaced(p, v, d) \in Vectors
  <1> SUFFICES ASSUME NEW x \in Axes
               PROVE  p[x] + Quotient(v[x] * d, DownScale) \in Int
    BY DEF Displaced, Vectors
  <1>1. v[x] \in Int /\ d \in Int /\ p[x] \in Int
    BY TrackerAssumption DEF Vectors
  <1>2. v[x] * d \in Int
    BY <1>1, ProductInt
  <1>3. Quotient(v[x] * d, DownScale) \in Int
    BY <1>2, QuotientInt, TrackerAssumption
  <1> QED BY <1>1, <1>3

-----------------------------------------------------------------------------
(* The gate *)

LEMMA GateNextType ==
    ASSUME NEW g \in Gates, NEW over
    PROVE  NextState(g, over) \in Gates
  BY TrackerAssumption DEF Gates, NextState

-----------------------------------------------------------------------------
(* One sample *)

LEMMA LastSent ==
    ASSUME TrackerTypeOK, Len(sent) > 0
    PROVE  sent[Len(sent)] \in SentRecs
  <1>1. sent \in Seq(SentRecs)
    BY DEF TrackerTypeOK, SentRecs
  <1> HIDE DEF SentRecs
  <1> QED BY <1>1

LEMMA OpenEvent ==
    ASSUME TrackerTypeOK, event # << >>
    PROVE  event[1] \in EventRecs
  <1>1. event \in Seq(EventRecs)
    BY DEF TrackerTypeOK, EventRecs
  <1> HIDE DEF EventRecs
  <1>2. Len(event) \in Nat \ {0}
    BY <1>1, EmptySeq
  <1> QED BY <1>1, <1>2

LEMMA RecordStep ==
    ASSUME TrackerInv, NEW a \in [Axes -> Readings], NEW d \in Durations,
           now' = now + d, Record(a, d)
    PROVE  /\ velocity' \in Vectors /\ position' \in Vectors
           /\ event' \in Seq(EventRecs) /\ event' # << >>
           /\ sent' = sent
           /\ EventsChain' /\ ChainLinked'
  <1> DEFINE v == Velocity(IF event = << >> THEN Zero ELSE velocity, curr, a, d)
  <1>1. now \in Nat /\ now' \in Nat /\ now < now'
    BY TrackerAssumption DEF TrackerInv, TrackerTypeOK
  <1>2. v \in Vectors
    <2>1. Zero \in Vectors
      BY DEF Zero, Vectors
    <2> QED BY <2>1, VelocityType DEF TrackerInv, TrackerTypeOK
  <1>3. velocity' \in Vectors
    BY <1>2 DEF Record
  <1>4. position' \in Vectors
    <2>1. position \in Vectors
      BY DEF TrackerInv, TrackerTypeOK
    <2> QED BY <1>2, <2>1, DisplacedType DEF Record
  <1>5. event' \in Seq(EventRecs) /\ event' # << >>
    <2>1. CASE event = << >>
      <3>1. [from |-> position, started |-> now'] \in EventRecs
        BY <1>1 DEF EventRecs, TrackerInv, TrackerTypeOK
      <3> QED BY <2>1, <3>1 DEF Record
    <2>2. CASE event # << >>
      BY <2>2 DEF Record, TrackerInv, TrackerTypeOK, EventRecs
    <2> QED BY <2>1, <2>2
  <1>6. sent' = sent
    BY DEF Record
  <1>7. EventsChain'
    BY <1>6 DEF EventsChain, TrackerInv
  <1>8. ChainLinked'
    <2> SUFFICES ASSUME Len(sent) > 0
                 PROVE  /\ sent[Len(sent)].ended <= now'
                        /\ sent[Len(sent)].to = event'[1].from
                        /\ sent[Len(sent)].ended < event'[1].started
      BY <1>5, <1>6 DEF ChainLinked
    <2>1. sent[Len(sent)] \in SentRecs
      BY LastSent DEF TrackerInv
    <2>2. sent[Len(sent)].ended \in Nat /\ sent[Len(sent)].ended <= now
      BY <2>1 DEF SentRecs, TrackerInv, ChainLinked
    <2>3. CASE event = << >>
      <3>1. event'[1].from = position /\ event'[1].started = now'
        BY <2>3 DEF Record
      <3> QED BY <1>1, <2>2, <2>3, <3>1 DEF TrackerInv, ChainLinked
    <2>4. CASE event # << >>
      <3>1. event' = event
        BY <2>4 DEF Record
      <3> QED BY <1>1, <2>2, <2>4, <3>1 DEF TrackerInv, ChainLinked
    <2> QED BY <2>3, <2>4
  <1> QED BY <1>3, <1>4, <1>5, <1>6, <1>7, <1>8

LEMMA EndOfRecordStep ==
    ASSUME TrackerInv, event # << >>, NEW d \in Durations, now' = now + d, EndOfRecord
    PROVE  /\ velocity' = velocity /\ position' = position
           /\ event' = << >>
           /\ sent' \in Seq(SentRecs)
           /\ EventsChain' /\ ChainLinked'
  <1> DEFINE r == [from |-> event[1].from, to |-> position,
                   started |-> event[1].started, ended |-> now']
  <1>1. now \in Nat /\ now' \in Nat /\ now < now' /\ sent \in Seq(SentRecs)
    BY TrackerAssumption DEF TrackerInv, TrackerTypeOK, SentRecs
  <1>2. velocity' = velocity /\ position' = position /\ event' = << >>
    BY DEF EndOfRecord
  <1>3. event[1] \in EventRecs /\ position \in Vectors
    BY OpenEvent DEF TrackerInv, TrackerTypeOK
  <1>4. r \in SentRecs
    BY <1>1, <1>3 DEF SentRecs, EventRecs
  <1>5. /\ r.from = event[1].from /\ r.to = position
        /\ r.started = event[1].started /\ r.ended = now'
    OBVIOUS
  <1>6. CASE event[1].from # position
    <2>1. sent' = Append(sent, r)
      BY <1>6 DEF EndOfRecord
    <2> HIDE DEF r
    <2>2. /\ sent' \in Seq(SentRecs) /\ Len(sent') = Len(sent) + 1 /\ Len(sent) \in Nat
          /\ sent'[Len(sent) + 1] = r
          /\ \A i \in 1 .. Len(sent) : sent'[i] = sent[i]
      BY <1>1, <1>4, <2>1, AppendProperties
    <2>3. ChainLinked'
      BY <1>1, <1>2, <1>5, <2>2 DEF ChainLinked
    <2>4. EventsChain'
      <3> SUFFICES ASSUME NEW i \in 1 .. Len(sent') - 1
                   PROVE  /\ sent'[i + 1].from = sent'[i].to
                          /\ sent'[i].ended < sent'[i + 1].started
        BY DEF EventsChain
      <3>1. i \in 1 .. Len(sent) /\ sent'[i] = sent[i]
        BY <2>2
      <3>2. CASE i = Len(sent)
        BY <1>5, <2>2, <3>1, <3>2 DEF TrackerInv, ChainLinked
      <3>3. CASE i # Len(sent)
        <4>1. i \in 1 .. Len(sent) - 1 /\ sent'[i + 1] = sent[i + 1]
          BY <2>2, <3>1, <3>3
        <4> QED BY <3>1, <4>1 DEF TrackerInv, EventsChain
      <3> QED BY <3>2, <3>3
    <2> QED BY <1>2, <2>2, <2>3, <2>4
  <1>7. CASE event[1].from = position
    <2>1. sent' = sent
      BY <1>7 DEF EndOfRecord
    <2>2. EventsChain'
      BY <2>1 DEF EventsChain, TrackerInv
    <2>3. ChainLinked'
      <3> SUFFICES ASSUME Len(sent) > 0
                   PROVE  sent[Len(sent)].ended <= now' /\ sent[Len(sent)].to = position
        BY <1>2, <2>1 DEF ChainLinked
      <3>1. sent[Len(sent)] \in SentRecs
        BY <1>1
      <3>2. sent[Len(sent)].ended \in Nat
        BY <3>1 DEF SentRecs
      <3> QED BY <1>1, <1>7, <3>2 DEF TrackerInv, ChainLinked
    <2> QED BY <1>1, <1>2, <2>1, <2>2, <2>3
  <1> QED BY <1>6, <1>7

LEMMA ClosedStep ==
    ASSUME TrackerInv, NEW d \in Durations, now' = now + d,
           UNCHANGED <<velocity, position, event, sent>>
    PROVE  EventsChain' /\ ChainLinked'
  <1>1. now \in Nat /\ now' \in Nat /\ now < now'
    BY TrackerAssumption DEF TrackerInv, TrackerTypeOK
  <1>2. Len(sent) > 0 => sent[Len(sent)].ended <= now'
    <2> SUFFICES ASSUME Len(sent) > 0
                 PROVE  sent[Len(sent)].ended <= now'
      OBVIOUS
    <2>1. sent[Len(sent)] \in SentRecs
      BY LastSent DEF TrackerInv
    <2> QED BY <1>1, <2>1 DEF TrackerInv, ChainLinked, SentRecs
  <1> QED BY <1>2 DEF TrackerInv, EventsChain, ChainLinked

LEMMA SampleStep ==
    ASSUME TrackerInv, NEW a \in [Axes -> Readings], NEW d \in Durations,
           SampleCallback(a, d)
    PROVE  TrackerInv'
  <1>1. /\ now' = now + d /\ now \in Nat /\ now' \in Nat
        /\ curr' \in [Axes -> Readings]
    BY TrackerAssumption DEF SampleCallback, TrackerInv, TrackerTypeOK
  <1>2. gate' \in Gates
    BY GateNextType DEF SampleCallback, TrackerInv, TrackerTypeOK, Gates
  <1>3. call' = SinkCall(gate, gate')
    BY DEF SampleCallback
  <1>4. call' \in {"none", "record", "end"}
    BY <1>3 DEF SinkCall
  <1>5. velocity \in Vectors /\ position \in Vectors
        /\ event \in Seq(EventRecs) /\ sent \in Seq(SentRecs)
    BY DEF TrackerInv, TrackerTypeOK, EventRecs, SentRecs
  <1> USE DEF EventRecs, SentRecs
  <1>6. CASE call' = "record"
    <2>1. Record(a, d)
      BY <1>6 DEF SampleCallback
    <2>2. IsOpened(gate')
      BY <1>3, <1>6 DEF SinkCall
    <2>3. EventWhileOpen'
      BY <1>1, <2>1, <2>2, RecordStep DEF EventWhileOpen, IsOpened
    <2>4. EventsChain' /\ ChainLinked'
      BY <1>1, <2>1, RecordStep
    <2>5. TrackerTypeOK'
      BY <1>1, <1>2, <1>4, <1>5, <2>1, RecordStep DEF TrackerTypeOK, Gates
    <2> QED BY <2>3, <2>4, <2>5 DEF TrackerInv
  <1>7. CASE call' = "end"
    <2>1. EndOfRecord /\ ~IsOpened(gate') /\ IsOpened(gate)
      BY <1>3, <1>7 DEF SampleCallback, SinkCall
    <2>2. event # << >>
      BY <2>1 DEF TrackerInv, EventWhileOpen
    <2>3. EventWhileOpen'
      BY <1>1, <2>1, <2>2, EndOfRecordStep DEF EventWhileOpen, IsOpened
    <2>4. EventsChain' /\ ChainLinked'
      BY <1>1, <2>1, <2>2, EndOfRecordStep
    <2>5. TrackerTypeOK'
      <3>1. /\ velocity' \in Vectors /\ position' \in Vectors
            /\ event' = << >> /\ sent' \in Seq(SentRecs)
        BY <1>1, <1>5, <2>1, <2>2, EndOfRecordStep
      <3>2. event' \in Seq(EventRecs)
        BY <3>1
      <3> QED BY <1>1, <1>2, <1>4, <3>1, <3>2 DEF TrackerTypeOK, Gates
    <2> QED BY <2>3, <2>4, <2>5 DEF TrackerInv
  <1>8. CASE call' = "none"
    <2>1. UNCHANGED <<velocity, position, event, sent>>
      BY <1>8 DEF SampleCallback
    <2>2. ~IsOpened(gate') /\ ~IsOpened(gate)
      BY <1>3, <1>8 DEF SinkCall
    <2>3. EventWhileOpen'
      BY <2>1, <2>2 DEF EventWhileOpen, IsOpened, TrackerInv
    <2>4. EventsChain' /\ ChainLinked'
      BY <1>1, <2>1, ClosedStep
    <2>5. TrackerTypeOK'
      BY <1>1, <1>2, <1>4, <1>5, <2>1 DEF TrackerTypeOK, Gates
    <2> QED BY <2>3, <2>4, <2>5 DEF TrackerInv
  <1> QED BY <1>4, <1>6, <1>7, <1>8

LEMMA TrackerInvariant == Spec => []TrackerInv
  <1>1. Init => TrackerInv
    <2> SUFFICES ASSUME Init
                 PROVE  TrackerInv
      OBVIOUS
    <2>1. Zero \in Vectors
      BY DEF Zero, Vectors
    <2>2. TrackerTypeOK
      BY <2>1, TrackerAssumption DEF Init, TrackerTypeOK
    <2>3. EventWhileOpen
      BY DEF Init, EventWhileOpen, IsOpened
    <2> QED BY <2>2, <2>3 DEF Init, TrackerInv, EventsChain, ChainLinked
  <1>2. TrackerInv /\ [Next]_vars => TrackerInv'
    <2> SUFFICES ASSUME TrackerInv, [Next]_vars
                 PROVE  TrackerInv'
      OBVIOUS
    <2>1. CASE Next
      BY <2>1, SampleStep DEF Next
    <2>2. CASE UNCHANGED vars
      BY <2>2 DEF vars, TrackerInv, TrackerTypeOK, EventWhileOpen, IsOpened,
                  EventsChain, ChainLinked
    <2> QED BY <2>1, <2>2
  <1> QED BY <1>1, <1>2, PTL DEF Spec

-----------------------------------------------------------------------------
(* Results *)

(* The countdown of the gate never wraps and every variable keeps its type.  *)
THEOREM TrackerTypeCorrect == Spec => []TrackerTypeOK
  BY TrackerInvariant, PTL DEF TrackerInv

(* end_of_record() always finds the event of its motion: the error branch of *)
(* tracker_position.h is dead code.                                          *)
THEOREM TrackerRecordsWhileOpen == Spec => []EventWhileOpen
  BY TrackerInvariant, PTL DEF TrackerInv

(* Consecutive events join in space and do not overlap in time.              *)
THEOREM TrackerEventsChain == Spec => []EventsChain
  BY TrackerInvariant, PTL DEF TrackerInv

(* Every sample is a step of the contract both gates share.                  *)
THEOREM TrackerImplementsContract == Spec => ImplementsContract
  <1>1. Init => Contract!ContractInit
    BY TrackerAssumption DEF Init, Contract!ContractInit, Since
  <1>2. TrackerInv /\ [Next]_vars => [Contract!ContractNext]_(Contract!contractVars)
    <2> SUFFICES ASSUME TrackerInv, [Next]_vars
                 PROVE  [Contract!ContractNext]_(Contract!contractVars)
      OBVIOUS
    <2>1. ASSUME NEW a \in [Axes -> Readings], NEW d \in Durations, SampleCallback(a, d)
          PROVE  Contract!Sample(OverThreshold(a))
      <3>1. gate \in Gates /\ gate' = NextState(gate, OverThreshold(a))
            /\ call' = SinkCall(gate, gate')
        BY <2>1 DEF SampleCallback, TrackerInv, TrackerTypeOK, Gates
      <3> USE <3>1, TrackerAssumption
          DEF NextState, SinkCall, IsOpened, Gates, Since, Contract!Sample, Contract!Passing
      <3>2. CASE gate.state = "Opened"
        BY <3>2
      <3>3. CASE gate.state = "Closing"
        BY <3>3
      <3>4. CASE gate.state = "Closed"
        BY <3>4
      <3> QED BY <3>1, <3>2, <3>3, <3>4
    <2>2. ASSUME NEW a \in [Axes -> Readings]
          PROVE  OverThreshold(a) \in BOOLEAN
      BY DEF OverThreshold
    <2>3. CASE UNCHANGED vars
      BY <2>3 DEF vars, Contract!contractVars, Since
    <2> QED BY <2>1, <2>2, <2>3 DEF Next, Contract!ContractNext
  <1> QED BY <1>1, <1>2, TrackerInvariant, PTL
          DEF Spec, ImplementsContract, Contract!ContractSpec

-----------------------------------------------------------------------------
(* Arithmetic of the codec *)

LEMMA ProductMonotone ==
    ASSUME NEW a \in Int, NEW b \in Int, NEW c \in Nat, a <= b
    PROVE  c * a <= c * b
  <1>1. c * b = c * a + c * (b - a)
    OBVIOUS
  <1>2. c * (b - a) >= 0
    OBVIOUS
  <1> QED BY <1>1, <1>2

\* Division rounds down and leaves a rest.
LEMMA DivMod ==
    ASSUME NEW a \in Int, NEW b \in Nat \ {0}
    PROVE  /\ a \div b \in Int /\ a % b \in Nat /\ a % b < b
           /\ a = b * (a \div b) + (a % b)
  OBVIOUS

LEMMA DivModUnique ==
    ASSUME NEW a \in Int, NEW b \in Nat \ {0}, NEW q \in Int, NEW r \in Nat, r < b, a = b * q + r
    PROVE  a \div b = q /\ a % b = r
  <1> DEFINE p == a \div b
             s == a % b
  <1>1. p \in Int /\ s \in Nat /\ s < b /\ a = b * p + s
    BY DivMod
  <1> HIDE DEF p, s
  <1>2. b * p \in Int /\ b * q \in Int
    BY <1>1
  <1>3. ~(p < q)
    <2> SUFFICES ASSUME p < q PROVE FALSE
      OBVIOUS
    <2>1. p + 1 \in Int /\ p + 1 <= q
      BY <1>1
    <2>2. b * (p + 1) <= b * q
      BY <2>1, ProductMonotone
    <2>3. b * (p + 1) = b * p + b
      BY <1>1
    <2> QED BY <1>1, <1>2, <2>2, <2>3
  <1>4. ~(q < p)
    <2> SUFFICES ASSUME q < p PROVE FALSE
      OBVIOUS
    <2>1. q + 1 \in Int /\ q + 1 <= p
      BY <1>1
    <2>2. b * (q + 1) <= b * p
      BY <1>1, <2>1, ProductMonotone
    <2>3. b * (q + 1) = b * q + b
      OBVIOUS
    <2> QED BY <1>1, <1>2, <2>2, <2>3
  <1>5. p = q
    BY <1>1, <1>3, <1>4
  <1>6. s = r
    BY <1>1, <1>2, <1>5
  <1> QED BY <1>5, <1>6 DEF p, s

\* Dividing twice, and putting the rests together again.
LEMMA DivDiv ==
    ASSUME NEW a \in Int, NEW b \in Nat \ {0}, NEW c \in Nat \ {0}
    PROVE  /\ b * c \in Nat \ {0}
           /\ a \div (b * c) = (a \div b) \div c
           /\ a % (b * c) = (a % b) + b * ((a \div b) % c)
  <1> DEFINE p == a \div b
             r == a % b
             q == p \div c
             s == p % c
  <1>1. p \in Int /\ r \in Nat /\ r < b /\ a = b * p + r
    BY DivMod
  <1> HIDE DEF p, r
  <1>2. q \in Int /\ s \in Nat /\ s < c /\ p = c * q + s
    BY <1>1, DivMod
  <1> HIDE DEF q, s
  <1>3. b * c \in Nat \ {0} /\ b * s \in Nat /\ c * q \in Int
    BY <1>2
  <1>4. r + b * s < b * c
    <2>1. s + 1 \in Int /\ s + 1 <= c
      BY <1>2
    <2>2. b * (s + 1) <= b * c
      BY <2>1, ProductMonotone
    <2>3. b * (s + 1) = b * s + b
      BY <1>2
    <2> QED BY <1>1, <1>3, <2>2, <2>3
  <1>5. a = (b * c) * q + (r + b * s)
    <2>1. a = b * (c * q + s) + r
      BY <1>1, <1>2
    <2>2. b * (c * q + s) = b * (c * q) + b * s
      BY <1>2, <1>3
    <2>3. b * (c * q) = (b * c) * q
      BY <1>2
    <2> QED BY <1>1, <1>2, <1>3, <2>1, <2>2, <2>3
  <1>6. r + b * s \in Nat
    BY <1>1, <1>3
  <1>7. a \div (b * c) = q /\ a % (b * c) = r + b * s
    BY <1>2, <1>3, <1>4, <1>5, <1>6, DivModUnique
  <1> QED BY <1>3, <1>7 DEF p, q, r, s

\* The lowest digit in base b and the others.
Split(a, b, c, m, q) == m = b * c /\ q = a \div b

LEMMA LowestDigit ==
    ASSUME NEW a \in Int, NEW b \in Nat \ {0}, NEW c \in Nat \ {0}, NEW m, NEW q, Split(a, b, c, m, q)
    PROVE  a % m = (a % b) + b * (q % c)
  BY DivDiv DEF Split

LEMMA Bases ==
    /\ ByteBase \in Nat \ {0, 1} /\ WordBase \in Nat \ {0, 1}
    /\ WordBase * WordBase \in Nat /\ 2 * WordBase <= WordBase * WordBase
  <1>1. ByteBase \in Nat \ {0, 1}
    BY StampAssumption
  <1> DEFINE b == ByteBase
             c == b * b
  <1> HIDE DEF b
  <1>2. b \in Nat \ {0, 1}
    BY <1>1 DEF b
  <1>3. b * b \in Nat /\ b * 2 <= b * b
    BY <1>2, ProductMonotone
  <1>4. c \in Nat \ {0, 1}
    BY <1>2, <1>3
  <1>5. WordBase = c * c
    <2>1. WordBase = ((b * b) * b) * b
      BY DEF WordBase, b
    <2>2. ((b * b) * b) * b = (b * b) * (b * b)
      BY <1>2
    <2> QED BY <2>1, <2>2
  <1> HIDE DEF c
  <1>6. c * c \in Nat /\ c * 2 <= c * c
    BY <1>4, ProductMonotone
  <1>7. WordBase \in Nat \ {0, 1}
    BY <1>4, <1>5, <1>6
  <1>8. WordBase * WordBase \in Nat /\ WordBase * 2 <= WordBase * WordBase
    BY <1>7, ProductMonotone
  <1>9. WordBase * 2 = 2 * WordBase
    BY <1>7
  <1> QED BY <1>1, <1>7, <1>8, <1>9

\* Four bytes hold a number modulo WordBase.
LEMMA Little4Value ==
    ASSUME NEW n \in Int, NEW s, s = Little4(n)
    PROVE  s \in Seq(Int) /\ Len(s) = 4 /\ U32(s, 0) = n % WordBase
  <1> DEFINE b == ByteBase
             q1 == n \div b
             q2 == q1 \div b
             q3 == q2 \div b
  <1>0. s = <<n % b, q1 % b, (n \div (b * b)) % b, (n \div (b * b * b)) % b>>
    BY DEF Little4
  <1>1. WordBase = b * b * b * b
    BY DEF WordBase
  <1>2. b \in Nat \ {0}
    BY Bases
  <1> HIDE DEF b
  <1>3. q1 \in Int /\ n % b \in Int
    BY <1>2, DivMod
  <1> HIDE DEF q1
  <1>4. q2 \in Int /\ q1 % b \in Int
    BY <1>2, <1>3, DivMod
  <1> HIDE DEF q2
  <1>5. q3 \in Int /\ q2 % b \in Int
    BY <1>2, <1>4, DivMod
  <1> HIDE DEF q3
  <1>6. q3 % b \in Int
    BY <1>2, <1>5, DivMod
  <1> DEFINE b2 == b * b
             b3 == b * b2
             b4 == b * b3
  <1>7. b2 \in Nat \ {0} /\ n \div b2 = q2
    BY <1>2, DivDiv DEF q2, q1
  <1> HIDE DEF b2
  <1>8. b3 \in Nat \ {0} /\ n \div ((b * b) * b) = q3
    <2>1. b3 \in Nat \ {0}
      BY <1>2, <1>7
    <2>2. n \div (b2 * b) = (n \div b2) \div b
      <3>1. b2 \in Nat \ {0} /\ b \in Nat \ {0} /\ n \in Int
        BY <1>2, <1>7
      <3> QED BY ONLY ZenonT(40), <3>1, DivDiv
    <2> QED BY <1>7, <2>1, <2>2 DEF q3, b2
  <1> HIDE DEF b3
  <1>9. WordBase = b4
    BY <1>1, <1>2 DEF b2, b3
  <1> HIDE DEF b4
  <1>10. n % WordBase = (n % b) + b * ((q1 % b) + b * ((q2 % b) + b * (q3 % b)))
    <2>1. q2 % b2 = (q2 % b) + b * (q3 % b)
      <3>1. Split(q2, b, b, b2, q3)
        BY DEF b2, q3, Split
      <3> QED BY <1>2, <1>4, <3>1, LowestDigit
    <2>2. q1 % b3 = (q1 % b) + b * (q2 % b2)
      <3>1. Split(q1, b, b2, b3, q2)
        BY DEF b3, q2, Split
      <3> QED BY <1>2, <1>3, <1>7, <3>1, LowestDigit
    <2>3. n % b4 = (n % b) + b * (q1 % b3)
      <3>1. Split(n, b, b3, b4, q1)
        BY DEF b4, q1, Split
      <3> QED BY <1>2, <1>8, <3>1, LowestDigit
    <2> QED BY <1>9, <2>1, <2>2, <2>3
  <1>11. s = <<n % b, q1 % b, q2 % b, q3 % b>>
    BY <1>0, <1>7, <1>8 DEF b2
  <1>12. s \in Seq(Int) /\ Len(s) = 4
    BY <1>3, <1>4, <1>5, <1>6, <1>11
  <1>13. U32(s, 0) = s[1] + b * (s[2] + b * (s[3] + b * s[4]))
    BY DEF U32, b
  <1>14. U32(s, 0) = (n % b) + b * ((q1 % b) + b * ((q2 % b) + b * (q3 % b)))
    BY <1>11, <1>13
  <1> QED BY <1>10, <1>12, <1>14

\* A word is read where it was written.
Extends(u, s, t) ==
    /\ u \in Seq(Int) /\ Len(u) = Len(s) + Len(t)
    /\ \A at \in Nat : at + 4 <= Len(s) => U32(u, at) = U32(s, at)
    /\ \A at \in Nat : at + 4 <= Len(t) => U32(u, Len(s) + at) = U32(t, at)

LEMMA WordsConcat ==
    ASSUME NEW s \in Seq(Int), NEW t \in Seq(Int), NEW u, u = s \o t
    PROVE  Extends(u, s, t)
  <1>1. /\ u \in Seq(Int) /\ Len(u) = Len(s) + Len(t) /\ Len(s) \in Nat /\ Len(t) \in Nat
        /\ \A i \in 1 .. Len(s) + Len(t) : u[i] = IF i <= Len(s) THEN s[i] ELSE t[i - Len(s)]
    BY ConcatProperties, LenProperties
  <1>2. ASSUME NEW at \in Nat, at + 4 <= Len(s) PROVE U32(u, at) = U32(s, at)
    <2>1. /\ u[at + 1] = s[at + 1] /\ u[at + 2] = s[at + 2]
          /\ u[at + 3] = s[at + 3] /\ u[at + 4] = s[at + 4]
      BY <1>1, <1>2
    <2> QED BY <2>1 DEF U32
  <1>3. ASSUME NEW at \in Nat, at + 4 <= Len(t) PROVE U32(u, Len(s) + at) = U32(t, at)
    <2> DEFINE n == Len(s)
    <2> HIDE DEF n
    <2>1. n \in Nat /\ \A i \in 1 .. Len(t) : u[n + i] = t[i]
      <3>1. ASSUME NEW i \in 1 .. Len(t) PROVE u[n + i] = t[i]
        <4>1. n + i \in 1 .. n + Len(t) /\ ~(n + i <= n) /\ (n + i) - n = i /\ n \in Nat
          BY <1>1 DEF n
        <4> QED BY <1>1, <4>1 DEF n
      <3> QED BY <1>1, <3>1 DEF n
    <2>2. /\ (n + at) + 1 = n + (at + 1) /\ (n + at) + 2 = n + (at + 2)
          /\ (n + at) + 3 = n + (at + 3) /\ (n + at) + 4 = n + (at + 4)
      BY <2>1
    <2>3. at + 1 \in 1 .. Len(t) /\ at + 2 \in 1 .. Len(t) /\ at + 3 \in 1 .. Len(t) /\ at + 4 \in 1 .. Len(t)
      BY <1>1, <1>3
    <2>4. /\ u[(n + at) + 1] = t[at + 1] /\ u[(n + at) + 2] = t[at + 2]
          /\ u[(n + at) + 3] = t[at + 3] /\ u[(n + at) + 4] = t[at + 4]
      BY <2>1, <2>2, <2>3
    <2> QED BY <2>4 DEF U32, n
  <1> QED BY <1>1, <1>2, <1>3 DEF Extends

\* Eight bytes hold a number modulo WordBase * WordBase.
LEMMA Little8Value ==
    ASSUME NEW n \in Int, NEW s, s = Little8(n)
    PROVE  /\ s \in Seq(Int) /\ Len(s) = 8
           /\ U32(s, 0) + WordBase * U32(s, 4) = n % (WordBase * WordBase)
  <1> DEFINE lo == Little4(n)
             hi == Little4(n \div WordBase)
  <1>1. WordBase \in Nat \ {0} /\ n \div WordBase \in Int
    BY Bases, DivMod
  <1>2. lo \in Seq(Int) /\ Len(lo) = 4 /\ U32(lo, 0) = n % WordBase
    BY Little4Value
  <1>3. hi \in Seq(Int) /\ Len(hi) = 4 /\ U32(hi, 0) = (n \div WordBase) % WordBase
    BY <1>1, Little4Value
  <1>4. s = lo \o hi
    BY DEF Little8
  <1> HIDE DEF lo, hi
  <1>5. /\ s \in Seq(Int) /\ Len(s) = 8
        /\ \A at \in Nat : at + 4 <= 4 => U32(s, at) = U32(lo, at)
        /\ \A at \in Nat : at + 4 <= 4 => U32(s, 4 + at) = U32(hi, at)
    <2>1. Extends(s, lo, hi)
      BY <1>2, <1>3, <1>4, WordsConcat
    <2> QED BY <1>2, <1>3, <2>1 DEF Extends
  <1>6. U32(s, 0) = n % WordBase /\ U32(s, 4 + 0) = (n \div WordBase) % WordBase
    BY <1>2, <1>3, <1>5
  <1>7. n % (WordBase * WordBase) = (n % WordBase) + WordBase * ((n \div WordBase) % WordBase)
    BY <1>1, DivDiv
  <1>8. 4 + 0 = 4
    OBVIOUS
  <1> QED BY <1>5, <1>6, <1>7, <1>8

LEMMA SmallRest ==
    ASSUME NEW n \in Nat, NEW base \in Nat \ {0}, n < base
    PROVE  n % base = n
  <1>1. n = base * 0 + n
    OBVIOUS
  <1> QED BY <1>1, DivModUnique

\* Two's complement.
LEMMA SignedValue ==
    ASSUME NEW n \in Int, NEW base \in Nat \ {0}, 0 - base <= 2 * n, 2 * n < base
    PROVE  Signed(n % base, base) = n
  <1>1. CASE n >= 0
    <2>1. n % base = n
      BY <1>1, SmallRest
    <2> QED BY <1>1, <2>1 DEF Signed
  <1>2. CASE n < 0
    <2>1. n + base \in Nat /\ n + base < base
      BY <1>2
    <2>2. n = base * (-1) + (n + base)
      OBVIOUS
    <2>3. n % base = n + base
      BY <2>1, <2>2, DivModUnique
    <2>4. 2 * (n + base) >= base /\ (n + base) - base = n
      OBVIOUS
    <2> QED BY <2>3, <2>4 DEF Signed
  <1> QED BY <1>1, <1>2

\* The words of a vector.
LEMMA Little4AllValue ==
    ASSUME NEW v \in Vectors, NEW s, s = Little4All(v)
    PROVE  /\ s \in Seq(Int) /\ Len(s) = 4 * Dimensions
           /\ \A x \in Axes : U32(s, 4 * x) = v[x] % WordBase
  <1> DEFINE n == 4 * Dimensions
             w(k) == Little4(v[(k - 1) \div 4])[((k - 1) % 4) + 1]
  <1>1. n \in Nat /\ Dimensions \in Nat /\ Axes = 0 .. Dimensions - 1
    BY StampAssumption
  <1>2. ASSUME NEW m \in Int PROVE Little4(m) \in Seq(Int) /\ Len(Little4(m)) = 4
                                   /\ U32(Little4(m), 0) = m % WordBase
    BY Little4Value
  <1>3. ASSUME NEW k \in 1 .. n PROVE w(k) \in Int
    <2>1. (k - 1) \div 4 \in 0 .. Dimensions - 1 /\ ((k - 1) % 4) + 1 \in 1 .. 4
      BY <1>1
    <2>2. v[(k - 1) \div 4] \in Int
      BY <1>1, <2>1 DEF Vectors
    <2>3. Little4(v[(k - 1) \div 4]) \in Seq(Int) /\ Len(Little4(v[(k - 1) \div 4])) = 4
      BY <1>2, <2>2
    <2> QED BY <2>1, <2>3, ElementOfSeq
  <1>4. s = [k \in 1 .. n |-> w(k)]
    BY DEF Little4All
  <1>5. ASSUME NEW x \in Axes
        PROVE  /\ w(4 * x + 1) = Little4(v[x])[1] /\ w(4 * x + 2) = Little4(v[x])[2]
               /\ w(4 * x + 3) = Little4(v[x])[3] /\ w(4 * x + 4) = Little4(v[x])[4]
    <2>1. x \in Nat
      BY <1>1
    <2>2. /\ ((4 * x + 1) - 1) \div 4 = x /\ (((4 * x + 1) - 1) % 4) + 1 = 1
          /\ ((4 * x + 2) - 1) \div 4 = x /\ (((4 * x + 2) - 1) % 4) + 1 = 2
          /\ ((4 * x + 3) - 1) \div 4 = x /\ (((4 * x + 3) - 1) % 4) + 1 = 3
          /\ ((4 * x + 4) - 1) \div 4 = x /\ (((4 * x + 4) - 1) % 4) + 1 = 4
      BY <2>1
    <2> QED BY <2>2
  <1> HIDE DEF w, n
  <1>6. s \in Seq(Int) /\ Len(s) = n
    BY <1>1, <1>3, <1>4, IsASeq
  <1>7. ASSUME NEW x \in Axes PROVE U32(s, 4 * x) = v[x] % WordBase
    <2>1. /\ 4 * x + 1 \in 1 .. n /\ 4 * x + 2 \in 1 .. n
          /\ 4 * x + 3 \in 1 .. n /\ 4 * x + 4 \in 1 .. n
      BY <1>1 DEF n
    <2>2. /\ s[4 * x + 1] = Little4(v[x])[1] /\ s[4 * x + 2] = Little4(v[x])[2]
          /\ s[4 * x + 3] = Little4(v[x])[3] /\ s[4 * x + 4] = Little4(v[x])[4]
      BY <1>4, <1>5, <2>1
    <2>3. v[x] \in Int
      BY DEF Vectors
    <2>4. U32(s, 4 * x) = U32(Little4(v[x]), 0)
      BY <2>2 DEF U32
    <2> QED BY <1>2, <2>3, <2>4
  <1> QED BY <1>6, <1>7 DEF n

\* The fields of an encoded event, where Decode looks for them.
LEMMA Fields ==
    ASSUME NEW e \in SentRecs, NEW clock \in Nat, NEW buf, buf = Encode(e, clock)
    PROVE  /\ U64(buf, 0) = Secret % (WordBase * WordBase)
           /\ U64(buf, 8) = Secs(e.started, clock) % (WordBase * WordBase)
           /\ U32(buf, 16) = Nsecs(e.started) % WordBase
           /\ U64(buf, 20) = Secs(e.ended, clock) % (WordBase * WordBase)
           /\ U32(buf, 28) = Nsecs(e.ended) % WordBase
           /\ U32(buf, 32) = PositionKind % WordBase
           /\ \A x \in Axes : U32(buf, 36 + 4 * x) = e.from[x] % WordBase
           /\ \A x \in Axes : U32(buf, (36 + 4 * Dimensions) + 4 * x) = e.to[x] % WordBase
  <1> DEFINE s1 == Little8(Secret)
             s2 == Little8(Secs(e.started, clock))
             s3 == Little4(Nsecs(e.started))
             s4 == Little8(Secs(e.ended, clock))
             s5 == Little4(Nsecs(e.ended))
             s6 == Little4(PositionKind)
             s7 == Little4All(e.from)
             s8 == Little4All(e.to)
             p2 == s1 \o s2
             p3 == p2 \o s3
             p4 == p3 \o s4
             p5 == p4 \o s5
             p6 == p5 \o s6
             p7 == p6 \o s7
  <1>0. buf = p7 \o s8
    BY DEF Encode
  <1>1. /\ e.started \in Nat /\ e.ended \in Nat /\ e.from \in Vectors /\ e.to \in Vectors
    BY DEF SentRecs
  <1>2. /\ Secret \in Int /\ PositionKind \in Int
        /\ Secs(e.started, clock) \in Int /\ Secs(e.ended, clock) \in Int
        /\ Nsecs(e.started) \in Int /\ Nsecs(e.ended) \in Int
    <2>1. Secret \in Int /\ PositionKind \in Int
      BY StampAssumption, Bases DEF PositionKind
    <2>2. ASSUME NEW t \in Nat PROVE Secs(t, clock) \in Int /\ Nsecs(t) \in Int
      <3>1. t \div Second \in Int /\ t % Second \in Nat
        BY StampAssumption, DivMod
      <3>2. (t % Second) * NanosPerUnit \in Int
        BY <3>1, StampAssumption, ProductInt
      <3> QED BY <3>1, <3>2 DEF Secs, Nsecs
    <2> QED BY <1>1, <2>1, <2>2
  <1>3. /\ s1 \in Seq(Int) /\ Len(s1) = 8
        /\ U32(s1, 0) + WordBase * U32(s1, 4) = Secret % (WordBase * WordBase)
    BY <1>2, Little8Value
  <1>4. /\ s2 \in Seq(Int) /\ Len(s2) = 8
        /\ U32(s2, 0) + WordBase * U32(s2, 4) = Secs(e.started, clock) % (WordBase * WordBase)
    BY <1>2, Little8Value
  <1>5. s3 \in Seq(Int) /\ Len(s3) = 4 /\ U32(s3, 0) = Nsecs(e.started) % WordBase
    BY <1>2, Little4Value
  <1>6. /\ s4 \in Seq(Int) /\ Len(s4) = 8
        /\ U32(s4, 0) + WordBase * U32(s4, 4) = Secs(e.ended, clock) % (WordBase * WordBase)
    BY <1>2, Little8Value
  <1>7. s5 \in Seq(Int) /\ Len(s5) = 4 /\ U32(s5, 0) = Nsecs(e.ended) % WordBase
    BY <1>2, Little4Value
  <1>8. s6 \in Seq(Int) /\ Len(s6) = 4 /\ U32(s6, 0) = PositionKind % WordBase
    BY <1>2, Little4Value
  <1>9. /\ s7 \in Seq(Int) /\ Len(s7) = 4 * Dimensions
        /\ \A x \in Axes : U32(s7, 4 * x) = e.from[x] % WordBase
    BY <1>1, Little4AllValue
  <1>10. /\ s8 \in Seq(Int) /\ Len(s8) = 4 * Dimensions
         /\ \A x \in Axes : U32(s8, 4 * x) = e.to[x] % WordBase
    BY <1>1, Little4AllValue
  <1> HIDE DEF s1, s2, s3, s4, s5, s6, s7, s8
  <1>s. /\ s1 \in Seq(Int) /\ Len(s1) = 8 /\ s2 \in Seq(Int) /\ Len(s2) = 8
        /\ s3 \in Seq(Int) /\ Len(s3) = 4 /\ s4 \in Seq(Int) /\ Len(s4) = 8
        /\ s5 \in Seq(Int) /\ Len(s5) = 4 /\ s6 \in Seq(Int) /\ Len(s6) = 4
        /\ s7 \in Seq(Int) /\ Len(s7) = 4 * Dimensions
        /\ s8 \in Seq(Int) /\ Len(s8) = 4 * Dimensions
    BY <1>3, <1>4, <1>5, <1>6, <1>7, <1>8, <1>9, <1>10
  <1>p. /\ p2 = s1 \o s2 /\ p3 = p2 \o s3 /\ p4 = p3 \o s4 /\ p5 = p4 \o s5
        /\ p6 = p5 \o s6 /\ p7 = p6 \o s7 /\ buf = p7 \o s8
    BY <1>0
  <1> HIDE DEF p2, p3, p4, p5, p6, p7
  <1>11. /\ p2 \in Seq(Int) /\ Len(p2) = 16
         /\ \A at \in Nat : at + 4 <= 8 => U32(p2, at) = U32(s1, at)
         /\ U32(p2, 8) = U32(s2, 0) /\ U32(p2, 12) = U32(s2, 4)
    <2>1. Extends(p2, s1, s2) /\ Len(s1) = 8 /\ Len(s2) = 8
      BY <1>s, <1>p, WordsConcat
    <2>2. /\ p2 \in Seq(Int) /\ Len(p2) = 16
          /\ \A at \in Nat : at + 4 <= 8 => U32(p2, at) = U32(s1, at)
          /\ \A at \in Nat : at + 4 <= 8 => U32(p2, 8 + at) = U32(s2, at)
      BY <2>1 DEF Extends
    <2> QED BY <2>2
  <1>12. /\ p3 \in Seq(Int) /\ Len(p3) = 20
         /\ \A at \in Nat : at + 4 <= 16 => U32(p3, at) = U32(p2, at)
         /\ U32(p3, 16) = U32(s3, 0)
    <2>1. Extends(p3, p2, s3) /\ Len(p2) = 16 /\ Len(s3) = 4
      BY <1>s, <1>p, <1>11, WordsConcat
    <2>2. /\ p3 \in Seq(Int) /\ Len(p3) = 20
          /\ \A at \in Nat : at + 4 <= 16 => U32(p3, at) = U32(p2, at)
          /\ \A at \in Nat : at + 4 <= 4 => U32(p3, 16 + at) = U32(s3, at)
      BY <2>1 DEF Extends
    <2> QED BY <2>2
  <1>13. /\ p4 \in Seq(Int) /\ Len(p4) = 28
         /\ \A at \in Nat : at + 4 <= 20 => U32(p4, at) = U32(p3, at)
         /\ U32(p4, 20) = U32(s4, 0) /\ U32(p4, 24) = U32(s4, 4)
    <2>1. Extends(p4, p3, s4) /\ Len(p3) = 20 /\ Len(s4) = 8
      BY <1>s, <1>p, <1>12, WordsConcat
    <2>2. /\ p4 \in Seq(Int) /\ Len(p4) = 28
          /\ \A at \in Nat : at + 4 <= 20 => U32(p4, at) = U32(p3, at)
          /\ \A at \in Nat : at + 4 <= 8 => U32(p4, 20 + at) = U32(s4, at)
      BY <2>1 DEF Extends
    <2> QED BY <2>2
  <1>14. /\ p5 \in Seq(Int) /\ Len(p5) = 32
         /\ \A at \in Nat : at + 4 <= 28 => U32(p5, at) = U32(p4, at)
         /\ U32(p5, 28) = U32(s5, 0)
    <2>1. Extends(p5, p4, s5) /\ Len(p4) = 28 /\ Len(s5) = 4
      BY <1>s, <1>p, <1>13, WordsConcat
    <2>2. /\ p5 \in Seq(Int) /\ Len(p5) = 32
          /\ \A at \in Nat : at + 4 <= 28 => U32(p5, at) = U32(p4, at)
          /\ \A at \in Nat : at + 4 <= 4 => U32(p5, 28 + at) = U32(s5, at)
      BY <2>1 DEF Extends
    <2> QED BY <2>2
  <1>15. /\ p6 \in Seq(Int) /\ Len(p6) = 36
         /\ \A at \in Nat : at + 4 <= 32 => U32(p6, at) = U32(p5, at)
         /\ U32(p6, 32) = U32(s6, 0)
    <2>1. Extends(p6, p5, s6) /\ Len(p5) = 32 /\ Len(s6) = 4
      BY <1>s, <1>p, <1>14, WordsConcat
    <2>2. /\ p6 \in Seq(Int) /\ Len(p6) = 36
          /\ \A at \in Nat : at + 4 <= 32 => U32(p6, at) = U32(p5, at)
          /\ \A at \in Nat : at + 4 <= 4 => U32(p6, 32 + at) = U32(s6, at)
      BY <2>1 DEF Extends
    <2> QED BY <2>2
  <1>16. /\ p7 \in Seq(Int) /\ Len(p7) = 36 + 4 * Dimensions
         /\ \A at \in Nat : at + 4 <= 36 => U32(p7, at) = U32(p6, at)
         /\ \A at \in Nat : at + 4 <= 4 * Dimensions => U32(p7, 36 + at) = U32(s7, at)
    <2>1. Extends(p7, p6, s7) /\ Len(p6) = 36 /\ Len(s7) = 4 * Dimensions
      BY <1>s, <1>p, <1>15, WordsConcat
    <2> QED BY <2>1 DEF Extends
  <1>17. /\ \A at \in Nat : at + 4 <= 36 + 4 * Dimensions => U32(buf, at) = U32(p7, at)
         /\ \A at \in Nat : at + 4 <= 4 * Dimensions =>
               U32(buf, (36 + 4 * Dimensions) + at) = U32(s8, at)
    <2>1. Extends(buf, p7, s8) /\ Len(p7) = 36 + 4 * Dimensions /\ Len(s8) = 4 * Dimensions
      BY <1>s, <1>p, <1>16, WordsConcat
    <2> QED BY <2>1 DEF Extends
  <1>18. Dimensions \in Nat \ {0} /\ Axes = 0 .. Dimensions - 1
    BY StampAssumption
  <1>19. \A at \in 0 .. 32 : U32(buf, at) = U32(p6, at)
    BY <1>16, <1>17, <1>18
  <1>20. ASSUME NEW at \in 0 .. 28 PROVE U32(buf, at) = U32(p5, at)
    <2>1. U32(buf, at) = U32(p6, at)
      BY <1>19
    <2>2. U32(p6, at) = U32(p5, at)
      BY <1>15
    <2> QED BY <2>1, <2>2
  <1>21. ASSUME NEW at \in 0 .. 24 PROVE U32(buf, at) = U32(p4, at)
    <2>1. U32(buf, at) = U32(p5, at)
      BY <1>20
    <2>2. U32(p5, at) = U32(p4, at)
      BY <1>14
    <2> QED BY <2>1, <2>2
  <1>22. ASSUME NEW at \in 0 .. 16 PROVE U32(buf, at) = U32(p3, at)
    <2>1. U32(buf, at) = U32(p4, at)
      BY <1>21
    <2>2. U32(p4, at) = U32(p3, at)
      BY <1>13
    <2> QED BY <2>1, <2>2
  <1>23. \A at \in 0 .. 12 : U32(buf, at) = U32(p2, at)
    BY <1>12, <1>22
  <1>24. \A at \in 0 .. 4 : U32(buf, at) = U32(s1, at)
    BY <1>11, <1>23
  <1>25. U32(buf, 0) = U32(s1, 0) /\ U32(buf, 4) = U32(s1, 4)
    BY <1>24
  <1>26. U32(buf, 8) = U32(s2, 0) /\ U32(buf, 12) = U32(s2, 4)
    BY <1>11, <1>23
  <1>27. U32(buf, 16) = U32(s3, 0)
    BY <1>12, <1>22
  <1>28. U32(buf, 20) = U32(s4, 0) /\ U32(buf, 24) = U32(s4, 4)
    BY <1>13, <1>21
  <1>29. U32(buf, 28) = U32(s5, 0)
    BY <1>14, <1>20
  <1>30. U32(buf, 32) = U32(s6, 0)
    BY <1>15, <1>19
  <1>31. ASSUME NEW x \in Axes PROVE U32(buf, 36 + 4 * x) = e.from[x] % WordBase
    <2>1. 4 * x \in Nat /\ 4 * x + 4 <= 4 * Dimensions /\ 36 + 4 * x \in Nat
      BY <1>18
    <2>2. U32(p7, 36 + 4 * x) = U32(s7, 4 * x)
      BY <1>16, <2>1
    <2>3. (36 + 4 * x) + 4 <= 36 + 4 * Dimensions
      BY <1>18
    <2>4. U32(buf, 36 + 4 * x) = U32(p7, 36 + 4 * x)
      BY <1>17, <2>1, <2>3
    <2> QED BY <1>9, <2>2, <2>4
  <1>32. ASSUME NEW x \in Axes PROVE U32(buf, (36 + 4 * Dimensions) + 4 * x) = e.to[x] % WordBase
    <2>1. 4 * x \in Nat /\ 4 * x + 4 <= 4 * Dimensions
      BY <1>18
    <2>2. U32(buf, (36 + 4 * Dimensions) + 4 * x) = U32(s8, 4 * x)
      BY <1>17, <2>1
    <2> QED BY <1>10, <2>2
  <1>33. U64(buf, 0) = Secret % (WordBase * WordBase)
    BY <1>3, <1>25 DEF U64
  <1>34. U64(buf, 8) = Secs(e.started, clock) % (WordBase * WordBase)
    BY <1>4, <1>26 DEF U64
  <1>35. U64(buf, 20) = Secs(e.ended, clock) % (WordBase * WordBase)
    BY <1>6, <1>28 DEF U64
  <1> QED BY <1>5, <1>7, <1>8, <1>27, <1>29, <1>30, <1>31, <1>32, <1>33, <1>34, <1>35

\* Whole seconds and the rest.
LEMMA WholeSeconds ==
    ASSUME NEW t \in Nat
    PROVE  /\ t \div Second \in Nat /\ t % Second \in Nat /\ t % Second < Second
           /\ t = Second * (t \div Second) + (t % Second)
  <1>1. Second \in Nat \ {0} /\ t \in Int
    BY StampAssumption
  <1> DEFINE q == t \div Second
             r == t % Second
  <1>2. q \in Nat
    BY <1>1
  <1>3. r \in Nat /\ r < Second /\ t = Second * q + r
    BY <1>1, DivMod
  <1> QED BY <1>2, <1>3

\* The rest of a second in nanoseconds.
LEMMA NsecsBound ==
    ASSUME NEW t \in Nat
    PROVE  /\ Nsecs(t) \in Nat /\ Nsecs(t) < WordBase
           /\ Nsecs(t) \div NanosPerUnit = t % Second
  <1>1. Second \in Nat \ {0} /\ NanosPerUnit \in Nat \ {0} /\ Second * NanosPerUnit < WordBase
    BY StampAssumption
  <1> DEFINE r == t % Second
             n == NanosPerUnit
  <1>2. r \in Nat /\ r < Second
    BY <1>1, DivMod
  <1>3. Nsecs(t) = r * n
    BY DEF Nsecs
  <1> HIDE DEF r, n
  <1>4. n \in Nat \ {0} /\ Second * n < WordBase
    BY <1>1 DEF n
  <1>5. n * r <= n * Second /\ n * r = r * n /\ n * Second = Second * n /\ r * n \in Nat
    BY <1>1, <1>2, <1>4, ProductMonotone
  <1>6. r * n < WordBase
    <2>1. n * Second \in Nat /\ WordBase \in Nat
      BY <1>1, <1>4, Bases
    <2> QED BY <1>4, <1>5, <2>1
  <1>7. (r * n) \div n = r
    <2>1. r * n = n * r + 0
      BY <1>2, <1>4
    <2> QED BY <1>2, <1>4, <1>5, <2>1, DivModUnique
  <1> QED BY <1>3, <1>5, <1>6, <1>7 DEF r, n

\* A clock is unset, or it is the time of a synchronisation.
IsClock(c) == c = 0 \/ \E t \in 0 .. MaxTime : c = (StartTime + t) \div Second

LEMMA ClockFacts ==
    ASSUME NEW c, IsClock(c)
    PROVE  c \in Nat /\ Second * c <= StartTime + MaxTime /\ (c # 0 => c >= MinuteSeconds)
  <1>1. /\ Second \in Nat \ {0} /\ StartTime \in Nat /\ MaxTime \in Nat /\ MinuteSeconds \in Nat
        /\ StartTime > MinuteSeconds * Second
    BY StampAssumption, TrackerAssumption
  <1>2. CASE c = 0
    BY <1>1, <1>2
  <1>3. CASE c # 0
    <2>1. PICK t \in 0 .. MaxTime : c = (StartTime + t) \div Second
      BY <1>3 DEF IsClock
    <2> DEFINE r == (StartTime + t) % Second
    <2>2. c \in Int /\ r \in Nat /\ r < Second /\ StartTime + t = Second * c + r
      BY <1>1, <2>1, DivMod
    <2> HIDE DEF r
    <2>3. c >= MinuteSeconds
      <3> SUFFICES ASSUME c < MinuteSeconds PROVE FALSE
        BY <1>1, <2>2
      <3>1. c + 1 \in Int /\ c + 1 <= MinuteSeconds
        BY <1>1, <2>2
      <3>2. Second * (c + 1) <= Second * MinuteSeconds
        BY <1>1, <3>1, ProductMonotone
      <3>3. Second * (c + 1) = Second * c + Second /\ Second * MinuteSeconds = MinuteSeconds * Second
        BY <1>1, <2>2
      <3>4. Second * c \in Int /\ MinuteSeconds * Second \in Int
        BY <1>1, <2>2
      <3> QED BY <1>1, <2>2, <3>2, <3>3, <3>4
    <2>4. Second * c \in Int
      BY <1>1, <2>2
    <2> QED BY <1>1, <2>2, <2>3, <2>4
  <1> QED BY <1>2, <1>3

LEMMA SecsBound ==
    ASSUME NEW t \in 0 .. MaxTime, NEW c, IsClock(c)
    PROVE  Secs(t, c) \in Nat /\ Secs(t, c) < WordBase
  <1>1. /\ Second \in Nat \ {0} /\ StartTime \in Nat /\ MaxTime \in Nat /\ StartTime > MaxTime
        /\ 2 * (StartTime + MaxTime) < Second * WordBase /\ WordBase \in Nat
    BY StampAssumption, TrackerAssumption, Bases
  <1>2. c \in Nat /\ Second * c <= StartTime + MaxTime
    BY ClockFacts
  <1> DEFINE q == t \div Second
  <1>3. q \in Nat /\ Second * q <= t
    BY <1>1, DivMod
  <1> HIDE DEF q
  <1>4. c + q < WordBase
    <2> SUFFICES ASSUME WordBase <= c + q PROVE FALSE
      BY <1>1, <1>2, <1>3
    <2>1. Second * WordBase <= Second * (c + q)
      BY <1>1, <1>2, <1>3, ProductMonotone
    <2>2. Second * (c + q) = Second * c + Second * q
      BY <1>1, <1>2, <1>3
    <2>3. Second * c \in Int /\ Second * q \in Int /\ Second * WordBase \in Int
      BY <1>1, <1>2, <1>3
    <2> QED BY <1>1, <1>2, <1>3, <2>1, <2>2, <2>3
  <1> QED BY <1>2, <1>3, <1>4 DEF Secs, q

\* What the backend reads of an event but its coordinates.
LEMMA Decoded ==
    ASSUME NEW e \in SentRecs, e.started \in 0 .. MaxTime, e.ended \in 0 .. MaxTime,
           NEW c, IsClock(c), NEW d, d = Decode(Encode(e, c))
    PROVE  /\ d.secret = Secret /\ d.kind = "Position"
           /\ d.started_at_secs = Secs(e.started, c) /\ d.started_at_nsecs = Nsecs(e.started)
           /\ d.ended_at_secs = Secs(e.ended, c) /\ d.ended_at_nsecs = Nsecs(e.ended)
  <1> DEFINE buf == Encode(e, c)
             w == WordBase
             x == w * w
  <1>1. /\ d.secret = U64(buf, 0) /\ d.started_at_secs = Signed(U64(buf, 8), x)
        /\ d.started_at_nsecs = U32(buf, 16) /\ d.ended_at_secs = Signed(U64(buf, 20), x)
        /\ d.ended_at_nsecs = U32(buf, 28) /\ d.kind = Variants[U32(buf, 32) + 1]
    BY DEF Decode
  <1>2. c \in Nat
    BY ClockFacts
  <1>3. /\ U64(buf, 0) = Secret % x /\ U64(buf, 8) = Secs(e.started, c) % x
        /\ U32(buf, 16) = Nsecs(e.started) % w /\ U64(buf, 20) = Secs(e.ended, c) % x
        /\ U32(buf, 28) = Nsecs(e.ended) % w /\ U32(buf, 32) = PositionKind % w
    BY <1>2, Fields
  <1>4. w \in Nat \ {0, 1} /\ x \in Nat /\ 2 * w <= x /\ Secret \in 0 .. x - 1
    BY Bases, StampAssumption
  <1> HIDE DEF buf, w, x
  <1>5. ASSUME NEW t \in 0 .. MaxTime PROVE Signed(Secs(t, c) % x, x) = Secs(t, c)
    <2>1. Secs(t, c) \in Nat /\ Secs(t, c) < w
      BY SecsBound DEF w
    <2>2. 0 - x <= 2 * Secs(t, c) /\ 2 * Secs(t, c) < x /\ x \in Nat \ {0} /\ Secs(t, c) \in Int
      BY <1>4, <2>1
    <2> QED BY <2>2, SignedValue
  <1>6. ASSUME NEW t \in Nat PROVE Nsecs(t) % w = Nsecs(t)
    <2>1. Nsecs(t) \in Nat /\ Nsecs(t) < w
      BY NsecsBound DEF w
    <2> QED BY <1>4, <2>1, SmallRest
  <1>7. Secret % x = Secret /\ PositionKind % w = 1
    <2>1. Secret \in Nat /\ Secret < x /\ x \in Nat \ {0} /\ 1 < w /\ w \in Nat \ {0}
      BY <1>4
    <2>2. Secret % x = Secret
      BY <2>1, SmallRest
    <2>3. 1 % w = 1
      BY <2>1, SmallRest
    <2> QED BY <2>2, <2>3 DEF PositionKind
  <1>8. Variants[1 + 1] = "Position"
    BY DEF Variants
  <1>9. e.started \in Nat /\ e.ended \in Nat
    BY DEF SentRecs
  <1> QED BY <1>1, <1>3, <1>5, <1>6, <1>7, <1>8, <1>9

-----------------------------------------------------------------------------
(* Events in time *)

\* All the events sent lie one after the other, before the one being recorded.
InTime ==
    /\ now <= MaxTime
    /\ \A i \in 1 .. Len(sent) : sent[i].started < sent[i].ended /\ sent[i].ended <= now
    /\ \A i, j \in 1 .. Len(sent) : i < j => sent[i].ended < sent[j].started
    /\ event # << >> => /\ event[1].started <= now
                        /\ \A i \in 1 .. Len(sent) : sent[i].ended < event[1].started

\* What a sample does to the events: the event r is sent, or none.
Sends(r) ==
    /\ r \in SentRecs /\ sent' = Append(sent, r) /\ event # << >> /\ event' = << >>
    /\ r.started = event[1].started /\ r.ended = now'

SendsNone ==
    /\ sent' = sent
    /\ event' = event \/ event' = << >> \/ event'[1].started = now'

LEMMA SampleSends ==
    ASSUME TrackerInv, NEW a \in [Axes -> Readings], NEW d \in Durations, SampleCallback(a, d)
    PROVE  SendsNone \/ \E r : Sends(r)
  <1>1. call' \in {"record", "end", "none"} /\ call' = SinkCall(gate, gate') /\ now' = now + d
    BY DEF SampleCallback, SinkCall
  <1>2. CASE call' = "record"
    <2>1. Record(a, d)
      BY <1>2 DEF SampleCallback
    <2> QED BY <2>1 DEF Record, SendsNone
  <1>3. CASE call' = "none"
    BY <1>3 DEF SampleCallback, SendsNone
  <1>4. CASE call' = "end"
    <2>1. EndOfRecord /\ IsOpened(gate)
      BY <1>1, <1>4 DEF SampleCallback, SinkCall
    <2>2. event # << >> /\ event' = << >>
      BY <2>1 DEF TrackerInv, EventWhileOpen, EndOfRecord
    <2>3. CASE event[1].from = position
      BY <2>1, <2>2, <2>3 DEF EndOfRecord, SendsNone
    <2>4. CASE event[1].from # position
      <3> DEFINE r == [from |-> event[1].from, to |-> position,
                       started |-> event[1].started, ended |-> now']
      <3>1. event[1] \in EventRecs /\ position \in Vectors /\ now' \in Nat
        BY <1>1, OpenEvent, TrackerAssumption, <2>2 DEF TrackerInv, TrackerTypeOK
      <3>2. r \in SentRecs /\ r.started = event[1].started /\ r.ended = now'
        BY <3>1 DEF SentRecs, EventRecs
      <3>3. sent' = Append(sent, r)
        BY <2>1, <2>2, <2>4 DEF EndOfRecord
      <3> HIDE DEF r
      <3>4. Sends(r)
        BY <2>2, <3>2, <3>3 DEF Sends
      <3> QED BY <3>4
    <2> QED BY <2>3, <2>4
  <1> QED BY <1>1, <1>2, <1>3, <1>4

LEMMA SentTypes ==
    ASSUME TrackerInv
    PROVE  /\ sent \in Seq(SentRecs) /\ Len(sent) \in Nat /\ now \in Nat
           /\ \A i \in 1 .. Len(sent) : sent[i] \in SentRecs /\ sent[i].started \in Nat
                                        /\ sent[i].ended \in Nat
  <1>1. sent \in Seq(SentRecs) /\ now \in Nat
    BY DEF TrackerInv, TrackerTypeOK, SentRecs
  <1>2. Len(sent) \in Nat /\ \A i \in 1 .. Len(sent) : sent[i] \in SentRecs
    BY <1>1, LenProperties, ElementOfSeq
  <1>3. \A e \in SentRecs : e.started \in Nat /\ e.ended \in Nat
    BY DEF SentRecs
  <1> QED BY <1>1, <1>2, <1>3

LEMMA SampleInTime ==
    ASSUME TrackerInv, InTime, NEW a \in [Axes -> Readings], NEW d \in Durations,
           SampleCallback(a, d)
    PROVE  InTime'
  <1>1. now \in Nat /\ now' \in Nat /\ now < now' /\ now' <= MaxTime
    BY TrackerAssumption DEF SampleCallback, TrackerInv, TrackerTypeOK
  <1>2. /\ sent \in Seq(SentRecs) /\ Len(sent) \in Nat
        /\ \A i \in 1 .. Len(sent) : sent[i].started \in Nat /\ sent[i].ended \in Nat
    BY SentTypes
  <1>3. /\ \A i \in 1 .. Len(sent) : sent[i].started < sent[i].ended /\ sent[i].ended <= now
        /\ \A i, j \in 1 .. Len(sent) : i < j => sent[i].ended < sent[j].started
        /\ event # << >> => /\ event[1].started <= now
                            /\ \A i \in 1 .. Len(sent) : sent[i].ended < event[1].started
    BY DEF InTime
  <1>4. event # << >> => event[1].started \in Nat
    BY OpenEvent DEF TrackerInv, EventRecs
  <1>5. \A i \in 1 .. Len(sent) : sent[i].ended <= now' /\ sent[i].ended < now'
    BY <1>1, <1>2, <1>3
  <1>6. CASE SendsNone
    <2>1. /\ sent' = sent
          /\ \A i \in 1 .. Len(sent) : sent[i].started < sent[i].ended /\ sent[i].ended <= now'
      BY <1>3, <1>5, <1>6 DEF SendsNone
    <2>2. ASSUME event' # << >>
          PROVE  /\ event'[1].started <= now'
                 /\ \A i \in 1 .. Len(sent) : sent[i].ended < event'[1].started
      BY <1>1, <1>3, <1>4, <1>5, <1>6, <2>2 DEF SendsNone
    <2> QED BY <1>1, <1>3, <2>1, <2>2 DEF InTime
  <1>7. ASSUME NEW r, Sends(r) PROVE InTime'
    <2>1. /\ event # << >> /\ event' = << >> /\ r \in SentRecs /\ sent' = Append(sent, r)
          /\ r.started = event[1].started /\ r.ended = now'
      BY <1>7 DEF Sends
    <2>2. /\ Len(sent') = Len(sent) + 1 /\ sent'[Len(sent) + 1] = r
          /\ \A i \in 1 .. Len(sent) : sent'[i] = sent[i]
      BY <1>2, <2>1, AppendProperties
    <2>3. r.started < r.ended /\ \A i \in 1 .. Len(sent) : sent[i].ended < r.started
      BY <1>1, <1>3, <1>4, <2>1
    <2>4. ASSUME NEW i \in 1 .. Len(sent')
          PROVE  sent'[i].started < sent'[i].ended /\ sent'[i].ended <= now'
      <3>1. CASE i \in 1 .. Len(sent)
        BY <1>3, <1>5, <2>2, <3>1
      <3>2. CASE i = Len(sent) + 1
        BY <1>1, <2>1, <2>2, <2>3, <3>2
      <3> QED BY <1>2, <2>2, <3>1, <3>2
    <2>5. ASSUME NEW i \in 1 .. Len(sent'), NEW j \in 1 .. Len(sent'), i < j
          PROVE  sent'[i].ended < sent'[j].started
      <3>1. i \in 1 .. Len(sent) /\ (j \in 1 .. Len(sent) \/ j = Len(sent) + 1)
        <4>1. \A n \in Nat : i \in 1 .. n + 1 /\ j \in 1 .. n + 1 /\ i < j
                                => i \in 1 .. n /\ (j \in 1 .. n \/ j = n + 1)
          OBVIOUS
        <4> QED BY <1>2, <2>2, <2>5, <4>1
      <3> QED BY <1>3, <2>2, <2>3, <2>5, <3>1
    <2> QED BY <1>1, <2>1, <2>4, <2>5 DEF InTime
  <1> QED BY <1>6, <1>7, SampleSends

-----------------------------------------------------------------------------
(* The buffers *)

FrameRecs == {[buf |-> Encode(e, c), clock |-> c] : e \in SentRecs, c \in Nat}

\* Each buffer holds its event, stamped by the clock of the moment: unset at
\* first, and then always the same.
Stamped ==
    /\ IsClock(ntp)
    /\ frames \in Seq(FrameRecs) /\ Len(frames) = Len(sent)
    /\ \A i \in 1 .. Len(sent) : /\ frames[i].buf = Encode(sent[i], frames[i].clock)
                                 /\ frames[i].clock \in {0, ntp}
    /\ \A i, j \in 1 .. Len(sent) :
          i < j /\ frames[i].clock # 0 => frames[j].clock = frames[i].clock

StampInv == TrackerInv /\ InTime /\ Stamped

LEMMA StampInvInit == StampInit => StampInv
  <1> SUFFICES ASSUME StampInit PROVE StampInv
    OBVIOUS
  <1>1. Init /\ ntp = 0 /\ frames = << >> /\ sent = << >> /\ event = << >> /\ now = 0
    BY DEF StampInit, Init
  <1>2. TrackerInv
    <2>1. Zero \in Vectors
      BY DEF Zero, Vectors
    <2>2. TrackerTypeOK
      BY <1>1, <2>1, TrackerAssumption DEF Init, TrackerTypeOK
    <2>3. EventWhileOpen
      BY <1>1 DEF Init, EventWhileOpen, IsOpened
    <2> QED BY <1>1, <2>2, <2>3 DEF Init, TrackerInv, EventsChain, ChainLinked
  <1>3. InTime
    BY <1>1, TrackerAssumption DEF InTime
  <1>4. frames \in Seq(FrameRecs)
    BY <1>1, EmptySeq
  <1>5. Stamped
    BY <1>1, <1>4 DEF Stamped, IsClock
  <1> QED BY <1>2, <1>3, <1>5 DEF StampInv

LEMMA SendStamped ==
    ASSUME StampInv, NEW a \in [Axes -> Readings], NEW d \in Durations, SampleAndSend(a, d)
    PROVE  Stamped'
  <1>1. /\ SampleCallback(a, d) /\ ntp' = ntp /\ TrackerInv /\ IsClock(ntp)
        /\ frames' = IF sent' = sent THEN frames
                     ELSE Append(frames, [buf |-> Encode(sent'[Len(sent')], ntp), clock |-> ntp])
    BY DEF SampleAndSend, StampInv, Stamped
  <1>2. sent \in Seq(SentRecs) /\ Len(sent) \in Nat
    BY <1>1, SentTypes
  <1>3. /\ frames \in Seq(FrameRecs) /\ Len(frames) = Len(sent)
        /\ \A i \in 1 .. Len(sent) : /\ frames[i].buf = Encode(sent[i], frames[i].clock)
                                     /\ frames[i].clock \in {0, ntp}
        /\ \A i, j \in 1 .. Len(sent) :
              i < j /\ frames[i].clock # 0 => frames[j].clock = frames[i].clock
    BY DEF StampInv, Stamped
  <1>4. CASE SendsNone
    BY <1>1, <1>3, <1>4 DEF SendsNone, Stamped
  <1>5. ASSUME NEW r, Sends(r) PROVE Stamped'
    <2> DEFINE f == [buf |-> Encode(r, ntp), clock |-> ntp]
               n == Len(sent)
    <2>1. /\ r \in SentRecs /\ sent' = Append(sent, r)
      BY <1>5 DEF Sends
    <2>2. /\ sent' \in Seq(SentRecs) /\ Len(sent') = n + 1 /\ sent'[n + 1] = r
          /\ \A i \in 1 .. n : sent'[i] = sent[i]
      BY <1>2, <2>1, AppendProperties
    <2>3. sent' # sent /\ sent'[Len(sent')] = r
      BY <1>2, <2>2
    <2>4. frames' = Append(frames, f) /\ f.buf = Encode(r, ntp) /\ f.clock = ntp
      BY <1>1, <2>3
    <2>5. f \in FrameRecs
      BY <1>1, <2>1, ClockFacts DEF FrameRecs
    <2> HIDE DEF f
    <2>6. /\ frames' \in Seq(FrameRecs) /\ Len(frames') = n + 1 /\ frames'[n + 1] = f
          /\ \A i \in 1 .. n : frames'[i] = frames[i]
      BY <1>3, <2>4, <2>5, AppendProperties
    <2>7. ASSUME NEW i \in 1 .. n + 1
          PROVE  /\ frames'[i].buf = Encode(sent'[i], frames'[i].clock)
                 /\ frames'[i].clock \in {0, ntp}
      <3>1. CASE i \in 1 .. n
        BY <1>3, <2>2, <2>6, <3>1
      <3>2. CASE i = n + 1
        BY <2>2, <2>4, <2>6, <3>2
      <3> QED BY <1>2, <3>1, <3>2
    <2>8. ASSUME NEW i \in 1 .. n + 1, NEW j \in 1 .. n + 1, i < j, frames'[i].clock # 0
          PROVE  frames'[j].clock = frames'[i].clock
      <3>1. i \in 1 .. n /\ frames'[i] = frames[i] /\ frames[i].clock = ntp
        BY <1>2, <1>3, <2>6, <2>8
      <3>2. CASE j \in 1 .. n
        BY <1>3, <2>6, <2>8, <3>1, <3>2
      <3>3. CASE j = n + 1
        BY <2>4, <2>6, <3>1, <3>3
      <3> QED BY <1>2, <3>2, <3>3
    <2> QED BY <1>1, <2>2, <2>6, <2>7, <2>8 DEF Stamped
  <1> QED BY <1>1, <1>4, <1>5, SampleSends

\* The clock is set once: nothing was stamped by another one.
LEMMA SyncStamped ==
    ASSUME StampInv, SyncTimestamp PROVE Stamped'
  <1>1. ntp = 0 /\ ntp' = (StartTime + now) \div Second /\ UNCHANGED <<sent, frames>>
    BY DEF SyncTimestamp, vars
  <1>2. now \in 0 .. MaxTime
    BY TrackerAssumption DEF StampInv, TrackerInv, TrackerTypeOK, InTime
  <1>3. IsClock(ntp')
    BY <1>1, <1>2 DEF IsClock
  <1> QED BY <1>1, <1>3 DEF StampInv, Stamped, IsClock

LEMMA StampInvariant == StampSpec => []StampInv
  <1>1. StampInv /\ [StampNext]_stampVars => StampInv'
    <2> SUFFICES ASSUME StampInv, [StampNext]_stampVars PROVE StampInv'
      OBVIOUS
    <2>1. ASSUME NEW a \in [Axes -> Readings], NEW d \in Durations, SampleAndSend(a, d)
          PROVE  StampInv'
      <3>1. SampleCallback(a, d) /\ TrackerInv /\ InTime
        BY <2>1 DEF SampleAndSend, StampInv
      <3> QED BY <2>1, <3>1, SampleStep, SampleInTime, SendStamped DEF StampInv
    <2>2. UNCHANGED vars => TrackerInv' /\ InTime'
      BY DEF StampInv, vars, TrackerInv, TrackerTypeOK, EventWhileOpen, IsOpened, EventsChain,
             ChainLinked, InTime
    <2>3. CASE SyncTimestamp
      BY <2>2, <2>3, SyncStamped DEF SyncTimestamp, StampInv
    <2>4. CASE UNCHANGED stampVars
      BY <2>2, <2>4 DEF stampVars, vars, StampInv, Stamped
    <2> QED BY <2>1, <2>3, <2>4 DEF StampNext
  <1> QED BY <1>1, StampInvInit, PTL DEF StampSpec

-----------------------------------------------------------------------------
(* What is stored *)

\* Event i and its clock.
LEMMA FrameFacts ==
    ASSUME StampInv, NEW i \in 1 .. Len(sent)
    PROVE  /\ sent[i] \in SentRecs /\ sent[i].started \in 0 .. MaxTime /\ sent[i].ended \in 0 .. MaxTime
           /\ sent[i].started < sent[i].ended
           /\ IsClock(frames[i].clock) /\ frames[i].buf = Encode(sent[i], frames[i].clock)
  <1>1. sent[i] \in SentRecs /\ sent[i].started \in Nat /\ sent[i].ended \in Nat /\ now \in Nat
    BY SentTypes DEF StampInv
  <1>2. sent[i].started < sent[i].ended /\ sent[i].ended <= now /\ now <= MaxTime
    BY DEF StampInv, InTime
  <1>3. frames[i].buf = Encode(sent[i], frames[i].clock) /\ frames[i].clock \in {0, ntp} /\ IsClock(ntp)
    BY DEF StampInv, Stamped
  <1>4. IsClock(frames[i].clock)
    BY <1>3 DEF IsClock
  <1> QED BY <1>1, <1>2, <1>3, <1>4, TrackerAssumption

\* The row of event i: with the clock set the times are those of the tracker.
LEMMA RowTimes ==
    ASSUME StampInv, NEW i \in 1 .. Len(sent), NEW second, NEW c, c = frames[i].clock
    PROVE  /\ c # 0 => /\ Row(i, second).started_at = <<Secs(sent[i].started, c), Nsecs(sent[i].started)>>
                       /\ Row(i, second).ended_at = <<Secs(sent[i].ended, c), Nsecs(sent[i].ended)>>
           /\ c = 0 => \E z \in {second, Secs(sent[i].ended, 0)} :
                          Row(i, second).ended_at = <<z, Nsecs(sent[i].ended)>>
  <1> DEFINE e == sent[i]
             v == Decode(frames[i].buf)
  <1>1. /\ e \in SentRecs /\ e.started \in 0 .. MaxTime /\ e.ended \in 0 .. MaxTime
        /\ IsClock(c) /\ frames[i].buf = Encode(e, c)
    BY FrameFacts
  <1>2. /\ v.started_at_secs = Secs(e.started, c) /\ v.started_at_nsecs = Nsecs(e.started)
        /\ v.ended_at_secs = Secs(e.ended, c) /\ v.ended_at_nsecs = Nsecs(e.ended)
    BY <1>1, Decoded
  <1> HIDE DEF v
  <1> DEFINE unset == v.started_at_secs = 0 \/ v.ended_at_secs = 0
  <1>3. /\ Row(i, second).started_at =
             <<IF unset THEN second ELSE v.started_at_secs, v.started_at_nsecs>>
        /\ Row(i, second).ended_at =
             <<IF unset THEN second ELSE v.ended_at_secs, v.ended_at_nsecs>>
    BY DEF Row, NewEventTimes, v
  <1>4. ASSUME c # 0 PROVE ~unset
    <2>1. c \in Nat /\ e.started \div Second \in Nat /\ e.ended \div Second \in Nat
      <3>1. c \in Nat /\ e.started \in Nat /\ e.ended \in Nat
        BY <1>1, ClockFacts, TrackerAssumption
      <3> QED BY <3>1, WholeSeconds
    <2> QED BY <1>2, <1>4, <2>1 DEF Secs
  <1> QED BY <1>2, <1>3, <1>4

\* Later times are stamped later by the same clock.
LEMMA StampsOrdered ==
    ASSUME NEW a \in Nat, NEW b \in Nat, a < b, NEW c \in Nat, NEW s, NEW t,
           s = <<Secs(a, c), Nsecs(a)>>, t = <<Secs(b, c), Nsecs(b)>>
    PROVE  Before(s, t)
  <1> DEFINE p == a \div Second
             q == b \div Second
             x == a % Second
             y == b % Second
             m == NanosPerUnit
  <1>1. /\ p \in Nat /\ x \in Nat /\ x < Second /\ a = Second * p + x
        /\ q \in Nat /\ y \in Nat /\ y < Second /\ b = Second * q + y
        /\ Second \in Nat \ {0} /\ m \in Nat \ {0}
    BY WholeSeconds, StampAssumption
  <1>2. s[1] = c + p /\ s[2] = x * m /\ t[1] = c + q /\ t[2] = y * m
    BY DEF Secs, Nsecs
  <1> HIDE DEF p, q, x, y, m
  <1>3. Second * p \in Nat /\ Second * q \in Nat
    BY <1>1
  <1>4. ~(q < p)
    <2> SUFFICES ASSUME q < p PROVE FALSE
      OBVIOUS
    <2>1. q + 1 \in Int /\ q + 1 <= p
      BY <1>1
    <2>2. Second * (q + 1) <= Second * p
      BY <1>1, <2>1, ProductMonotone
    <2>3. Second * (q + 1) = Second * q + Second
      BY <1>1
    <2> QED BY <1>1, <1>3, <2>2, <2>3
  <1>5. CASE p < q
    BY <1>1, <1>2, <1>5 DEF Before
  <1>6. CASE p = q
    <2>1. x < y
      BY <1>1, <1>3, <1>6
    <2>2. x + 1 \in Int /\ x + 1 <= y
      BY <1>1, <2>1
    <2>3. m * (x + 1) <= m * y
      BY <1>1, <2>2, ProductMonotone
    <2>4. m * (x + 1) = x * m + m /\ m * y = y * m /\ x * m \in Nat /\ y * m \in Nat
      BY <1>1
    <2>5. x * m < y * m
      BY <1>1, <2>3, <2>4
    <2> QED BY <1>2, <1>6, <2>5 DEF Before
  <1> QED BY <1>1, <1>4, <1>5, <1>6

LEMMA InvTimeOrder == StampInv => StoredInTimeOrder
  <1> SUFFICES ASSUME StampInv, N > 0, frames[N].clock > 0, NEW s \in 0 .. MinuteSeconds - 1
               PROVE  /\ Before(Row(N, s).started_at, Row(N, s).ended_at)
                      /\ \A i \in 1 .. N - 1 : Before(Row(i, s).ended_at, Row(N, s).started_at)
    BY DEF StoredInTimeOrder
  <1> DEFINE n == Len(sent)
             c == frames[n].clock
  <1>1. N = n /\ n \in Nat /\ n \in 1 .. n
    <2>1. Len(sent) \in Nat
      BY SentTypes DEF StampInv
    <2> QED BY <2>1 DEF N, StampInv, Stamped
  <1>2. c # 0 /\ IsClock(c)
    BY <1>1, FrameFacts
  <1>3. c \in Nat /\ c >= MinuteSeconds /\ MinuteSeconds \in Nat
    BY <1>2, ClockFacts, StampAssumption
  <1>4. /\ Row(n, s).started_at = <<Secs(sent[n].started, c), Nsecs(sent[n].started)>>
        /\ Row(n, s).ended_at = <<Secs(sent[n].ended, c), Nsecs(sent[n].ended)>>
    BY <1>1, <1>2, RowTimes
  <1>5. /\ sent[n].started \in Nat /\ sent[n].ended \in Nat /\ sent[n].started < sent[n].ended
    BY <1>1, FrameFacts, TrackerAssumption
  <1>6. Before(Row(n, s).started_at, Row(n, s).ended_at)
    BY <1>3, <1>4, <1>5, StampsOrdered
  <1>7. ASSUME NEW i \in 1 .. n - 1 PROVE Before(Row(i, s).ended_at, Row(n, s).started_at)
    <2>1. i \in 1 .. n /\ i < n
      BY <1>1
    <2>2. sent[i].ended \in Nat /\ sent[i].ended < sent[n].started
      <3>1. sent[i].ended \in Nat
        BY <2>1, FrameFacts, TrackerAssumption
      <3>2. sent[i].ended < sent[n].started
        BY <1>1, <2>1 DEF StampInv, InTime
      <3> QED BY <3>1, <3>2
    <2>3. CASE frames[i].clock # 0
      <3>1. c = frames[i].clock
        BY <1>1, <2>1, <2>3 DEF StampInv, Stamped
      <3>2. Row(i, s).ended_at = <<Secs(sent[i].ended, c), Nsecs(sent[i].ended)>>
        BY <2>1, <2>3, <3>1, RowTimes
      <3> QED BY <1>3, <1>4, <1>5, <2>2, <3>2, StampsOrdered
    <2>4. CASE frames[i].clock = 0
      <3>1. PICK z \in {s, Secs(sent[i].ended, 0)} : Row(i, s).ended_at = <<z, Nsecs(sent[i].ended)>>
        BY <2>1, <2>4, RowTimes
      <3>2. /\ sent[n].started \div Second \in Nat /\ sent[i].ended \div Second \in Nat
            /\ sent[i].ended \div Second <= sent[n].started \div Second
        <4> DEFINE a == sent[i].ended
                   b == sent[n].started
        <4>1. /\ a \div Second \in Nat /\ b \div Second \in Nat
          BY <1>5, <2>2, WholeSeconds
        <4>2. Before(<<Secs(a, 0), Nsecs(a)>>, <<Secs(b, 0), Nsecs(b)>>)
          BY <1>5, <2>2, StampsOrdered
        <4>3. Secs(a, 0) <= Secs(b, 0)
          BY <4>1, <4>2 DEF Before, Secs
        <4> QED BY <4>1, <4>3 DEF Secs
      <3>3. z < Secs(sent[n].started, c)
        <4>1. CASE z = s
          BY <1>3, <3>2, <4>1 DEF Secs
        <4>2. CASE z = Secs(sent[i].ended, 0)
          BY <1>2, <1>3, <3>2, <4>2 DEF Secs
        <4> QED BY <4>1, <4>2
      <3> QED BY <1>4, <3>1, <3>3 DEF Before
    <2> QED BY <2>3, <2>4
  <1> QED BY <1>1, <1>6, <1>7

LEMMA UnitsOf ==
    ASSUME NEW t \in Nat, NEW c \in Nat, NEW u, u = <<Secs(t, c), Nsecs(t)>>
    PROVE  Units(u) = Second * c + t
  <1>1. /\ t \div Second \in Nat /\ t % Second \in Nat /\ Second \in Nat
        /\ t = Second * (t \div Second) + (t % Second)
    BY WholeSeconds, StampAssumption
  <1>2. Nsecs(t) \div NanosPerUnit = t % Second
    BY NsecsBound
  <1>3. Units(u) = (c + (t \div Second)) * Second + (t % Second)
    BY <1>2 DEF Units, Secs
  <1> DEFINE q == t \div Second
             r == t % Second
  <1> HIDE DEF q, r
  <1>4. q \in Nat /\ r \in Nat /\ t = Second * q + r /\ Units(u) = (c + q) * Second + r
    BY <1>1, <1>3 DEF q, r
  <1>5. (c + q) * Second = Second * c + Second * q
    BY <1>1, <1>4
  <1>6. Second * c \in Nat /\ Second * q \in Nat
    BY <1>1, <1>4
  <1> QED BY <1>4, <1>5, <1>6

LEMMA InvGaps == StampInv => GapsKept
  <1> SUFFICES ASSUME StampInv, NEW i \in 1 .. N - 1, frames[i].clock > 0
               PROVE  Units(Row(N, 0).started_at) - Units(Row(i, 0).ended_at)
                        = sent[N].started - sent[i].ended
    BY DEF GapsKept
  <1> DEFINE n == Len(sent)
             c == frames[i].clock
  <1>1. N = n /\ n \in Nat
    <2>1. Len(sent) \in Nat
      BY SentTypes DEF StampInv
    <2> QED BY <2>1 DEF N, StampInv, Stamped
  <1>2. i \in 1 .. n /\ n \in 1 .. n /\ i < n
    BY <1>1
  <1>3. c # 0 /\ c \in Nat /\ frames[n].clock = c
    <2>1. IsClock(c)
      BY <1>2, FrameFacts
    <2>2. c \in Nat /\ c # 0
      BY <2>1, ClockFacts
    <2> QED BY <1>2, <2>2 DEF StampInv, Stamped
  <1>4. /\ Row(n, 0).started_at = <<Secs(sent[n].started, c), Nsecs(sent[n].started)>>
        /\ Row(i, 0).ended_at = <<Secs(sent[i].ended, c), Nsecs(sent[i].ended)>>
    BY <1>2, <1>3, RowTimes
  <1>5. sent[n].started \in Nat /\ sent[i].ended \in Nat
    BY <1>2, FrameFacts, TrackerAssumption
  <1>6. /\ Units(Row(n, 0).started_at) = Second * c + sent[n].started
        /\ Units(Row(i, 0).ended_at) = Second * c + sent[i].ended
    BY <1>3, <1>4, <1>5, UnitsOf
  <1>7. Second * c \in Nat
    BY <1>3, StampAssumption
  <1> QED BY <1>1, <1>5, <1>6, <1>7

-----------------------------------------------------------------------------
(* The coordinates *)

\* The value fits an int32_t, the type of the coordinates of BugEventPosition.
FitsWord(v) == 0 - WordBase <= 2 * v /\ 2 * v < WordBase

\* The tracker did not leave the space that an int32_t can tell apart.
CoordinatesFit ==
    \A i \in 1 .. Len(sent) : \A x \in Axes : FitsWord(sent[i].from[x]) /\ FitsWord(sent[i].to[x])

LEMMA DecodedPlaces ==
    ASSUME NEW e \in SentRecs, NEW c \in Nat, NEW d, d = Decode(Encode(e, c)),
           \A x \in Axes : FitsWord(e.from[x]) /\ FitsWord(e.to[x])
    PROVE  d.from = e.from /\ d.to = e.to
  <1> DEFINE buf == Encode(e, c)
             at == 36 + 4 * Dimensions
  <1>1. d.from = I32s(buf, 36) /\ d.to = I32s(buf, at)
    BY DEF Decode
  <1>2. /\ \A x \in Axes : U32(buf, 36 + 4 * x) = e.from[x] % WordBase
        /\ \A x \in Axes : U32(buf, at + 4 * x) = e.to[x] % WordBase
    BY Fields
  <1> HIDE DEF buf, at
  <1>3. e.from \in [Axes -> Int] /\ e.to \in [Axes -> Int]
    BY DEF SentRecs, Vectors
  <1>4. WordBase \in Nat \ {0}
    BY Bases
  <1>5. ASSUME NEW v \in Int, FitsWord(v) PROVE Signed(v % WordBase, WordBase) = v
    BY <1>4, <1>5, SignedValue DEF FitsWord
  <1>6. I32s(buf, 36) = e.from
    <2>1. \A x \in Axes : Signed(U32(buf, 36 + 4 * x), WordBase) = e.from[x]
      BY <1>2, <1>3, <1>5
    <2> QED BY <1>3, <2>1 DEF I32s
  <1>7. I32s(buf, at) = e.to
    <2>1. \A x \in Axes : Signed(U32(buf, at + 4 * x), WordBase) = e.to[x]
      BY <1>2, <1>3, <1>5
    <2> QED BY <1>3, <2>1 DEF I32s
  <1> QED BY <1>1, <1>6, <1>7

LEMMA InvRoundTrip == StampInv /\ CoordinatesFit => WireRoundTrip
  <1> SUFFICES ASSUME StampInv, CoordinatesFit, N > 0 PROVE WireRoundTrip
    BY DEF WireRoundTrip
  <1> DEFINE n == Len(sent)
             e == sent[n]
             c == frames[n].clock
             d == Decode(frames[n].buf)
  <1>1. N = n /\ n \in 1 .. n
    <2>1. Len(sent) \in Nat
      BY SentTypes DEF StampInv
    <2> QED BY <2>1 DEF N, StampInv, Stamped
  <1>2. /\ e \in SentRecs /\ e.started \in 0 .. MaxTime /\ e.ended \in 0 .. MaxTime
        /\ IsClock(c) /\ frames[n].buf = Encode(e, c)
    BY <1>1, FrameFacts
  <1>3. c \in Nat
    BY <1>2, ClockFacts
  <1>4. /\ d.secret = Secret /\ d.kind = "Position"
        /\ d.started_at_secs = Secs(e.started, c) /\ d.started_at_nsecs = Nsecs(e.started)
        /\ d.ended_at_secs = Secs(e.ended, c) /\ d.ended_at_nsecs = Nsecs(e.ended)
    BY <1>2, Decoded
  <1>5. \A x \in Axes : FitsWord(e.from[x]) /\ FitsWord(e.to[x])
    BY <1>1 DEF CoordinatesFit
  <1>6. d.from = e.from /\ d.to = e.to
    BY <1>2, <1>3, <1>5, DecodedPlaces
  <1>7. d = [secret |-> d.secret, started_at_secs |-> d.started_at_secs,
             started_at_nsecs |-> d.started_at_nsecs, ended_at_secs |-> d.ended_at_secs,
             ended_at_nsecs |-> d.ended_at_nsecs, kind |-> d.kind, from |-> d.from, to |-> d.to]
    BY DEF Decode
  <1> HIDE DEF d
  <1>8. d = [secret |-> Secret, started_at_secs |-> c + (e.started \div Second),
             started_at_nsecs |-> (e.started % Second) * NanosPerUnit,
             ended_at_secs |-> c + (e.ended \div Second),
             ended_at_nsecs |-> (e.ended % Second) * NanosPerUnit,
             kind |-> "Position", from |-> e.from, to |-> e.to]
    BY <1>4, <1>6, <1>7 DEF Secs, Nsecs
  <1> QED BY <1>1, <1>8 DEF WireRoundTrip, d

-----------------------------------------------------------------------------
(* The results *)

\* BugEventCodec::encode and bincode agree on the layout, for every width of a
\* byte: whatever the tracker sends, with coordinates that fit their int32_t, is
\* what the backend decodes.  The seconds, the nanoseconds and the secret need no
\* such condition: that they fit follows from the invariant and StampAssumption.
THEOREM WireIsLossless == StampSpec => [](CoordinatesFit => WireRoundTrip)
  <1>1. StampInv => (CoordinatesFit => WireRoundTrip)
    BY InvRoundTrip
  <1> QED BY <1>1, StampInvariant, PTL

\* Whenever the clock of WIFI is set, before or after any number of events, the
\* rows that NewEvent::from makes of the events follow each other in the order in
\* which the tracker sent them.
THEOREM EventsStoredInTime == StampSpec => []StoredInTimeOrder
  <1> QED BY StampInvariant, InvTimeOrder, PTL

\* sync_timestamp() sets the clock at most once, so that the times stored for two
\* events are as far apart as the events were.
THEOREM GapsAreKept == StampSpec => []GapsKept
  <1> QED BY StampInvariant, InvGaps, PTL

\* Encoding and the thread of WIFI leave the tracker alone: what is proved of Spec
\* holds of the whole device, in particular that its events are one path.
THEOREM StampedIsTracker == StampSpec => Spec /\ []EventsChain
  <1>1. StampInit => Init
    BY DEF StampInit
  <1>2. [StampNext]_stampVars => [Next]_vars
    BY DEF StampNext, SampleAndSend, SyncTimestamp, Next, stampVars
  <1>3. StampSpec => Spec
    BY <1>1, <1>2, PTL DEF StampSpec, Spec
  <1> QED BY <1>3, TrackerEventsChain, PTL

-----------------------------------------------------------------------------
(* How far a motion can take the device *)

LEMMA MagnitudeNat == ASSUME NEW n \in Int PROVE Magnitude(n) \in Nat
  BY DEF Magnitude

LEMMA MagnitudeSum ==
    ASSUME NEW m \in Int, NEW n \in Int
    PROVE  Magnitude(m + n) <= Magnitude(m) + Magnitude(n)
  BY DEF Magnitude

LEMMA MagnitudeProduct ==
    ASSUME NEW n \in Int, NEW d \in Nat
    PROVE  Magnitude(n * d) = d * Magnitude(n)
  <1>1. CASE n >= 0
    <2>1. n * d >= 0 /\ n * d = d * n
      BY <1>1
    <2> QED BY <1>1, <2>1 DEF Magnitude
  <1>2. CASE n < 0
    <2> DEFINE m == -n
    <2>1. m \in Nat /\ n = -m
      BY <1>2
    <2> HIDE DEF m
    <2>2. d * m \in Nat
      BY <2>1
    <2>3. n * d = -(d * m)
      BY <2>1
    <2>4. Magnitude(n) = m
      BY <1>2, <2>1 DEF Magnitude
    <2>5. Magnitude(-(d * m)) = d * m
      BY <2>2 DEF Magnitude
    <2> QED BY <2>3, <2>4, <2>5
  <1> QED BY <1>1, <1>2

\* The division of C++ never rounds away from zero.
LEMMA QuotientBound ==
    ASSUME NEW n \in Int, NEW b \in Nat \ {0}
    PROVE  b * Magnitude(Quotient(n, b)) <= Magnitude(n)
  <1>1. ASSUME NEW m \in Nat
        PROVE  m \div b \in Nat /\ b * (m \div b) <= m
    <2> DEFINE q == m \div b
    <2>1. q \in Int /\ m % b \in Nat /\ m % b < b /\ m = b * q + (m % b)
      BY DivMod
    <2> HIDE DEF q
    <2>2. ~(q < 0)
      <3> SUFFICES ASSUME q < 0 PROVE FALSE
        OBVIOUS
      <3>1. q \in Int /\ q <= -1
        BY <2>1
      <3>2. b * q <= b * (-1)
        BY <3>1, ProductMonotone
      <3>3. b * q \in Int
        BY <2>1
      <3> QED BY <2>1, <3>2, <3>3
    <2>3. b * q \in Int
      BY <2>1
    <2> QED BY <2>1, <2>2, <2>3 DEF q
  <1>2. CASE n >= 0
    <2> DEFINE q == n \div b
    <2>1. q \in Nat /\ b * q <= n
      BY <1>1, <1>2
    <2>2. Quotient(n, b) = q
      BY <1>2 DEF Quotient
    <2> HIDE DEF q
    <2>3. Magnitude(q) = q /\ Magnitude(n) = n
      BY <1>2, <2>1 DEF Magnitude
    <2> QED BY <2>1, <2>2, <2>3
  <1>3. CASE n < 0
    <2> DEFINE q == (-n) \div b
    <2>1. q \in Nat /\ b * q <= -n
      <3>1. -n \in Nat
        BY <1>3
      <3> QED BY <1>1, <3>1
    <2>2. Quotient(n, b) = -q
      BY <1>3 DEF Quotient
    <2> HIDE DEF q
    <2>3. Magnitude(-q) = q /\ Magnitude(n) = -n
      BY <1>3, <2>1 DEF Magnitude
    <2> QED BY <2>1, <2>2, <2>3
  <1> QED BY <1>2, <1>3

\* On one axis: velocity v and position p are within what a time t allows for a
\* motion that started at f.
Within(v, p, f, t) ==
    /\ Magnitude(v) <= SensorRange * t
    /\ DownScale * Magnitude(p - f) <= SensorRange * (t * t)

LEMMA WithinLonger ==
    ASSUME NEW v \in Int, NEW p \in Int, NEW f \in Int, NEW t \in Nat, NEW u \in Nat, t <= u,
           Within(v, p, f, t)
    PROVE  Within(v, p, f, u)
  <1>1. SensorRange * t <= SensorRange * u /\ SensorRange * t \in Int /\ SensorRange * u \in Int
    BY ProductMonotone, RangeAssumption
  <1>2. t * t <= u * u /\ t * t \in Int /\ u * u \in Int
    <2>1. t * t <= t * u
      BY ProductMonotone
    <2>2. u * t <= u * u
      BY ProductMonotone
    <2>3. t * u = u * t /\ t * t \in Int /\ t * u \in Int /\ u * u \in Int
      OBVIOUS
    <2> QED BY <2>1, <2>2, <2>3
  <1>3. /\ SensorRange * (t * t) <= SensorRange * (u * u)
        /\ SensorRange * (t * t) \in Int /\ SensorRange * (u * u) \in Int
    <2> DEFINE y == t * t
               z == u * u
    <2>1. y \in Int /\ z \in Int /\ y <= z
      BY <1>2
    <2> HIDE DEF y, z
    <2>2. SensorRange * y <= SensorRange * z /\ SensorRange * y \in Int /\ SensorRange * z \in Int
      BY <2>1, ProductMonotone, RangeAssumption
    <2> QED BY <2>2 DEF y, z
  <1>4. Magnitude(v) \in Int /\ DownScale * Magnitude(p - f) \in Int
    <2>1. Magnitude(v) \in Int /\ Magnitude(p - f) \in Int
      BY MagnitudeNat
    <2> QED BY <2>1, TrackerAssumption, ProductInt
  <1> DEFINE k == SensorRange * t
             l == SensorRange * u
             m == SensorRange * (t * t)
             n == SensorRange * (u * u)
             w == DownScale * Magnitude(p - f)
  <1>5. Magnitude(v) <= k /\ w <= m
    BY DEF Within
  <1>6. k <= l /\ m <= n /\ k \in Int /\ l \in Int /\ m \in Int /\ n \in Int
    BY <1>1, <1>3
  <1>7. Magnitude(v) \in Int /\ w \in Int
    BY <1>4
  <1> HIDE DEF k, l, m, n, w
  <1>8. Magnitude(v) <= l /\ w <= n
    BY <1>5, <1>6, <1>7
  <1> QED BY <1>8 DEF Within, l, n, w

LEMMA DisplacementSum ==
    ASSUME NEW p \in Int, NEW f \in Int, NEW h \in Int, NEW q, q = p + h
    PROVE  DownScale * Magnitude(q - f) <= DownScale * Magnitude(p - f) + DownScale * Magnitude(h)
  <1> DEFINE x == Magnitude(p - f)
             y == Magnitude(h)
             z == Magnitude(q - f)
  <1>1. q - f = (p - f) + h /\ p - f \in Int /\ q - f \in Int
    OBVIOUS
  <1>2. x \in Nat /\ y \in Nat /\ z \in Nat /\ z <= x + y
    BY <1>1, MagnitudeSum, MagnitudeNat
  <1> HIDE DEF x, y, z
  <1>3. DownScale * z <= DownScale * (x + y)
    BY <1>2, ProductMonotone, TrackerAssumption
  <1>4. DownScale * (x + y) = DownScale * x + DownScale * y
    BY <1>2, TrackerAssumption
  <1> QED BY <1>3, <1>4 DEF x, y, z

\* apply_velocify_and_position() on one axis.
LEMMA Moved ==
    ASSUME NEW v \in Int, NEW p \in Int, NEW f \in Int, NEW t \in Nat,
           NEW a \in Readings, NEW b \in Readings, NEW d \in Nat,
           Within(v, p, f, t),
           NEW w, w = v + Quotient(Denoised(a + b) * d, 2),
           NEW q, q = p + Quotient(w * d, DownScale)
    PROVE  w \in Int /\ q \in Int /\ Within(w, q, f, t + d)
  <1> DEFINE R == SensorRange
             s == Denoised(a + b)
             g == Quotient(s * d, 2)
  <1>1. R \in Nat /\ DownScale \in Nat \ {0}
    BY RangeAssumption, TrackerAssumption
  <1>2. s \in Int /\ Magnitude(s) \in Nat /\ Magnitude(s) <= 2 * R
    <2>1. a \in Int /\ b \in Int /\ Magnitude(a) <= R /\ Magnitude(b) <= R
      BY RangeAssumption, TrackerAssumption
    <2> QED BY <1>1, <2>1 DEF Denoised, Magnitude
  <1> HIDE DEF s, R
  <1>3. g \in Int /\ Magnitude(g) \in Nat /\ Magnitude(g) <= R * d
    <2>1. s * d \in Int
      BY <1>2, ProductInt
    <2>2. g \in Int /\ Magnitude(g) \in Nat
      BY <2>1, QuotientInt, MagnitudeNat
    <2>3. 2 * Magnitude(g) <= Magnitude(s * d)
      BY <2>1, QuotientBound
    <2>4. Magnitude(s * d) = d * Magnitude(s)
      BY <1>2, MagnitudeProduct
    <2>5. d * Magnitude(s) <= d * (2 * R)
      BY <1>1, <1>2, ProductMonotone
    <2>6. d * (2 * R) = 2 * (R * d) /\ R * d \in Int /\ d * Magnitude(s) \in Int
      BY <1>1, <1>2
    <2> HIDE DEF g
    <2> QED BY <2>2, <2>3, <2>4, <2>5, <2>6
  <1> HIDE DEF g
  <1>4. w = v + g /\ w \in Int
    BY <1>3 DEF g, s
  <1>5. Magnitude(w) <= R * (t + d) /\ Magnitude(w) \in Nat
    <2>1. Magnitude(w) <= Magnitude(v) + Magnitude(g) /\ Magnitude(v) \in Nat /\ Magnitude(w) \in Nat
      BY <1>3, <1>4, MagnitudeSum, MagnitudeNat
    <2>2. Magnitude(v) <= R * t
      BY DEF Within, R
    <2>3. R * (t + d) = R * t + R * d /\ R * t \in Int /\ R * d \in Int
      BY <1>1
    <2> QED BY <1>3, <2>1, <2>2, <2>3
  <1> DEFINE h == Quotient(w * d, DownScale)
             u == t + d
  <1>6. h \in Int /\ Magnitude(h) \in Nat
    <2>1. w * d \in Int
      BY <1>4, ProductInt
    <2> QED BY <1>1, <2>1, QuotientInt, MagnitudeNat
  <1>7. DownScale * Magnitude(h) <= d * (R * u)
    <2>1. w * d \in Int
      BY <1>4, ProductInt
    <2>2. DownScale * Magnitude(h) <= Magnitude(w * d)
      BY <1>1, <2>1, QuotientBound
    <2>3. Magnitude(w * d) = d * Magnitude(w)
      BY <1>4, MagnitudeProduct
    <2>4. R * u \in Int
      BY <1>1
    <2>5. d * Magnitude(w) <= d * (R * u)
      BY <1>5, <2>4, ProductMonotone
    <2>6. /\ DownScale * Magnitude(h) \in Int /\ d * Magnitude(w) \in Int
          /\ d * (R * u) \in Int
      BY <1>1, <1>5, <1>6, <2>4, ProductInt
    <2> QED BY <2>2, <2>3, <2>5, <2>6
  <1> HIDE DEF h
  <1>8. q = p + h /\ q \in Int
    BY <1>6 DEF h
  <1>9. DownScale * Magnitude(q - f) <= DownScale * Magnitude(p - f) + DownScale * Magnitude(h)
    BY <1>6, <1>8, DisplacementSum
  <1>10. DownScale * Magnitude(p - f) <= R * (t * t)
    BY DEF Within, R
  <1>11. R * (t * t) + d * (R * u) <= R * (u * u)
    <2>1. u \in Nat /\ u = t + d
      OBVIOUS
    <2> HIDE DEF u
    <2>2. R * (u * u) = (R * (t * t) + d * (R * u)) + R * (t * d)
      BY <1>1, <2>1
    <2>3. R * (t * d) \in Nat /\ R * (t * t) \in Nat /\ d * (R * u) \in Nat
      BY <1>1, <2>1
    <2> QED BY <2>2, <2>3
  <1>12. DownScale * Magnitude(q - f) <= R * (u * u)
    <2> DEFINE e1 == DownScale * Magnitude(q - f)
               e2 == DownScale * Magnitude(p - f)
               e3 == DownScale * Magnitude(h)
               e4 == R * (t * t)
               e5 == d * (R * u)
               e6 == R * (u * u)
    <2>1. e1 \in Int /\ e2 \in Int /\ e3 \in Int
      <3>1. Magnitude(q - f) \in Int /\ Magnitude(p - f) \in Int /\ Magnitude(h) \in Int
        BY <1>6, <1>8, MagnitudeNat
      <3> QED BY <1>1, <3>1, ProductInt
    <2>2. e4 \in Int /\ e5 \in Int /\ e6 \in Int
      BY <1>1
    <2>3. e3 <= e5 /\ e1 <= e2 + e3 /\ e2 <= e4 /\ e4 + e5 <= e6
      BY <1>7, <1>9, <1>10, <1>11
    <2> HIDE DEF e1, e2, e3, e4, e5, e6
    <2>4. e1 <= e6
      BY <2>1, <2>2, <2>3
    <2> QED BY <2>4 DEF e1, e6
  <1> QED BY <1>4, <1>5, <1>8, <1>12 DEF Within, R

\* Of the motion being recorded: MotionsPlausible says this of its velocity
\* only, which is not inductive for the position that will be sent.
MotionWithin ==
    event # << >> =>
        \A x \in Axes : Within(velocity[x], position[x], event[1].from[x],
                               MotionTime(event[1].started, now))

SentReachable ==
    \A i \in 1 .. Len(sent) :
        Reachable(sent[i].from, sent[i].to, MotionTime(sent[i].started, sent[i].ended))

\* Of all the motions together.
DriftWithin == \A x \in Axes : Within(velocity[x], position[x], 0, now)

\* A place that the device can reach before MaxTime.
Limited(p) == \A x \in Axes : DownScale * Magnitude(p[x]) <= SensorRange * (MaxTime * MaxTime)

PlacesLimited ==
    /\ event # << >> => Limited(event[1].from)
    /\ \A i \in 1 .. Len(sent) : Limited(sent[i].from) /\ Limited(sent[i].to)

RangeInv ==
    /\ TrackerInv /\ InTime
    /\ MotionWithin /\ SentReachable /\ DriftWithin /\ PlacesLimited

LEMMA AxisTypes ==
    ASSUME TrackerInv, NEW x \in Axes
    PROVE  /\ velocity[x] \in Int /\ position[x] \in Int /\ now \in Nat
           /\ event # << >> => event[1].from[x] \in Int /\ event[1].started \in Nat
  <1>1. velocity[x] \in Int /\ position[x] \in Int /\ now \in Nat
    BY DEF TrackerInv, TrackerTypeOK, Vectors
  <1>2. event # << >> => event[1] \in EventRecs
    BY OpenEvent DEF TrackerInv
  <1>3. event # << >> => event[1].from[x] \in Int /\ event[1].started \in Nat
    BY <1>2 DEF EventRecs, Vectors
  <1> QED BY <1>1, <1>3

LEMMA LimitedNow ==
    ASSUME TrackerInv, DriftWithin, now <= MaxTime
    PROVE  Limited(position)
  <1> SUFFICES ASSUME NEW x \in Axes
               PROVE  DownScale * Magnitude(position[x]) <= SensorRange * (MaxTime * MaxTime)
    BY DEF Limited
  <1>1. velocity[x] \in Int /\ position[x] \in Int /\ now \in Nat
    BY AxisTypes
  <1>2. Within(velocity[x], position[x], 0, MaxTime)
    BY <1>1, WithinLonger, TrackerAssumption DEF DriftWithin
  <1>3. position[x] - 0 = position[x]
    BY <1>1
  <1> QED BY <1>2, <1>3 DEF Within

\* Nothing moved: resting is allowed from any place.
LEMMA WithinRest ==
    ASSUME NEW p \in Int
    PROVE  Within(0, p, p, 0)
  <1>1. p - p = 0 /\ Magnitude(0) = 0
    BY DEF Magnitude
  <1> QED BY <1>1, RangeAssumption, TrackerAssumption DEF Within

LEMMA WithinStopped ==
    ASSUME NEW v \in Int, NEW p \in Int, NEW f \in Int, NEW t \in Nat, Within(v, p, f, t)
    PROVE  Within(0, p, f, t)
  <1>1. Magnitude(0) = 0
    BY DEF Magnitude
  <1>2. SensorRange * t \in Nat
    BY RangeAssumption
  <1> QED BY <1>1, <1>2 DEF Within

\* record() on one axis.
LEMMA RecordAxis ==
    ASSUME TrackerInv, NEW a \in [Axes -> Readings], NEW d \in Durations, Record(a, d),
           NEW x \in Axes, NEW f \in Int, NEW t \in Nat, NEW v \in Int,
           v = (IF event = << >> THEN 0 ELSE velocity[x]),
           Within(v, position[x], f, t)
    PROVE  Within(velocity'[x], position'[x], f, t + d)
  <1>1. velocity[x] \in Int /\ position[x] \in Int /\ d \in Nat
    BY AxisTypes, TrackerAssumption
  <1>2. a[x] \in Readings /\ curr[x] \in Readings
    BY DEF TrackerInv, TrackerTypeOK
  <1> DEFINE z == IF event = << >> THEN Zero ELSE velocity
  <1>3. z[x] = v
    BY DEF Zero
  <1>4. velocity' = Velocity(z, curr, a, d) /\ position' = Displaced(position, velocity', d)
    BY DEF Record
  <1> HIDE DEF z
  <1>5. velocity'[x] = v + Quotient(Denoised(curr[x] + a[x]) * d, 2)
    BY <1>3, <1>4 DEF Velocity
  <1>6. position'[x] = position[x] + Quotient(velocity'[x] * d, DownScale)
    BY <1>4 DEF Displaced
  <1> QED BY <1>1, <1>2, <1>5, <1>6, Moved

LEMMA RangeRecord ==
    ASSUME RangeInv, NEW a \in [Axes -> Readings], NEW d \in Durations,
           now' = now + d, Record(a, d)
    PROVE  MotionWithin' /\ SentReachable' /\ DriftWithin' /\ PlacesLimited'
  <1>0. /\ TrackerInv /\ InTime /\ MotionWithin /\ SentReachable /\ DriftWithin /\ PlacesLimited
        /\ d \in Nat /\ d <= SampleInterval /\ SampleInterval \in Nat
    BY TrackerAssumption, RangeAssumption DEF RangeInv
  <1>1. sent' = sent
    BY DEF Record
  <1>2. SentReachable'
    BY <1>0, <1>1 DEF SentReachable
  <1>3. DriftWithin'
    <2> SUFFICES ASSUME NEW x \in Axes
                 PROVE  Within(velocity'[x], position'[x], 0, now')
      BY DEF DriftWithin
    <2> DEFINE v == IF event = << >> THEN 0 ELSE velocity[x]
    <2>1. velocity[x] \in Int /\ position[x] \in Int /\ now \in Nat
      BY <1>0, AxisTypes
    <2>2. v \in Int
      BY <2>1
    <2>3. Within(velocity[x], position[x], 0, now)
      BY <1>0 DEF DriftWithin
    <2>4. Within(v, position[x], 0, now)
      BY <2>1, <2>3, WithinStopped
    <2> QED BY <1>0, <2>1, <2>2, <2>4, RecordAxis
  <1>4. MotionWithin'
    <2> SUFFICES ASSUME NEW x \in Axes
                 PROVE  Within(velocity'[x], position'[x], event'[1].from[x],
                               MotionTime(event'[1].started, now'))
      BY DEF MotionWithin
    <2>1. velocity[x] \in Int /\ position[x] \in Int /\ now \in Nat
      BY <1>0, AxisTypes
    <2>2. CASE event = << >>
      <3>1. event'[1].from = position /\ event'[1].started = now'
        BY <2>2 DEF Record
      <3>2. Within(0, position[x], position[x], 0)
        BY <2>1, WithinRest
      <3>3. Within(velocity'[x], position'[x], position[x], 0 + d)
        BY <1>0, <2>1, <2>2, <3>2, RecordAxis
      <3>4. velocity'[x] \in Int /\ position'[x] \in Int
        BY <1>0, RecordStep DEF Vectors
      <3>5. Within(velocity'[x], position'[x], position[x], SampleInterval)
        BY <1>0, <2>1, <3>3, <3>4, WithinLonger
      <3>6. MotionTime(now', now') = SampleInterval
        BY <1>0, <2>1 DEF MotionTime
      <3> QED BY <3>1, <3>5, <3>6
    <2>3. CASE event # << >>
      <3> DEFINE t == MotionTime(event[1].started, now)
      <3>1. event' = event
        BY <2>3 DEF Record
      <3>2. event[1].from[x] \in Int /\ event[1].started \in Nat /\ event[1].started <= now
        BY <1>0, <2>3, AxisTypes DEF InTime
      <3>3. t \in Nat /\ MotionTime(event[1].started, now') = t + d
        BY <1>0, <2>1, <3>2 DEF MotionTime
      <3>4. Within(velocity[x], position[x], event[1].from[x], t)
        BY <1>0, <2>3 DEF MotionWithin
      <3> HIDE DEF t
      <3>5. Within(velocity'[x], position'[x], event[1].from[x], t + d)
        BY <1>0, <2>1, <2>3, <3>2, <3>3, <3>4, RecordAxis
      <3> QED BY <3>1, <3>3, <3>5
    <2> QED BY <2>2, <2>3
  <1>5. PlacesLimited'
    <2>1. event' = event \/ event'[1].from = position
      BY DEF Record
    <2>2. Limited(position)
      BY <1>0, LimitedNow DEF InTime
    <2>3. event' # << >> => Limited(event'[1].from)
      BY <1>0, <2>1, <2>2 DEF PlacesLimited
    <2> QED BY <1>0, <1>1, <2>3 DEF PlacesLimited, Limited
  <1> QED BY <1>2, <1>3, <1>4, <1>5

\* Time passes, and nothing moves.
LEMMA DriftRest ==
    ASSUME TrackerInv, DriftWithin, NEW d \in Durations, now' = now + d,
           velocity' = velocity, position' = position
    PROVE  DriftWithin'
  <1> SUFFICES ASSUME NEW x \in Axes
               PROVE  Within(velocity[x], position[x], 0, now')
    BY DEF DriftWithin
  <1>1. velocity[x] \in Int /\ position[x] \in Int /\ now \in Nat /\ now' \in Nat /\ now <= now'
    BY AxisTypes, TrackerAssumption
  <1>2. Within(velocity[x], position[x], 0, now)
    BY DEF DriftWithin
  <1> QED BY <1>1, <1>2, WithinLonger

LEMMA RangeEnd ==
    ASSUME RangeInv, event # << >>, NEW d \in Durations, now' = now + d, EndOfRecord
    PROVE  MotionWithin' /\ SentReachable' /\ DriftWithin' /\ PlacesLimited'
  <1> DEFINE r == [from |-> event[1].from, to |-> position,
                   started |-> event[1].started, ended |-> now']
  <1>0. /\ TrackerInv /\ InTime /\ MotionWithin /\ SentReachable /\ DriftWithin /\ PlacesLimited
        /\ d \in Nat /\ SampleInterval \in Nat
    BY TrackerAssumption, RangeAssumption DEF RangeInv
  <1>1. velocity' = velocity /\ position' = position /\ event' = << >>
    BY DEF EndOfRecord
  <1>2. DriftWithin'
    BY <1>0, <1>1, DriftRest
  <1>3. MotionWithin'
    BY <1>1 DEF MotionWithin
  <1>4. sent' = sent \/ sent' = Append(sent, r)
    BY DEF EndOfRecord
  <1>5. CASE sent' = sent
    BY <1>0, <1>1, <1>2, <1>3, <1>5 DEF SentReachable, PlacesLimited, Limited
  <1>6. CASE sent' = Append(sent, r)
    <2>1. /\ r.from = event[1].from /\ r.to = position
          /\ r.started = event[1].started /\ r.ended = now'
      OBVIOUS
    <2>2. r \in SentRecs
      <3>1. event[1] \in EventRecs /\ position \in Vectors /\ now' \in Nat
        BY <1>0, OpenEvent DEF TrackerInv, TrackerTypeOK
      <3> QED BY <3>1 DEF SentRecs, EventRecs
    <2> HIDE DEF r
    <2>3. sent \in Seq(SentRecs) /\ Len(sent) \in Nat
      BY <1>0, SentTypes
    <2>4. /\ Len(sent') = Len(sent) + 1 /\ sent'[Len(sent) + 1] = r
          /\ \A i \in 1 .. Len(sent) : sent'[i] = sent[i]
      BY <1>6, <2>2, <2>3, AppendProperties
    <2>5. Reachable(r.from, r.to, MotionTime(r.started, r.ended))
      <3> DEFINE t == MotionTime(event[1].started, now)
                 u == MotionTime(event[1].started, now')
      <3> SUFFICES ASSUME NEW x \in Axes
                   PROVE  DownScale * Magnitude(position[x] - event[1].from[x])
                          <= SensorRange * (u * u)
        BY <2>1 DEF Reachable
      <3>1. /\ velocity[x] \in Int /\ position[x] \in Int /\ now \in Nat
            /\ event[1].from[x] \in Int /\ event[1].started \in Nat /\ event[1].started <= now
        BY <1>0, AxisTypes DEF InTime
      <3>2. t \in Nat /\ u \in Nat /\ t <= u
        <4> DEFINE s == event[1].started
        <4>1. s \in Nat /\ s <= now /\ now \in Nat /\ d \in Nat /\ SampleInterval \in Nat
          BY <1>0, <3>1
        <4>2. t = now - s + SampleInterval /\ u = now' - s + SampleInterval
          BY Zenon DEF MotionTime
        <4>3. now' = now + d
          OBVIOUS
        <4> HIDE DEF s, t, u
        <4> QED BY ONLY <4>1, <4>2, <4>3
      <3>3. Within(velocity[x], position[x], event[1].from[x], t)
        BY <1>0 DEF MotionWithin
      <3> HIDE DEF t, u
      <3>4. Within(velocity[x], position[x], event[1].from[x], u)
        BY <3>1, <3>2, <3>3, WithinLonger
      <3> QED BY <3>4 DEF Within
    <2>6. Limited(r.from) /\ Limited(r.to)
      BY <1>0, <2>1, LimitedNow DEF PlacesLimited, InTime
    <2>7. ASSUME NEW i \in 1 .. Len(sent')
          PROVE  /\ Reachable(sent'[i].from, sent'[i].to, MotionTime(sent'[i].started, sent'[i].ended))
                 /\ Limited(sent'[i].from) /\ Limited(sent'[i].to)
      <3>1. CASE i \in 1 .. Len(sent)
        BY <1>0, <2>4, <3>1 DEF SentReachable, PlacesLimited
      <3>2. CASE i = Len(sent) + 1
        BY <2>4, <2>5, <2>6, <3>2
      <3> QED BY <2>3, <2>4, <3>1, <3>2
    <2>8. SentReachable'
      BY <2>7 DEF SentReachable, Reachable, MotionTime
    <2>9. PlacesLimited'
      BY <1>1, <2>7 DEF PlacesLimited, Limited
    <2> QED BY <1>2, <1>3, <2>8, <2>9
  <1> QED BY <1>4, <1>5, <1>6

LEMMA RangeStep ==
    ASSUME RangeInv, NEW a \in [Axes -> Readings], NEW d \in Durations, SampleCallback(a, d)
    PROVE  RangeInv'
  <1>0. TrackerInv /\ InTime
    BY DEF RangeInv
  <1>1. TrackerInv' /\ InTime'
    BY <1>0, SampleStep, SampleInTime
  <1>2. /\ now' = now + d /\ call' = SinkCall(gate, gate')
        /\ call' \in {"none", "record", "end"}
    BY DEF SampleCallback, SinkCall
  <1>3. CASE call' = "record"
    <2>1. Record(a, d)
      BY <1>3 DEF SampleCallback
    <2> QED BY <1>1, <1>2, <2>1, RangeRecord DEF RangeInv
  <1>4. CASE call' = "end"
    <2>1. EndOfRecord /\ IsOpened(gate)
      BY <1>2, <1>4 DEF SampleCallback, SinkCall
    <2>2. event # << >>
      BY <1>0, <2>1 DEF TrackerInv, EventWhileOpen
    <2> QED BY <1>1, <1>2, <2>1, <2>2, RangeEnd DEF RangeInv
  <1>5. CASE call' = "none"
    <2>1. UNCHANGED <<velocity, position, event, sent>>
      BY <1>5 DEF SampleCallback
    <2>2. event = << >>
      BY <1>0, <1>2, <1>5 DEF SinkCall, TrackerInv, EventWhileOpen
    <2>3. DriftWithin'
      BY <1>0, <1>2, <2>1, DriftRest DEF RangeInv
    <2> QED BY <1>1, <2>1, <2>2, <2>3 DEF RangeInv, MotionWithin, SentReachable, PlacesLimited,
                                          Limited, Reachable, MotionTime
  <1> QED BY <1>2, <1>3, <1>4, <1>5

LEMMA RangeInvariant == Spec => []RangeInv
  <1>1. Init => RangeInv
    <2> SUFFICES ASSUME Init PROVE RangeInv
      OBVIOUS
    <2>1. Zero \in Vectors
      BY DEF Zero, Vectors
    <2>2. TrackerInv
      <3>1. TrackerTypeOK
        BY <2>1, TrackerAssumption DEF Init, TrackerTypeOK
      <3>2. EventWhileOpen
        BY DEF Init, EventWhileOpen, IsOpened
      <3> QED BY <3>1, <3>2 DEF Init, TrackerInv, EventsChain, ChainLinked
    <2>3. InTime
      BY TrackerAssumption DEF Init, InTime
    <2>4. DriftWithin
      <3> SUFFICES ASSUME NEW x \in Axes PROVE Within(velocity[x], position[x], 0, now)
        BY DEF DriftWithin
      <3>1. velocity[x] = 0 /\ position[x] = 0 /\ now = 0
        BY DEF Init, Zero
      <3> QED BY <3>1, WithinRest
    <2> QED BY <2>2, <2>3, <2>4 DEF Init, RangeInv, MotionWithin, SentReachable, PlacesLimited
  <1>2. RangeInv /\ [Next]_vars => RangeInv'
    <2> SUFFICES ASSUME RangeInv, [Next]_vars PROVE RangeInv'
      OBVIOUS
    <2>1. CASE Next
      BY <2>1, RangeStep DEF Next
    <2>2. CASE UNCHANGED vars
      BY <2>2 DEF vars, RangeInv, TrackerInv, TrackerTypeOK, EventWhileOpen, IsOpened, EventsChain,
                  ChainLinked, InTime, MotionWithin, SentReachable, DriftWithin, PlacesLimited,
                  Limited, Reachable, MotionTime
    <2> QED BY <2>1, <2>2
  <1> QED BY <1>1, <1>2, PTL DEF Spec

(* Whatever the sequence of readings and delays, an event reports a motion   *)
(* that the readings of its own time allow: the memset of _velocity and the  *)
(* cleanup of end_of_record() leave nothing of an earlier motion behind.     *)
THEOREM TrackerMotionsPlausible == Spec => []MotionsPlausible
  <1>1. RangeInv => MotionsPlausible
    <2> SUFFICES ASSUME RangeInv PROVE MotionsPlausible
      OBVIOUS
    <2>1. SentReachable
      BY DEF RangeInv
    <2>2. ASSUME event # << >>, NEW x \in Axes
          PROVE  Magnitude(velocity[x]) <= SensorRange * MotionTime(event[1].started, now)
      BY <2>2 DEF RangeInv, MotionWithin, Within
    <2> QED BY <2>1, <2>2 DEF MotionsPlausible, SentReachable
  <1> QED BY <1>1, RangeInvariant, PTL

LEMMA StampedInRange == StampSpec => []RangeInv
  BY StampedIsTracker, RangeInvariant, PTL

\* A value that is at most b away from 0 fits when b does.
LEMMA BoundFits ==
    ASSUME NEW n \in Int, NEW b \in Int, Magnitude(n) <= b, 2 * b < WordBase
    PROVE  FitsWord(n)
  <1>1. WordBase \in Nat
    BY StampAssumption DEF WordBase
  <1> QED BY <1>1 DEF FitsWord, Magnitude

\* _velocity is summed up without a check.  It stays within its int32_t for as
\* long as SensorRange * MaxTime does, which is why the model can take it for an
\* integer.
THEOREM VelocityFits ==
    ASSUME 2 * (SensorRange * MaxTime) < WordBase
    PROVE  StampSpec => [](\A x \in Axes : FitsWord(velocity[x]))
  <1>1. RangeInv => \A x \in Axes : FitsWord(velocity[x])
    <2> SUFFICES ASSUME RangeInv, NEW x \in Axes PROVE FitsWord(velocity[x])
      OBVIOUS
    <2>1. velocity[x] \in Int /\ position[x] \in Int /\ now \in Nat /\ now <= MaxTime
      BY AxisTypes DEF RangeInv, InTime
    <2>2. Within(velocity[x], position[x], 0, MaxTime)
      BY <2>1, WithinLonger, TrackerAssumption DEF RangeInv, DriftWithin
    <2>3. SensorRange * MaxTime \in Int
      BY RangeAssumption, TrackerAssumption, ProductInt
    <2> QED BY <2>1, <2>2, <2>3, BoundFits DEF Within
  <1> QED BY <1>1, StampedInRange, PTL

LEMMA LimitedFits ==
    ASSUME 2 * (SensorRange * (MaxTime * MaxTime)) < DownScale * WordBase,
           NEW p \in Vectors, Limited(p), NEW x \in Axes
    PROVE  FitsWord(p[x])
  <1> DEFINE m == Magnitude(p[x])
             k == SensorRange * (MaxTime * MaxTime)
  <1>1. p[x] \in Int /\ m \in Nat
    BY MagnitudeNat DEF Vectors
  <1>2. DownScale * m <= k
    BY DEF Limited
  <1>3. WordBase \in Nat /\ DownScale \in Nat \ {0} /\ k \in Int
    BY StampAssumption, TrackerAssumption, RangeAssumption DEF WordBase
  <1>4. 2 * k < DownScale * WordBase
    OBVIOUS
  <1> HIDE DEF m, k
  <1>5. 2 * m < WordBase
    <2> SUFFICES ASSUME WordBase <= 2 * m PROVE FALSE
      BY <1>1, <1>3
    <2>1. DownScale * WordBase <= DownScale * (2 * m)
      BY <1>1, <1>3, ProductMonotone
    <2>2. DownScale * (2 * m) = 2 * (DownScale * m)
      BY <1>1, <1>3
    <2>3. DownScale * m \in Int /\ DownScale * WordBase \in Int
      BY <1>1, <1>3
    <2> QED BY <1>2, <1>3, <1>4, <2>1, <2>2, <2>3
  <1> QED BY <1>1, <1>5, BoundFits DEF m

\* The coordinates of every event fit their int32_t, and so the backend reads
\* what the tracker sent, for as long as the distance that the strongest steady
\* acceleration covers in MaxTime fits.
THEOREM WireIsLosslessInRange ==
    ASSUME 2 * (SensorRange * (MaxTime * MaxTime)) < DownScale * WordBase
    PROVE  StampSpec => []WireRoundTrip
  <1>1. RangeInv => CoordinatesFit
    <2> SUFFICES ASSUME RangeInv, NEW i \in 1 .. Len(sent), NEW x \in Axes
                 PROVE  FitsWord(sent[i].from[x]) /\ FitsWord(sent[i].to[x])
      BY DEF CoordinatesFit
    <2>1. sent[i] \in SentRecs
      BY SentTypes DEF RangeInv
    <2>2. sent[i].from \in Vectors /\ sent[i].to \in Vectors
      BY <2>1 DEF SentRecs
    <2>3. Limited(sent[i].from) /\ Limited(sent[i].to)
      BY DEF RangeInv, PlacesLimited
    <2> QED BY <2>2, <2>3, LimitedFits
  <1> QED BY <1>1, StampedInRange, WireIsLossless, PTL
=============================================================================
