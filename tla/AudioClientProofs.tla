------------------------- MODULE AudioClientProofs -------------------------
(***************************************************************************)
(* The audio client for every chunk size, release time, threshold and      *)
(* capacity of the ring buffer: its actor, and the threads around it.      *)
(***************************************************************************)
EXTENDS ClientShutdown, NoiseGateProofs, SequenceTheorems

Steps == INSTANCE AudioStreamProofs WITH stream <- StreamOf(sink)

-----------------------------------------------------------------------------
(* What the operations of AudioSink do to its fields *)

\* Sinks, and the sink whose buffer record() has just filled.
SinkRecs ==
    [pos : 0 .. ChunkSize, id : Nat, seq : Nat, ignored : BOOLEAN,
     sent : Seq(Stream!Datagrams)]

LEMMA SinksAreRecs == \A k \in Sinks : k \in SinkRecs /\ k.pos < ChunkSize
  BY ClientAssumption DEF Sinks, SinkRecs

LEMMA RecsAreSinks == \A k \in SinkRecs : k.pos < ChunkSize => k \in Sinks
  BY ClientAssumption DEF Sinks, SinkRecs

LEMMA ChunkIsDatagram ==
    ASSUME NEW i \in Nat, NEW s \in Nat, NEW n \in 1 .. ChunkSize
    PROVE  Stream!ChunkMsg(i, s, n) \in Stream!Datagrams
  <1>1. n % SizeModulus \in 0 .. SizeModulus - 1
    BY ClientAssumption
  <1> QED BY <1>1, ClientAssumption DEF Stream!ChunkMsg, Stream!Datagrams

LEMMA SendingFields ==
    ASSUME NEW k \in SinkRecs, NEW m \in Stream!Datagrams
    PROVE  LET h == Stream!Sending(k, m) IN
           /\ h \in SinkRecs
           /\ h.pos = k.pos /\ h.id = k.id /\ h.seq = k.seq /\ h.ignored = k.ignored
           /\ h.sent = Append(k.sent, m)
  <1>1. Append(k.sent, m) \in Seq(Stream!Datagrams)
    BY DEF SinkRecs
  <1> QED BY <1>1 DEF Stream!Sending, SinkRecs

LEMMA WritePayloadFields ==
    ASSUME NEW k \in SinkRecs, k.pos > 0
    PROVE  LET h == WritePayload(k) IN
           /\ h \in SinkRecs
           /\ h.pos = 0 /\ h.id = k.id /\ h.seq = k.seq + 1 /\ h.ignored = k.ignored
           /\ h.sent = Append(k.sent, Stream!ChunkMsg(k.id, k.seq, k.pos))
  <1> DEFINE m == Stream!ChunkMsg(k.id, k.seq, k.pos)
             g == Stream!Sending(k, m)
             f == [g EXCEPT !.seq = @ + 1]
  <1>1. m \in Stream!Datagrams
    BY ChunkIsDatagram, ClientAssumption DEF SinkRecs
  <1>2. /\ g \in SinkRecs /\ g.id = k.id /\ g.seq = k.seq /\ g.ignored = k.ignored
        /\ g.sent = Append(k.sent, m)
    BY <1>1, SendingFields
  <1>3. WritePayload(k) = [f EXCEPT !.pos = 0]
    BY DEF WritePayload, Stream!SendingChunk
  <1> HIDE DEF g
  <1>4. /\ f \in SinkRecs /\ f.id = k.id /\ f.seq = k.seq + 1 /\ f.ignored = k.ignored
        /\ f.sent = Append(k.sent, m)
    BY <1>2 DEF SinkRecs
  <1> HIDE DEF f, m
  <1>a. 0 \in 0 .. ChunkSize
    BY ClientAssumption
  <1>5. /\ [f EXCEPT !.pos = 0] \in SinkRecs
        /\ [f EXCEPT !.pos = 0].pos = 0
        /\ [f EXCEPT !.pos = 0].id = f.id
        /\ [f EXCEPT !.pos = 0].seq = f.seq
        /\ [f EXCEPT !.pos = 0].ignored = f.ignored
        /\ [f EXCEPT !.pos = 0].sent = f.sent
    BY <1>4, <1>a DEF SinkRecs
  <1> QED BY <1>3, <1>4, <1>5 DEF m

LEMMA WriteEofFields ==
    ASSUME NEW k \in SinkRecs
    PROVE  LET h == WriteEof(k) IN
           /\ h \in SinkRecs
           /\ h.pos = k.pos /\ h.id = k.id + 1 /\ h.seq = 0 /\ h.ignored = k.ignored
           /\ h.sent = Append(k.sent, Stream!EndMsg(k.id))
  <1> DEFINE m == Stream!EndMsg(k.id)
             g == Stream!Sending(k, m)
             f == [g EXCEPT !.id = @ + 1]
  <1>1. m \in Stream!Datagrams
    BY DEF SinkRecs, Stream!EndMsg, Stream!Datagrams
  <1>2. /\ g \in SinkRecs /\ g.pos = k.pos /\ g.id = k.id /\ g.ignored = k.ignored
        /\ g.sent = Append(k.sent, m)
    BY <1>1, SendingFields
  <1>3. WriteEof(k) = [f EXCEPT !.seq = 0]
    BY DEF WriteEof, Stream!SendingEnd
  <1> HIDE DEF g
  <1>4. /\ f \in SinkRecs /\ f.pos = k.pos /\ f.id = k.id + 1 /\ f.ignored = k.ignored
        /\ f.sent = Append(k.sent, m)
    BY SMTT(30), <1>2 DEF SinkRecs
  <1> HIDE DEF f, m
  <1>5. /\ [f EXCEPT !.seq = 0] \in SinkRecs
        /\ [f EXCEPT !.seq = 0].pos = f.pos
        /\ [f EXCEPT !.seq = 0].id = f.id
        /\ [f EXCEPT !.seq = 0].seq = 0
        /\ [f EXCEPT !.seq = 0].ignored = f.ignored
        /\ [f EXCEPT !.seq = 0].sent = f.sent
    BY <1>4 DEF SinkRecs
  <1> QED BY <1>3, <1>4, <1>5 DEF m

-----------------------------------------------------------------------------
(* The calls of the gate, seen as steps of the stream *)

StreamRecs == [id : Nat, seq : Nat, sent : Seq(Stream!Datagrams)]

LEMMA StreamFields ==
    ASSUME NEW k \in SinkRecs
    PROVE  /\ StreamOf(k) \in StreamRecs
           /\ StreamOf(k).id = k.id /\ StreamOf(k).seq = k.seq /\ StreamOf(k).sent = k.sent
  BY DEF SinkRecs, StreamRecs, StreamOf

(* Streams are equal when their fields are.                                 *)
LEMMA StreamEqual ==
    ASSUME NEW a \in StreamRecs, NEW b \in StreamRecs,
           a.id = b.id, a.seq = b.seq, a.sent = b.sent
    PROVE  a = b
  BY DEF StreamRecs

(* The same datagram operations on the stream of a sink.                    *)
LEMMA StreamChunk ==
    ASSUME NEW r \in StreamRecs, NEW n \in 1 .. ChunkSize
    PROVE  LET h == Stream!SendingChunk(r, n) IN
           /\ h \in StreamRecs
           /\ h.id = r.id /\ h.seq = r.seq + 1
           /\ h.sent = Append(r.sent, Stream!ChunkMsg(r.id, r.seq, n))
  <1> DEFINE m == Stream!ChunkMsg(r.id, r.seq, n)
             g == Stream!Sending(r, m)
  <1>1. Append(r.sent, m) \in Seq(Stream!Datagrams)
    BY ChunkIsDatagram DEF StreamRecs
  <1> HIDE DEF m
  <1>2. g \in StreamRecs /\ g.id = r.id /\ g.seq = r.seq /\ g.sent = Append(r.sent, m)
    BY <1>1 DEF Stream!Sending, StreamRecs
  <1>3. Stream!SendingChunk(r, n) = [g EXCEPT !.seq = @ + 1]
    BY DEF Stream!SendingChunk, m
  <1> HIDE DEF g
  <1>4. /\ [g EXCEPT !.seq = @ + 1] \in StreamRecs
        /\ [g EXCEPT !.seq = @ + 1].id = g.id
        /\ [g EXCEPT !.seq = @ + 1].seq = g.seq + 1
        /\ [g EXCEPT !.seq = @ + 1].sent = g.sent
    BY <1>2 DEF StreamRecs
  <1> QED BY <1>2, <1>3, <1>4 DEF m

LEMMA StreamEnd ==
    ASSUME NEW r \in StreamRecs
    PROVE  LET h == Stream!SendingEnd(r) IN
           /\ h \in StreamRecs
           /\ h.id = r.id + 1 /\ h.seq = 0
           /\ h.sent = Append(r.sent, Stream!EndMsg(r.id))
  <1> DEFINE m == Stream!EndMsg(r.id)
             g == Stream!Sending(r, m)
             f == [g EXCEPT !.id = @ + 1]
  <1>1. Append(r.sent, m) \in Seq(Stream!Datagrams)
    BY DEF StreamRecs, Stream!EndMsg, Stream!Datagrams
  <1> HIDE DEF m
  <1>2. g \in StreamRecs /\ g.id = r.id /\ g.sent = Append(r.sent, m)
    BY <1>1 DEF Stream!Sending, StreamRecs
  <1>3. Stream!SendingEnd(r) = [f EXCEPT !.seq = 0]
    BY DEF Stream!SendingEnd, m
  <1> HIDE DEF g
  <1>4. f \in StreamRecs /\ f.id = r.id + 1 /\ f.sent = Append(r.sent, m)
    BY <1>2 DEF StreamRecs
  <1> HIDE DEF f
  <1>5. /\ [f EXCEPT !.seq = 0] \in StreamRecs
        /\ [f EXCEPT !.seq = 0].id = f.id
        /\ [f EXCEPT !.seq = 0].seq = 0
        /\ [f EXCEPT !.seq = 0].sent = f.sent
    BY <1>4 DEF StreamRecs
  <1> QED BY <1>3, <1>4, <1>5 DEF m

(* record() sends nothing or one full chunk.                                *)
LEMMA RecordStep ==
    ASSUME NEW k \in Sinks
    PROVE  LET h == Record(k) IN
           /\ h \in Sinks /\ h.ignored = k.ignored
           /\ \/ StreamOf(h) = StreamOf(k)
              \/ StreamOf(h) = Stream!SendingChunk(StreamOf(k), ChunkSize)
  <1> DEFINE f == [k EXCEPT !.pos = @ + 1]
  <1>1. k \in SinkRecs /\ k.pos < ChunkSize
    BY SinksAreRecs
  <1>a. k.pos + 1 \in 0 .. ChunkSize
    BY <1>1, ClientAssumption DEF SinkRecs
  <1>2. /\ f \in SinkRecs /\ f.pos = k.pos + 1 /\ f.id = k.id /\ f.seq = k.seq
        /\ f.ignored = k.ignored /\ f.sent = k.sent
    BY <1>1, <1>a DEF SinkRecs
  <1>3. Record(k) = IF f.pos = ChunkSize THEN WritePayload(f) ELSE f
    BY DEF Record
  <1> HIDE DEF f
  <1>4. CASE f.pos = ChunkSize
    <2> DEFINE h == WritePayload(f)
    <2>1. ChunkSize \in 1 .. ChunkSize /\ f.pos > 0
      BY <1>4, ClientAssumption
    <2>2. /\ h \in SinkRecs
          /\ h.pos = 0 /\ h.id = k.id /\ h.seq = k.seq + 1 /\ h.ignored = k.ignored
          /\ h.sent = Append(k.sent, Stream!ChunkMsg(k.id, k.seq, ChunkSize))
      BY <1>2, <1>4, <2>1, WritePayloadFields
    <2> HIDE DEF h
    <2>3. h \in Sinks
      BY <2>2, RecsAreSinks, ClientAssumption
    <2>4. StreamOf(h) = Stream!SendingChunk(StreamOf(k), ChunkSize)
      <3> DEFINE r == StreamOf(k)
                 q == Stream!SendingChunk(r, ChunkSize)
                 w == StreamOf(h)
      <3>1. r \in StreamRecs /\ r.id = k.id /\ r.seq = k.seq /\ r.sent = k.sent
        BY <1>1, StreamFields
      <3>2. w \in StreamRecs /\ w.id = h.id /\ w.seq = h.seq /\ w.sent = h.sent
        BY <2>2, StreamFields
      <3> HIDE DEF r, w
      <3>3. /\ q \in StreamRecs /\ q.id = r.id /\ q.seq = r.seq + 1
            /\ q.sent = Append(r.sent, Stream!ChunkMsg(r.id, r.seq, ChunkSize))
        BY <3>1, <2>1, StreamChunk
      <3> HIDE DEF q
      <3>4. w = q
        BY <2>2, <3>1, <3>2, <3>3, StreamEqual
      <3> QED BY <3>4 DEF q, r, w
    <2> QED BY <1>3, <1>4, <2>2, <2>3, <2>4 DEF h
  <1>5. CASE f.pos # ChunkSize
    <2>1. f \in Sinks
      BY <1>2, <1>5, RecsAreSinks, ClientAssumption DEF SinkRecs
    <2>2. StreamOf(f) = StreamOf(k)
      BY <1>2 DEF StreamOf
    <2> QED BY <1>2, <1>3, <1>5, <2>1, <2>2
  <1> QED BY <1>4, <1>5

(* end_of_transmission() sends nothing, or the rest of the buffer as a last *)
(* chunk together with the end; from the second call on the buffer is empty *)
(* afterwards.                                                              *)
LEMMA EndStep ==
    ASSUME NEW k \in Sinks
    PROVE  LET h == EndOfTransmission(k) IN
           /\ h \in Sinks /\ h.ignored = TRUE
           /\ k.ignored => h.pos = 0
           /\ \/ StreamOf(h) = StreamOf(k)
              \/ \E n \in 1 .. ChunkSize :
                    StreamOf(h) = Stream!SendingEnd(Stream!SendingChunk(StreamOf(k), n))
  <1>1. k \in SinkRecs /\ k.pos < ChunkSize /\ k.ignored \in BOOLEAN /\ k.pos \in Nat
    BY SinksAreRecs DEF SinkRecs
  <1>2. CASE ~k.ignored
    <2> DEFINE h == [k EXCEPT !.ignored = TRUE]
    <2>1. EndOfTransmission(k) = h
      BY <1>2 DEF EndOfTransmission
    <2>2. h \in Sinks /\ h.ignored = TRUE /\ h.id = k.id /\ h.seq = k.seq /\ h.sent = k.sent
      BY DEF Sinks
    <2> HIDE DEF h
    <2>3. StreamOf(h) = StreamOf(k)
      BY <2>2 DEF StreamOf
    <2> QED BY <1>2, <2>1, <2>2, <2>3
  <1>3. CASE k.ignored /\ k.pos = 0
    BY <1>1, <1>3 DEF EndOfTransmission
  <1>4. CASE k.ignored /\ k.pos # 0
    <2> DEFINE g == WritePayload(k)
               h == WriteEof(g)
    <2>0. k.pos > 0 /\ k.pos \in 1 .. ChunkSize
      BY <1>1, <1>4, ClientAssumption
    <2>1. EndOfTransmission(k) = h
      BY <1>4 DEF EndOfTransmission
    <2>2. /\ g \in SinkRecs
          /\ g.pos = 0 /\ g.id = k.id /\ g.seq = k.seq + 1 /\ g.ignored = k.ignored
          /\ g.sent = Append(k.sent, Stream!ChunkMsg(k.id, k.seq, k.pos))
      BY <1>1, <2>0, WritePayloadFields
    <2> HIDE DEF g
    <2>3. /\ h \in SinkRecs
          /\ h.pos = g.pos /\ h.id = g.id + 1 /\ h.seq = 0 /\ h.ignored = g.ignored
          /\ h.sent = Append(g.sent, Stream!EndMsg(g.id))
      BY <2>2, WriteEofFields
    <2> HIDE DEF h
    <2>4. h \in Sinks
      BY <2>2, <2>3, RecsAreSinks, ClientAssumption
    <2>5. StreamOf(h) = Stream!SendingEnd(Stream!SendingChunk(StreamOf(k), k.pos))
      <3> DEFINE r == StreamOf(k)
                 q == Stream!SendingChunk(r, k.pos)
                 e == Stream!SendingEnd(q)
                 w == StreamOf(h)
      <3>1. r \in StreamRecs /\ r.id = k.id /\ r.seq = k.seq /\ r.sent = k.sent
        BY <1>1, StreamFields
      <3>2. w \in StreamRecs /\ w.id = h.id /\ w.seq = h.seq /\ w.sent = h.sent
        BY <2>3, StreamFields
      <3> HIDE DEF r, w
      <3>3. /\ q \in StreamRecs /\ q.id = r.id /\ q.seq = r.seq + 1
            /\ q.sent = Append(r.sent, Stream!ChunkMsg(r.id, r.seq, k.pos))
        BY <3>1, <2>0, StreamChunk
      <3> HIDE DEF q
      <3>4. /\ e \in StreamRecs /\ e.id = q.id + 1 /\ e.seq = 0
            /\ e.sent = Append(q.sent, Stream!EndMsg(q.id))
        BY <3>3, StreamEnd
      <3> HIDE DEF e
      <3>a. w.id = e.id /\ w.seq = e.seq
        BY <2>2, <2>3, <3>1, <3>2, <3>3, <3>4
      <3>b. w.sent = e.sent
        BY <2>2, <2>3, <3>1, <3>2, <3>3, <3>4
      <3>5. w = e
        BY <3>2, <3>4, <3>a, <3>b, StreamEqual
      <3> QED BY <3>5 DEF e, q, r, w
    <2> QED BY <1>1, <1>4, <2>0, <2>1, <2>2, <2>3, <2>4, <2>5
  <1> QED BY <1>1, <1>2, <1>3, <1>4

(* A spec is a step of the stream.                                          *)
LEMMA SpecStep ==
    ASSUME NEW k \in Sinks
    PROVE  LET h == WriteSpec(k) IN
           /\ h \in Sinks /\ h.pos = k.pos /\ h.ignored = k.ignored
           /\ StreamOf(h) = Stream!Sending(StreamOf(k), Stream!SpecMsg)
  <1> DEFINE h == WriteSpec(k)
             r == StreamOf(k)
             q == Stream!Sending(r, Stream!SpecMsg)
             w == StreamOf(h)
  <1>1. k \in SinkRecs /\ k.pos < ChunkSize
    BY SinksAreRecs
  <1>2. Stream!SpecMsg \in Stream!Datagrams
    BY DEF Stream!SpecMsg, Stream!Datagrams
  <1>3. /\ h \in SinkRecs
        /\ h.pos = k.pos /\ h.id = k.id /\ h.seq = k.seq /\ h.ignored = k.ignored
        /\ h.sent = Append(k.sent, Stream!SpecMsg)
    BY <1>1, <1>2, SendingFields DEF WriteSpec
  <1> HIDE DEF h
  <1>4. h \in Sinks
    BY <1>1, <1>3, RecsAreSinks
  <1>5. r \in StreamRecs /\ r.id = k.id /\ r.seq = k.seq /\ r.sent = k.sent
    BY <1>1, StreamFields
  <1>6. w \in StreamRecs /\ w.id = h.id /\ w.seq = h.seq /\ w.sent = h.sent
    BY <1>3, StreamFields
  <1> HIDE DEF r, w
  <1>a. Append(r.sent, Stream!SpecMsg) \in Seq(Stream!Datagrams)
    BY <1>2, <1>5 DEF StreamRecs
  <1>7. q \in StreamRecs /\ q.id = r.id /\ q.seq = r.seq /\ q.sent = Append(r.sent, Stream!SpecMsg)
    BY <1>5, <1>a DEF Stream!Sending, StreamRecs
  <1> HIDE DEF q
  <1>8. w = q
    BY <1>3, <1>5, <1>6, <1>7, StreamEqual
  <1> QED BY <1>3, <1>4, <1>8 DEF h, q, r, w
-----------------------------------------------------------------------------
(* The inductive invariant *)

\* NoSampleStranded needs to know that the first end of transmission set
\* first_payload_ignored, and that no payload is processed after finished().
ClientInv ==
    /\ ClientTypeOK
    /\ ends > 0 => sink.ignored
    /\ todo > 0 => phase = "running"
    /\ NoSampleStranded

LEMMA ClientInitInv == ClientInit => ClientInv
  <1> SUFFICES ASSUME ClientInit PROVE ClientInv
    OBVIOUS
  <1>1. GateTypeOK
    BY DEF ClientInit, GateInit, GateTypeOK, GateStates
  <1>2. sink \in Sinks
    <2>1. <<Stream!SpecMsg>> \in Seq(Stream!Datagrams)
      BY DEF Stream!SpecMsg, Stream!Datagrams
    <2>2. 0 \in 0 .. ChunkSize - 1
      BY ClientAssumption
    <2> QED BY <2>1, <2>2 DEF ClientInit, Sinks
  <1> QED BY <1>1, <1>2, ClientAssumption DEF ClientInit, ClientInv, ClientTypeOK, NoSampleStranded

\* What a step does to the datagrams.
StreamStepped == [Stream!StreamNext]_(StreamOf(sink))

LEMMA EndIsStreamStep ==
    ASSUME Stream!Budget(StreamOf(sink)),
           \/ StreamOf(sink') = StreamOf(sink)
           \/ \E n \in 1 .. ChunkSize :
                 StreamOf(sink') = Stream!SendingEnd(Stream!SendingChunk(StreamOf(sink), n))
    PROVE  StreamStepped
  <1>1. CASE StreamOf(sink') = StreamOf(sink)
    BY <1>1 DEF StreamStepped
  <1>2. ASSUME NEW n \in 1 .. ChunkSize,
               StreamOf(sink') = Stream!SendingEnd(Stream!SendingChunk(StreamOf(sink), n))
        PROVE  StreamStepped
    <2>1. Stream!SendLastChunk(n)
      BY <1>2 DEF Stream!SendLastChunk
    <2> QED BY <2>1 DEF StreamStepped, Stream!StreamNext
  <1> QED BY <1>1, <1>2

LEMMA ClientStep ==
    ASSUME ClientInv, [ClientNext]_clientVars
    PROVE  ClientInv' /\ StreamStepped
  <1> USE ClientAssumption
  <1>0. sink \in Sinks /\ sink.pos \in Nat /\ sink.ignored \in BOOLEAN
    BY DEF ClientInv, ClientTypeOK, Sinks
  <1>b. Stream!Budget(sink) <=> Stream!Budget(StreamOf(sink))
    BY DEF Stream!Budget, StreamOf
  <1>1. CASE InputData
    BY <1>1 DEF InputData, ClientInv, ClientTypeOK, GateTypeOK, NoSampleStranded, StreamStepped
  <1>2. CASE TakePayload
    BY <1>2 DEF TakePayload, ClientInv, ClientTypeOK, GateTypeOK, NoSampleStranded, StreamStepped
  <1>3. ASSUME NEW s \in Samples, ProcessSample(s)
        PROVE  ClientInv' /\ StreamStepped
    <2>1. GateTypeOK'
      <3>1. Process(s) /\ GateTypeOK
        BY <1>3 DEF ProcessSample, ClientInv, ClientTypeOK
      <3> QED BY <3>1, GateTypeStep DEF GateNext
    <2>2. /\ ring' \in 0 .. RingCapacity /\ todo' \in 0 .. ChunkSize
          /\ phase' \in {"running", "finishing", "stopped"} /\ recorded' \in Nat
          /\ ends' \in 0 .. 2
      BY <1>3 DEF ProcessSample, ClientInv, ClientTypeOK
    <2>3. CASE call' = "record"
      <3>1. sink' = Record(sink) /\ ends' = ends /\ Stream!Budget(sink) /\ phase' = phase
        BY <1>3, <2>3 DEF ProcessSample
      <3>2. /\ sink' \in Sinks /\ sink'.ignored = sink.ignored
            /\ \/ StreamOf(sink') = StreamOf(sink)
               \/ StreamOf(sink') = Stream!SendingChunk(StreamOf(sink), ChunkSize)
        BY <1>0, <3>1, RecordStep
      <3>3. gate'.state # "Closed"
        BY <1>3, <2>3 DEF ProcessSample, Process, SinkCall, IsOpen
      <3>4. phase = "running"
        BY <1>3 DEF ProcessSample, ClientInv
      <3>5. ClientInv'
        BY <2>1, <2>2, <3>1, <3>2, <3>3, <3>4 DEF ClientInv, ClientTypeOK, NoSampleStranded
      <3>6. StreamStepped
        <4>1. CASE StreamOf(sink') = StreamOf(sink)
          BY <4>1 DEF StreamStepped
        <4>2. CASE StreamOf(sink') = Stream!SendingChunk(StreamOf(sink), ChunkSize)
          <5>1. ChunkSize \in 1 .. ChunkSize
            OBVIOUS
          <5>2. Stream!SendChunk(ChunkSize)
            BY <1>b, <3>1, <4>2 DEF Stream!SendChunk
          <5> QED BY <5>1, <5>2 DEF StreamStepped, Stream!StreamNext
        <4> QED BY <3>2, <4>1, <4>2
      <3> QED BY <3>5, <3>6
    <2>4. CASE call' = "end"
      <3>1. sink' = EndOfTransmission(sink) /\ Stream!Budget(sink)
        BY <1>3, <2>4 DEF ProcessSample
      <3>2. /\ sink' \in Sinks /\ sink'.ignored = TRUE
            /\ sink.ignored => sink'.pos = 0
            /\ \/ StreamOf(sink') = StreamOf(sink)
               \/ \E n \in 1 .. ChunkSize :
                     StreamOf(sink') = Stream!SendingEnd(Stream!SendingChunk(StreamOf(sink), n))
        BY <1>0, <3>1, EndStep
      <3>3. ends > 0 => sink.ignored
        BY DEF ClientInv
      <3>4. (ends' = 2 => sink'.pos = 0) /\ phase' = "running"
        BY <1>3, <2>4, <3>2, <3>3 DEF ProcessSample, ClientInv, ClientTypeOK
      <3>5. ClientInv'
        BY <2>1, <2>2, <3>2, <3>4 DEF ClientInv, ClientTypeOK, NoSampleStranded
      <3>6. StreamStepped
        BY <1>b, <3>1, <3>2, EndIsStreamStep
      <3> QED BY <3>5, <3>6
    <2>5. CASE call' = "none"
      <3>1. sink' = sink /\ ends' = ends /\ phase' = phase
        BY <1>3, <2>5 DEF ProcessSample
      <3>2. gate.state = "Closed"
        BY <1>3, <2>5 DEF ProcessSample, Process, SinkCall, IsOpen, ClientInv, ClientTypeOK,
                         GateTypeOK, GateStates, Open, Closed, Closing
      <3>3. phase = "running"
        BY <1>3 DEF ProcessSample, ClientInv
      <3>4. ClientInv'
        BY <2>1, <2>2, <3>1, <3>2, <3>3 DEF ClientInv, ClientTypeOK, NoSampleStranded
      <3> QED BY <3>1, <3>4 DEF StreamStepped
    <2> QED BY <2>1, <2>3, <2>4, <2>5 DEF GateTypeOK
  <1>4. CASE Handshake
    <2>1. sink' = WriteSpec(sink) /\ Stream!Budget(sink)
      BY <1>4 DEF Handshake
    <2>2. /\ sink' \in Sinks /\ sink'.pos = sink.pos /\ sink'.ignored = sink.ignored
          /\ StreamOf(sink') = Stream!Sending(StreamOf(sink), Stream!SpecMsg)
      BY <1>0, <2>1, SpecStep
    <2>3. ClientInv'
      BY <1>4, <2>2 DEF Handshake, ClientInv, ClientTypeOK, GateTypeOK, NoSampleStranded
    <2>4. Stream!SendSpec
      BY <1>b, <2>1, <2>2 DEF Stream!SendSpec
    <2> QED BY <2>3, <2>4 DEF StreamStepped, Stream!StreamNext
  <1>5. CASE Finished
    <2>1. sink' = EndOfTransmission(sink) /\ Stream!Budget(sink)
      BY <1>5 DEF Finished
    <2>2. /\ sink' \in Sinks /\ sink'.ignored = TRUE
          /\ sink.ignored => sink'.pos = 0
          /\ \/ StreamOf(sink') = StreamOf(sink)
             \/ \E n \in 1 .. ChunkSize :
                   StreamOf(sink') = Stream!SendingEnd(Stream!SendingChunk(StreamOf(sink), n))
      BY <1>0, <2>1, EndStep
    <2>3. ends' = 2 => sink'.pos = 0
      BY <1>5, <2>2 DEF Finished, ClientInv, ClientTypeOK
    <2>4. ClientInv'
      BY <1>5, <2>2, <2>3 DEF Finished, ClientInv, ClientTypeOK, GateTypeOK, NoSampleStranded
    <2>5. StreamStepped
      BY <1>b, <2>1, <2>2, EndIsStreamStep
    <2> QED BY <2>4, <2>5
  <1>6. CASE Stop
    BY <1>6 DEF Stop, ClientInv, ClientTypeOK, GateTypeOK, NoSampleStranded, StreamStepped
  <1>7. CASE UNCHANGED clientVars
    BY <1>7 DEF clientVars, ClientInv, ClientTypeOK, GateTypeOK, NoSampleStranded, StreamStepped
  <1> QED BY <1>1, <1>2, <1>3, <1>4, <1>5, <1>6, <1>7 DEF ClientNext

(* The write position never leaves the buffer, for every chunk size.        *)
THEOREM ClientTypeCorrect == ClientSpec => []ClientTypeOK
  <1>1. ClientInv /\ [ClientNext]_clientVars => ClientInv'
    BY ClientStep
  <1>2. ClientInv => ClientTypeOK
    BY DEF ClientInv
  <1> QED BY <1>1, <1>2, ClientInitInv, PTL DEF ClientSpec

(* After the second end of transmission silence never holds samples back.   *)
THEOREM ClientStrandsNoSample == ClientSpec => []NoSampleStranded
  <1>1. ClientInv /\ [ClientNext]_clientVars => ClientInv'
    BY ClientStep
  <1>2. ClientInv => NoSampleStranded
    BY DEF ClientInv
  <1> QED BY <1>1, <1>2, ClientInitInv, PTL DEF ClientSpec

(* The client implements the stream: the noise gate, the buffer, the        *)
(* handshakes and the shutdown only ever produce well-formed datagrams.     *)
THEOREM ClientImplementsStream == ClientSpec => ImplementsStream
  <1>1. ClientInit => Stream!StreamInit
    BY DEF ClientInit, Stream!StreamInit, StreamOf
  <1>2. ClientInv /\ [ClientNext]_clientVars => ClientInv' /\ [Stream!StreamNext]_(StreamOf(sink))
    BY ClientStep DEF StreamStepped
  <1> QED BY <1>1, <1>2, ClientInitInv, PTL
          DEF ClientSpec, ImplementsStream, Stream!StreamSpec

(* So what AudioStreamProofs shows of every stream holds of the client.     *)
THEOREM ClientFramed == ClientSpec => []Framed
  <1>1. ClientInit => Steps!StreamInit
    BY DEF ClientInit, Steps!StreamInit, StreamOf, Stream!SpecMsg, Steps!SpecMsg
  <1>2. ClientInv /\ [ClientNext]_clientVars => ClientInv' /\ [Steps!StreamNext]_(StreamOf(sink))
    <2>1. Stream!StreamNext => Steps!StreamNext
      BY DEF Stream!StreamNext, Stream!SendSpec, Stream!SendChunk, Stream!SendLastChunk,
             Stream!Budget, Stream!Sending, Stream!SendingChunk, Stream!SendingEnd,
             Stream!SpecMsg, Stream!ChunkMsg, Stream!EndMsg,
             Steps!StreamNext, Steps!SendSpec, Steps!SendChunk, Steps!SendLastChunk,
             Steps!Budget, Steps!Sending, Steps!SendingChunk, Steps!SendingEnd,
             Steps!SpecMsg, Steps!ChunkMsg, Steps!EndMsg
    <2> QED BY <2>1, ClientStep DEF StreamStepped
  <1>3. Steps!Framing => Framed
    BY DEF Framed, Stream!Framing, Stream!ChunksConsecutive, Stream!EndIsLast, Stream!IsChunkOf,
           Stream!IsEndOf, Steps!Framing, Steps!ChunksConsecutive, Steps!EndIsLast,
           Steps!IsChunkOf, Steps!IsEndOf
  <1>4. Steps!StreamSpec => []Steps!Framing
    <2>1. Steps!StreamAssumption
      BY ClientAssumption DEF Steps!StreamAssumption
    <2> QED BY <2>1, Steps!StreamFramed, PTL
  <1> QED BY <1>1, <1>2, <1>3, <1>4, ClientInitInv, PTL DEF ClientSpec, Steps!StreamSpec

-----------------------------------------------------------------------------
(* The threads of the client *)

\* While main() is in waker_thread.join the actor is not being polled: both
\* need the one thread.
JoinHoldsThread == main = "joining" => poll = "idle"

\* A waker is dropped only with the thread that ends.
DroppedAtTheEnd == asleep => waker = "gone"

ThreadsInv ==
    ThreadsTypeOK /\ JoinHoldsThread /\ DroppedAtTheEnd /\ StreamPolledAgain

\* Every step of the threaded client is a step of the handlers, or none.
LEMMA ShutdownStepIsClientStep ==
    [ShutdownNext]_shutdownVars => [ClientNext]_clientVars
<1> SUFFICES ASSUME [ShutdownNext]_shutdownVars
             PROVE  [ClientNext]_clientVars
    OBVIOUS
<1>1. CASE Records
    BY <1>1 DEF Records, ClientNext
<1>2. CASE TakesHandshake
    BY <1>2 DEF TakesHandshake, ClientNext
<1>3. CASE TakesPayload
    BY <1>3 DEF TakesPayload, ClientNext
<1>4. CASE \E s \in Samples : TakesSample(s)
    BY <1>4 DEF TakesSample, ClientNext
<1>5. CASE EndPayloads
    BY <1>5 DEF EndPayloads, ClientNext
<1>6. CASE Stops
    BY <1>6 DEF Stops, ClientNext
<1>7. CASE \/ Arrives \/ BeginPoll \/ PollsPayloads \/ SendWaker
           \/ WakerThread \/ Interrupt \/ MainThread
    BY <1>7 DEF Arrives, BeginPoll, PollsPayloads, SendWaker, WakerThread, TakeWaker,
        Wake, TakeTerminate, Interrupt, MainThread, Joined, Exit
<1>8. CASE UNCHANGED shutdownVars
    BY <1>8 DEF shutdownVars
<1> QED
    BY <1>1, <1>2, <1>3, <1>4, <1>5, <1>6, <1>7, <1>8 DEF ShutdownNext, Actor

LEMMA ShutdownInitInv == ShutdownInit => ThreadsInv
<1> SUFFICES ASSUME ShutdownInit PROVE ThreadsInv
    OBVIOUS
<1>1. woken \in BOOLEAN /\ asleep \in BOOLEAN
    BY Zenon DEF ShutdownInit
<1>2. ThreadsTypeOK /\ JoinHoldsThread /\ DroppedAtTheEnd
    BY <1>1 DEF ShutdownInit, ThreadsTypeOK, JoinHoldsThread, DroppedAtTheEnd
<1>3. StreamPolledAgain
    BY Zenon DEF ShutdownInit, StreamPolledAgain, PollComing
<1> QED
    BY <1>1, <1>2, <1>3 DEF ThreadsInv

\* The steps of a handler leave the threads alone, and only finished() and
\* the stop change the phase.
LEMMA HandlerKeepsPhase ==
    InputData \/ TakePayload \/ (\E s \in Samples : ProcessSample(s)) \/ Handshake
        => phase' = phase
    BY DEF InputData, TakePayload, ProcessSample, Handshake

LEMMA ShutdownStep ==
    ThreadsInv /\ [ShutdownNext]_shutdownVars => ThreadsInv'
<1> SUFFICES ASSUME ThreadsInv, [ShutdownNext]_shutdownVars
             PROVE  ThreadsInv'
    OBVIOUS
<1> USE DEF ThreadsInv, ThreadsTypeOK, JoinHoldsThread, DroppedAtTheEnd,
           StreamPolledAgain, PollComing
<1>1. CASE Records
    BY <1>1, HandlerKeepsPhase DEF Records, threads
<1>2. CASE TakesHandshake
    BY <1>2, HandlerKeepsPhase DEF TakesHandshake, threads
<1>3. CASE TakesPayload
    BY <1>3, HandlerKeepsPhase DEF TakesPayload, threads
<1>4. CASE \E s \in Samples : TakesSample(s)
    BY <1>4, HandlerKeepsPhase DEF TakesSample, threads
<1>5. CASE EndPayloads
    BY <1>5 DEF EndPayloads, Finished
<1>6. CASE Stops
    BY <1>6 DEF Stops, Stop, threads
<1>7. CASE Arrives
    BY <1>7 DEF Arrives, clientVars
<1>8. CASE BeginPoll
    BY <1>8 DEF BeginPoll, ThreadFree, clientVars
<1>9. CASE PollsPayloads
    BY <1>9 DEF PollsPayloads, clientVars
<1>10. CASE SendWaker
    BY <1>10 DEF SendWaker, clientVars
<1>11. CASE TakeWaker
    BY <1>11 DEF TakeWaker, clientVars
<1>12. CASE Wake
    BY <1>12 DEF Wake, clientVars
<1>13. CASE TakeTerminate
  <2>1. asleep' \in BOOLEAN
    BY <1>13, Zenon DEF TakeTerminate
  <2>2. ThreadsTypeOK' /\ JoinHoldsThread'
    BY <1>13, <2>1 DEF TakeTerminate
  <2>3. phase' = phase /\ poll' = poll /\ woken' = woken
    BY <1>13 DEF TakeTerminate, clientVars
  <2>4. waker # "sleep"
    BY <1>13 DEF TakeTerminate
  <2>5. asleep' <=> wakers = 1 /\ ~woken
    BY <1>13, Zenon DEF TakeTerminate
  <2>6. DroppedAtTheEnd' /\ ~asleep
    BY <1>13 DEF TakeTerminate
  <2>7. CASE woken
    BY <2>2, <2>3, <2>6, <2>7
  <2>8. CASE ~woken
    BY <2>2, <2>3, <2>4, <2>5, <2>6, <2>8
  <2> QED
    BY <2>7, <2>8
<1>14. CASE Interrupt
    BY <1>14 DEF Interrupt, clientVars
<1>15. CASE MainThread
    BY <1>15 DEF MainThread, Joined, Exit, clientVars
<1>16. CASE UNCHANGED shutdownVars
    BY <1>16 DEF shutdownVars, clientVars, threads
<1> QED
    BY <1>1, <1>2, <1>3, <1>4, <1>5, <1>6, <1>7, <1>8, <1>9, <1>10, <1>11, <1>12,
       <1>13, <1>14, <1>15, <1>16 DEF ShutdownNext, Actor, WakerThread

-----------------------------------------------------------------------------

\* The waker is never lost between the actor and the waker thread before the
\* terminate message overtakes it, whatever datagrams and the user do.
THEOREM ShutdownPollsAgain == ShutdownSpec => []StreamPolledAgain
<1>1. ThreadsInv => StreamPolledAgain
    BY DEF ThreadsInv
<1> QED
    BY <1>1, ShutdownInitInv, ShutdownStep, PTL DEF ShutdownSpec

\* With its threads, wakers and shutdown the client does nothing that the
\* handlers alone could not do.
THEOREM ShutdownImplementsClient == ShutdownSpec => ClientSpec
<1>1. ShutdownInit => ClientInit
    BY DEF ShutdownInit
<1> QED
    BY <1>1, ShutdownStepIsClientStep, PTL DEF ShutdownSpec, ClientSpec

\* Hence the datagrams of the threaded client are framed as the server relies
\* on, however polls, wakes and the interrupt interleave.
THEOREM ShutdownFramed == ShutdownSpec => []Framed
    BY ShutdownImplementsClient, ClientFramed, PTL

-----------------------------------------------------------------------------
(* No sample is lost or sent twice *)

\* f is the running total of the samples in s.
Totals(f, s) ==
    f = [i \in 0 .. Len(s) |-> IF i = 0 THEN 0 ELSE f[i - 1] + FillOf(s[i])]

\* The datagrams of s hold n samples: s has a running total, and every one of
\* them ends at n.  Said so, a datagram more is a step and not an induction.
Counted(s, n) ==
    /\ \E f : Totals(f, s)
    /\ \A f : Totals(f, s) => f[Len(s)] = n

LEMMA CountedIs ==
    ASSUME NEW s, NEW n, Counted(s, n)
    PROVE  SamplesIn(s) = n
  <1>1. SamplesIn(s) = (CHOOSE f : Totals(f, s))[Len(s)]
    BY DEF SamplesIn, Totals
  <1>2. Totals(CHOOSE f : Totals(f, s), s)
    BY Zenon DEF Counted
  <1> QED BY <1>1, <1>2 DEF Counted

LEMMA FillNat == ASSUME NEW m \in Stream!Datagrams PROVE FillOf(m) \in Nat
  BY ClientAssumption DEF FillOf, Stream!Datagrams

LEMMA CountedOne ==
    ASSUME NEW m \in Stream!Datagrams
    PROVE  Counted(<<m>>, FillOf(m))
  <1> DEFINE s == <<m>>
             v == FillOf(m)
  <1>1. Len(s) = 1 /\ s[1] = m
    OBVIOUS
  <1>2. v \in Nat
    BY FillNat
  <1> HIDE DEF s, v
  <1>3. ASSUME NEW f, Totals(f, s)
        PROVE  f[1] = v
    <2>1. f[0] = 0
      BY <1>1, <1>3 DEF Totals
    <2>2. f[1] = f[0] + FillOf(s[1])
      BY <1>1, <1>3 DEF Totals
    <2> QED BY <1>1, <1>2, <2>1, <2>2 DEF v
  <1>4. Totals([i \in 0 .. 1 |-> IF i = 0 THEN 0 ELSE v], s)
    <2> DEFINE g == [i \in 0 .. 1 |-> IF i = 0 THEN 0 ELSE v]
    <2>1. g[0] = 0 /\ g[1] = v
      OBVIOUS
    <2> HIDE DEF g
    <2>2. \A i \in 0 .. 1 : (IF i = 0 THEN 0 ELSE v)
                            = (IF i = 0 THEN 0 ELSE g[i - 1] + FillOf(s[i]))
      BY <1>1, <1>2, <2>1 DEF v
    <2>3. g = [i \in 0 .. Len(s) |-> IF i = 0 THEN 0 ELSE g[i - 1] + FillOf(s[i])]
      BY <1>1, <2>2 DEF g
    <2> QED BY <2>3 DEF Totals, g
  <1> QED BY <1>1, <1>3, <1>4 DEF Counted, s, v

LEMMA CountedAppend ==
    ASSUME NEW s \in Seq(Stream!Datagrams), NEW m \in Stream!Datagrams, NEW n \in Nat,
           Counted(s, n)
    PROVE  Counted(Append(s, m), n + FillOf(m))
  <1> DEFINE t == Append(s, m)
             l == Len(s)
             v == FillOf(m)
  <1>1. /\ l \in Nat /\ Len(t) = l + 1 /\ t[l + 1] = m
        /\ \A i \in 1 .. l : t[i] = s[i]
    BY AppendProperties, LenProperties
  <1>2. v \in Nat
    BY FillNat
  <1> HIDE DEF t, l, v
  <1>3. ASSUME NEW f, Totals(f, t)
        PROVE  f[l + 1] = n + v
    <2> DEFINE g == [i \in 0 .. l |-> f[i]]
    <2>1. \A i \in 0 .. l + 1 : f[i] = IF i = 0 THEN 0 ELSE f[i - 1] + FillOf(t[i])
      BY <1>1, <1>3 DEF Totals
    <2>2. \A i \in 0 .. l : f[i] = IF i = 0 THEN 0 ELSE g[i - 1] + FillOf(s[i])
      BY <1>1, <2>1
    <2>3. g = [i \in 0 .. l |-> IF i = 0 THEN 0 ELSE g[i - 1] + FillOf(s[i])]
      BY <2>2
    <2>4. Totals(g, s)
      BY <2>3 DEF Totals, l
    <2>5. g[l] = n
      BY <2>4 DEF Counted, l
    <2>6. f[l] = n
      BY <1>1, <2>5
    <2>7. f[l + 1] = f[l] + FillOf(t[l + 1])
      BY <1>1, <2>1
    <2> QED BY <1>1, <2>6, <2>7 DEF v
  <1>4. \E f : Totals(f, t)
    <2>1. PICK g : Totals(g, s)
      BY DEF Counted
    <2>2. g[l] = n
      BY <2>1 DEF Counted, l
    <2>3. \A i \in 0 .. l : g[i] = IF i = 0 THEN 0 ELSE g[i - 1] + FillOf(s[i])
      BY <2>1 DEF Totals, l
    <2> DEFINE f == [i \in 0 .. l + 1 |-> IF i = l + 1 THEN n + v ELSE g[i]]
    <2>4. f[l + 1] = n + v /\ \A i \in 0 .. l : f[i] = g[i]
      BY <1>1
    <2>5. DOMAIN f = 0 .. l + 1 /\ f = [i \in 0 .. l + 1 |-> f[i]]
      OBVIOUS
    <2> HIDE DEF f
    <2>6. ASSUME NEW i \in 0 .. l + 1
          PROVE  f[i] = IF i = 0 THEN 0 ELSE f[i - 1] + FillOf(t[i])
      <3>1. CASE i = l + 1
        <4>1. i - 1 = l /\ i # 0 /\ l \in 0 .. l
          BY <1>1, <3>1
        <4> QED BY <1>1, <2>2, <2>4, <3>1, <4>1 DEF v
      <3>2. CASE i = 0
        BY <1>1, <2>3, <2>4, <3>2
      <3>3. CASE i \in 1 .. l
        <4>1. i \in 0 .. l /\ i - 1 \in 0 .. l /\ i # 0
          BY <1>1, <3>3
        <4> QED BY <1>1, <2>3, <2>4, <3>3, <4>1
      <3> QED BY <1>1, <3>1, <3>2, <3>3
    <2>7. f = [i \in 0 .. l + 1 |-> IF i = 0 THEN 0 ELSE f[i - 1] + FillOf(t[i])]
      BY <2>5, <2>6
    <2>8. Totals(f, t)
      BY <1>1, <2>7 DEF Totals
    <2> QED BY <2>8
  <1> QED BY <1>1, <1>3, <1>4 DEF Counted, t, v

\* What an operation of the sink adds to the samples in its datagrams and its
\* buffer together.
Conserved(k, r) == \E n \in Nat : Counted(k.sent, n) /\ r = k.pos + n

LEMMA RecordAddsOne ==
    ASSUME NEW k \in Sinks, NEW r \in Nat, Conserved(k, r)
    PROVE  Conserved(Record(k), r + 1)
  <1> DEFINE f == [k EXCEPT !.pos = @ + 1]
  <1>1. k \in SinkRecs /\ k.pos < ChunkSize
    BY SinksAreRecs
  <1>2. k.pos + 1 \in 0 .. ChunkSize /\ k.pos \in Nat
    BY <1>1, ClientAssumption DEF SinkRecs
  <1>3. /\ f \in SinkRecs /\ f.pos = k.pos + 1 /\ f.sent = k.sent
    BY <1>1, <1>2 DEF SinkRecs
  <1>4. Record(k) = IF f.pos = ChunkSize THEN WritePayload(f) ELSE f
    BY DEF Record
  <1>5. PICK n \in Nat : Counted(k.sent, n) /\ r = k.pos + n
    BY DEF Conserved
  <1> HIDE DEF f
  <1>6. CASE f.pos = ChunkSize
    <2> DEFINE h == WritePayload(f)
               m == Stream!ChunkMsg(f.id, f.seq, f.pos)
    <2>1. f.pos > 0 /\ f.pos \in 1 .. ChunkSize
      BY <1>2, <1>3, <1>6, ClientAssumption
    <2>2. h.pos = 0 /\ h.sent = Append(f.sent, m)
      BY <1>3, <2>1, WritePayloadFields
    <2>3. m \in Stream!Datagrams
      BY <1>3, <2>1, ChunkIsDatagram DEF SinkRecs
    <2>4. FillOf(m) = f.pos
      BY DEF FillOf, Stream!ChunkMsg
    <2>5. f.sent \in Seq(Stream!Datagrams)
      BY <1>3 DEF SinkRecs
    <2> HIDE DEF h, m
    <2>6. Counted(h.sent, n + f.pos)
      BY <1>3, <1>5, <2>2, <2>3, <2>4, <2>5, CountedAppend
    <2>7. n + f.pos \in Nat /\ r + 1 = h.pos + (n + f.pos)
      BY <1>2, <1>3, <1>5, <2>2
    <2>8. Conserved(h, r + 1)
      BY <2>6, <2>7 DEF Conserved
    <2> QED BY <1>4, <1>6, <2>8 DEF h
  <1>7. CASE f.pos # ChunkSize
    <2>1. r + 1 = f.pos + n
      BY <1>2, <1>3, <1>5
    <2>2. Conserved(f, r + 1)
      BY <1>3, <1>5, <2>1 DEF Conserved
    <2> QED BY <1>4, <1>7, <2>2
  <1> QED BY <1>6, <1>7

LEMMA EndAddsNone ==
    ASSUME NEW k \in Sinks, NEW r \in Nat, Conserved(k, r)
    PROVE  Conserved(EndOfTransmission(k), r)
  <1>1. k \in SinkRecs /\ k.pos < ChunkSize /\ k.ignored \in BOOLEAN /\ k.pos \in Nat
    BY SinksAreRecs DEF SinkRecs
  <1>2. PICK n \in Nat : Counted(k.sent, n) /\ r = k.pos + n
    BY DEF Conserved
  <1>3. CASE ~k.ignored
    <2> DEFINE h == [k EXCEPT !.ignored = TRUE]
    <2>1. EndOfTransmission(k) = h
      BY <1>3 DEF EndOfTransmission
    <2>2. h.pos = k.pos /\ h.sent = k.sent
      BY DEF Sinks
    <2> HIDE DEF h
    <2>3. Conserved(h, r)
      BY <1>2, <2>2 DEF Conserved
    <2> QED BY <2>1, <2>3
  <1>4. CASE k.ignored /\ k.pos = 0
    <2>1. EndOfTransmission(k) = k
      BY <1>1, <1>4 DEF EndOfTransmission
    <2> QED BY <2>1
  <1>5. CASE k.ignored /\ k.pos # 0
    <2> DEFINE g == WritePayload(k)
               h == WriteEof(g)
               m == Stream!ChunkMsg(k.id, k.seq, k.pos)
               e == Stream!EndMsg(g.id)
    <2>1. EndOfTransmission(k) = h
      BY <1>5 DEF EndOfTransmission
    <2>2. k.pos > 0 /\ k.pos \in 1 .. ChunkSize
      BY <1>1, <1>5, ClientAssumption
    <2>3. g \in SinkRecs /\ g.pos = 0 /\ g.sent = Append(k.sent, m)
      BY <1>1, <2>2, WritePayloadFields
    <2>4. m \in Stream!Datagrams
      BY <1>1, <2>2, ChunkIsDatagram DEF SinkRecs
    <2>5. FillOf(m) = k.pos
      BY DEF FillOf, Stream!ChunkMsg
    <2>6. k.sent \in Seq(Stream!Datagrams)
      BY <1>1 DEF SinkRecs
    <2> HIDE DEF g, m
    <2>7. h.pos = 0 /\ h.sent = Append(g.sent, e)
      BY <2>3, WriteEofFields
    <2>8. e \in Stream!Datagrams /\ g.sent \in Seq(Stream!Datagrams)
      BY <2>3 DEF SinkRecs, Stream!EndMsg, Stream!Datagrams
    <2>9. FillOf(e) = 0
      BY DEF FillOf, Stream!EndMsg
    <2> HIDE DEF h, e
    <2>10. Counted(g.sent, n + k.pos) /\ n + k.pos \in Nat
      BY <1>1, <1>2, <2>3, <2>4, <2>5, <2>6, CountedAppend
    <2>11. Counted(h.sent, (n + k.pos) + 0)
      BY <2>7, <2>8, <2>9, <2>10, CountedAppend
    <2>12. (n + k.pos) + 0 \in Nat /\ r = h.pos + ((n + k.pos) + 0)
      BY <1>1, <1>2, <2>7
    <2>13. Conserved(h, r)
      BY <2>11, <2>12 DEF Conserved
    <2> QED BY <2>1, <2>13
  <1> QED BY <1>1, <1>3, <1>4, <1>5

LEMMA SpecAddsNone ==
    ASSUME NEW k \in Sinks, NEW r \in Nat, Conserved(k, r)
    PROVE  Conserved(WriteSpec(k), r)
  <1> DEFINE h == WriteSpec(k)
             m == Stream!SpecMsg
  <1>1. k \in SinkRecs /\ k.sent \in Seq(Stream!Datagrams) /\ k.pos \in Nat
    BY SinksAreRecs DEF SinkRecs
  <1>2. PICK n \in Nat : Counted(k.sent, n) /\ r = k.pos + n
    BY DEF Conserved
  <1>3. m \in Stream!Datagrams
    BY DEF Stream!SpecMsg, Stream!Datagrams
  <1>4. h.pos = k.pos /\ h.sent = Append(k.sent, m)
    BY <1>1, <1>3, SendingFields DEF WriteSpec
  <1>5. FillOf(m) = 0
    BY DEF FillOf, Stream!SpecMsg
  <1> HIDE DEF h, m
  <1>6. Counted(h.sent, n + 0)
    BY <1>1, <1>2, <1>3, <1>4, <1>5, CountedAppend
  <1>7. n + 0 \in Nat /\ r = h.pos + (n + 0)
    BY <1>1, <1>2, <1>4
  <1>8. Conserved(h, r)
    BY <1>6, <1>7 DEF Conserved
  <1> QED BY <1>8 DEF h

\* The samples recorded so far are those in the buffer and in the datagrams.
ConservedInv == ClientInv /\ Conserved(sink, recorded)

LEMMA ConservedInit == ClientInit => ConservedInv
  <1> SUFFICES ASSUME ClientInit PROVE Conserved(sink, recorded)
    BY ClientInitInv DEF ConservedInv
  <1>1. Stream!SpecMsg \in Stream!Datagrams /\ FillOf(Stream!SpecMsg) = 0
    BY DEF Stream!SpecMsg, Stream!Datagrams, FillOf
  <1>2. Counted(<<Stream!SpecMsg>>, 0)
    BY <1>1, CountedOne
  <1>3. sink.pos = 0 /\ sink.sent = <<Stream!SpecMsg>> /\ recorded = 0
    BY DEF ClientInit
  <1> QED BY <1>2, <1>3 DEF Conserved

LEMMA ConservedStep == ConservedInv /\ [ClientNext]_clientVars => ConservedInv'
  <1> SUFFICES ASSUME ConservedInv, [ClientNext]_clientVars
               PROVE  Conserved(sink', recorded')
    BY ClientStep DEF ConservedInv
  <1>0. sink \in Sinks /\ recorded \in Nat /\ Conserved(sink, recorded)
    BY DEF ConservedInv, ClientInv, ClientTypeOK
  <1>1. CASE sink' = sink /\ recorded' = recorded
    BY <1>0, <1>1
  <1>2. CASE InputData \/ TakePayload \/ Stop \/ UNCHANGED clientVars
    BY <1>1, <1>2 DEF InputData, TakePayload, Stop, clientVars
  <1>3. ASSUME NEW s \in Samples, ProcessSample(s)
        PROVE  Conserved(sink', recorded')
    <2>1. CASE call' = "record"
      <3>1. sink' = Record(sink) /\ recorded' = recorded + 1
        BY <1>3, <2>1 DEF ProcessSample
      <3> QED BY <1>0, <3>1, RecordAddsOne
    <2>2. CASE call' = "end"
      <3>1. sink' = EndOfTransmission(sink) /\ recorded' = recorded
        BY <1>3, <2>2 DEF ProcessSample
      <3> QED BY <1>0, <3>1, EndAddsNone
    <2>3. CASE call' # "record" /\ call' # "end"
      BY <1>1, <1>3, <2>3 DEF ProcessSample
    <2> QED BY <2>1, <2>2, <2>3
  <1>4. CASE Handshake
    <2>1. sink' = WriteSpec(sink) /\ recorded' = recorded
      BY <1>4 DEF Handshake
    <2> QED BY <1>0, <2>1, SpecAddsNone
  <1>5. CASE Finished
    <2>1. sink' = EndOfTransmission(sink) /\ recorded' = recorded
      BY <1>5 DEF Finished
    <2> QED BY <1>0, <2>1, EndAddsNone
  <1> QED BY <1>2, <1>3, <1>4, <1>5 DEF ClientNext

(* record(), the flush of a full buffer and the end of a transmission       *)
(* neither drop nor repeat a sample, for every chunk size and every number  *)
(* of datagrams.                                                            *)
THEOREM ClientConservesSamples == ClientSpec => []SamplesConserved
  <1>1. ConservedInv => SamplesConserved
    <2> SUFFICES ASSUME ConservedInv PROVE SamplesConserved
      OBVIOUS
    <2>1. PICK n \in Nat : Counted(sink.sent, n) /\ recorded = sink.pos + n
      BY DEF ConservedInv, Conserved
    <2>2. SamplesIn(sink.sent) = n
      BY <2>1, CountedIs
    <2> QED BY <2>1, <2>2 DEF SamplesConserved
  <1> QED BY <1>1, ConservedInit, ConservedStep, PTL DEF ClientSpec

-----------------------------------------------------------------------------
(* The gate inside the client, and the threaded client *)

(* Between two samples the handlers and the shutdown leave the gate alone,  *)
(* so that it keeps its contract whatever surrounds it.                     *)
THEOREM ClientKeepsContract == ClientSpec => ImplementsContract
  <1>1. ClientInit => GateInit
    BY DEF ClientInit
  <1>2. [ClientNext]_clientVars => [GateNext]_gateVars
    <2> SUFFICES ASSUME [ClientNext]_clientVars PROVE [GateNext]_gateVars
      OBVIOUS
    <2>1. ASSUME NEW s \in Samples, ProcessSample(s)
          PROVE  GateNext
      BY <2>1 DEF ProcessSample, GateNext
    <2>2. CASE InputData \/ TakePayload \/ Handshake \/ Finished \/ Stop \/ UNCHANGED clientVars
      BY <2>2 DEF InputData, TakePayload, Handshake, Finished, Stop, clientVars, gateVars
    <2> QED BY <2>1, <2>2 DEF ClientNext
  <1>3. ClientSpec => GateSpec
    BY <1>1, <1>2, PTL DEF ClientSpec, GateSpec
  <1> QED BY <1>3, GateImplementsContract

(* What the run audio_client checks of the handlers under the threads of    *)
(* main(), the wakers and the interrupt, for every value of the constants.  *)
THEOREM ShutdownSafe ==
    ShutdownSpec => [](ClientTypeOK /\ NoSampleStranded /\ SamplesConserved)
  BY ShutdownImplementsClient, ClientTypeCorrect, ClientStrandsNoSample,
     ClientConservesSamples, PTL

(* Both refinements hold of the threaded client as well.                    *)
THEOREM ShutdownRefines ==
    ShutdownSpec => ImplementsStream /\ ImplementsContract
  BY ShutdownImplementsClient, ClientImplementsStream, ClientKeepsContract, PTL
=============================================================================
