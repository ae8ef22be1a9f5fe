---------------------------- MODULE AudioClient ----------------------------
(***************************************************************************)
(* The audio client, backend/audio-client/src/main.rs: microphone callback,*)
(* ring buffer, AudioCollector actor with its noise gate, and AudioSink.   *)
(*                                                                         *)
(* Two threads run: the audio callback, which fills the ring buffer, and   *)
(* the actor thread.  A handler of the actor runs to its end before the    *)
(* next one; the loop over a payload is cut into one step per sample, and  *)
(* todo > 0 keeps every other handler out while it runs.                   *)
(*                                                                         *)
(* UdpSink hands datagrams to a SinkWrite; one it refuses is dropped and   *)
(* only reported, which the lossy network behind it covers.                *)
(***************************************************************************)
EXTENDS NoiseGate, Sequences

CONSTANTS ChunkSize, SizeModulus, MaxDatagrams,
    RingCapacity    \* capacity of the ArrayQueue between the two threads

ASSUME ClientAssumption ==
    /\ ChunkSize \in Nat \ {0}
    /\ SizeModulus \in Nat \ {0}
    /\ MaxDatagrams \in Nat
    /\ RingCapacity \in Nat /\ RingCapacity >= ChunkSize

VARIABLES
    ring,     \* samples in the ring buffer
    todo,     \* samples of the current payload still to be processed
    phase,    \* AudioCollector: "running", "finishing" or "stopped"
    sink,     \* AudioSink: pos, id, seq, ignored (first_payload_ignored), sent
    ends,     \* history: calls of end_of_transmission, counted up to 2
    recorded  \* history: calls of record

clientVars == <<gate, call, ring, todo, phase, sink, ends, recorded>>

\* The stream of datagrams of this client.
StreamOf(k) == [id |-> k.id, seq |-> k.seq, sent |-> k.sent]
Stream == INSTANCE AudioStream WITH stream <- StreamOf(sink)

-----------------------------------------------------------------------------
(* AudioSink *)

WriteSpec(k) == Stream!Sending(k, Stream!SpecMsg)

WritePayload(k) == [Stream!SendingChunk(k, k.pos) EXCEPT !.pos = 0]

\* The sequence number is not restarted with the new uuid.
WriteEofKeepsSeq(k) == [Stream!Sending(k, Stream!EndMsg(k.id)) EXCEPT !.id = @ + 1]

WriteEof(k) == Stream!SendingEnd(k)

\* The flush happens one sample late.
RecordLateFlush(k) ==
    LET filled == [k EXCEPT !.pos = @ + 1] IN
    IF filled.pos > ChunkSize THEN WritePayload(filled) ELSE filled

Record(k) ==
    LET filled == [k EXCEPT !.pos = @ + 1] IN
    IF filled.pos = ChunkSize THEN WritePayload(filled) ELSE filled

\* The rest of the buffer is only flushed if a chunk was already sent.
EndOfTransmissionSkipsShort(k) ==
    IF ~k.ignored THEN [k EXCEPT !.ignored = TRUE]
    ELSE IF k.pos # 0 /\ k.seq # 0 THEN WriteEof(WritePayload(k))
    ELSE k

\* The samples of the ignored transmission are thrown away.
EndOfTransmissionDiscards(k) ==
    IF ~k.ignored THEN [k EXCEPT !.ignored = TRUE, !.pos = 0]
    ELSE IF k.pos # 0 THEN WriteEof(WritePayload(k))
    ELSE k

EndOfTransmission(k) ==
    IF ~k.ignored THEN [k EXCEPT !.ignored = TRUE]
    ELSE IF k.pos # 0 THEN WriteEof(WritePayload(k))
    ELSE k

-----------------------------------------------------------------------------
(* Actions *)

\* AudioSink::new, then started() sends the spec.
ClientInit ==
    /\ GateInit
    /\ ring = 0
    /\ todo = 0
    /\ phase = "running"
    /\ sink = [pos |-> 0, id |-> 0, seq |-> 0, ignored |-> FALSE,
               sent |-> <<Stream!SpecMsg>>]
    /\ ends = 0
    /\ recorded = 0

\* The audio thread pushes a sample; with the ring buffer full it is lost.
InputData ==
    /\ phase = "running"
    /\ ring < RingCapacity
    /\ ring' = ring + 1
    /\ UNCHANGED <<gate, call, todo, phase, sink, ends, recorded>>

\* The payload stream is polled and has a whole payload.
TakePayload ==
    /\ phase = "running"
    /\ todo = 0
    /\ ring >= ChunkSize
    /\ ring' = ring - ChunkSize
    /\ todo' = ChunkSize
    /\ UNCHANGED <<gate, call, phase, sink, ends, recorded>>

\* One sample of the payload goes through the gate to the sink.
ProcessSample(s) ==
    /\ todo > 0
    /\ Stream!Budget(sink)
    /\ todo' = todo - 1
    /\ Process(s)
    /\ sink' = IF call' = "record" THEN Record(sink)
               ELSE IF call' = "end" THEN EndOfTransmission(sink)
               ELSE sink
    /\ ends' = IF call' = "end" /\ ends < 2 THEN ends + 1 ELSE ends
    /\ recorded' = IF call' = "record" THEN recorded + 1 ELSE recorded
    /\ UNCHANGED <<ring, phase>>

\* A handshake of the server asks for the spec.
Handshake ==
    /\ phase # "stopped"
    /\ todo = 0
    /\ Stream!Budget(sink)
    /\ sink' = WriteSpec(sink)
    /\ UNCHANGED <<gate, call, ring, todo, phase, ends, recorded>>

\* After the interrupt the payload stream ends, once it has no whole payload
\* left; the actor stops 10 ms later.
Finished ==
    /\ phase = "running"
    /\ todo = 0
    /\ ring < ChunkSize
    /\ Stream!Budget(sink)
    /\ sink' = EndOfTransmission(sink)
    /\ ends' = IF ends < 2 THEN ends + 1 ELSE ends
    /\ phase' = "finishing"
    /\ UNCHANGED <<gate, call, ring, todo, recorded>>

Stop ==
    /\ phase = "finishing"
    /\ phase' = "stopped"
    /\ UNCHANGED <<gate, call, ring, todo, sink, ends, recorded>>

ClientNext ==
    \/ InputData
    \/ TakePayload
    \/ \E s \in Samples : ProcessSample(s)
    \/ Handshake
    \/ Finished
    \/ Stop

ClientSpec == ClientInit /\ [][ClientNext]_clientVars

-----------------------------------------------------------------------------
(* Properties *)

Sinks ==
    [pos : 0 .. ChunkSize - 1, id : Nat, seq : Nat, ignored : BOOLEAN,
     sent : Seq(Stream!Datagrams)]

\* The write position stays inside the sample buffer between any two steps:
\* record() indexes buf[buf_pos] without a check and would panic at ChunkSize.
ClientTypeOK ==
    /\ GateTypeOK
    /\ ring \in 0 .. RingCapacity
    /\ todo \in 0 .. ChunkSize
    /\ phase \in {"running", "finishing", "stopped"}
    /\ sink \in Sinks
    /\ ends \in 0 .. 2
    /\ recorded \in Nat

\* The client sends what AudioStream allows, whatever the gate does and
\* however handshakes fall between the payloads.
ImplementsStream == Stream!StreamSpec

\* What AudioWriter::write relies on, end to end: the chunks of a recording
\* are numbered without a gap, and nothing of a recording follows its WavEnd.
Framed == Stream!Framing

\* From the second end of transmission on, a silent room (and a client that is
\* shutting down) never holds back recorded samples: they left with the chunk
\* that ended the recording. The first end of transmission keeps them
\* (first_payload_ignored) for the next recording.
NoSampleStranded ==
    ends = 2 /\ (gate.state = "Closed" \/ phase # "running") => sink.pos = 0

\* The samples in a sequence of datagrams.
FillOf(m) == IF m.kind = "WavChunk" THEN m.fill ELSE 0

SamplesIn(sent) ==
    LET upTo[i \in 0 .. Len(sent)] ==
            IF i = 0 THEN 0 ELSE upTo[i - 1] + FillOf(sent[i])
    IN  upTo[Len(sent)]

\* AudioSink neither loses nor repeats a sample the gate let through: every
\* one is in the buffer or in exactly one chunk, across transmissions that end
\* on a chunk boundary, the ignored one and a shutdown in mid-recording.
SamplesConserved == recorded = sink.pos + SamplesIn(sink.sent)
=============================================================================
