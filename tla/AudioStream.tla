---------------------------- MODULE AudioStream ----------------------------
(***************************************************************************)
(* The datagrams an audio client may send: what AudioSink promises to the  *)
(* server, independently of the noise gate and of the sample buffer.       *)
(*                                                                         *)
(* A recording is named by a uuid (ids are numbered in the order           *)
(* Uuid::new_v4 draws them, which never repeats); its chunks are numbered  *)
(* from 0; Spec may be sent at any time.  The payload of a chunk is        *)
(* abstracted to the number of samples it really holds.                    *)
(***************************************************************************)
EXTENDS Naturals, Sequences

CONSTANTS
    ChunkSize,      \* WAV_CHUNK_PAYLOAD_SIZE
    SizeModulus,    \* number of values of WavChunk::size, a u8
    MaxDatagrams    \* bound: datagrams sent in one behaviour

\* What the constants of an instance must satisfy.
StreamAssumption ==
    /\ ChunkSize \in Nat \ {0}
    /\ SizeModulus \in Nat \ {0}
    /\ MaxDatagrams \in Nat

VARIABLE stream   \* [id, seq |-> next chunk, sent |-> datagrams so far]

SpecMsg == [kind |-> "Spec"]
EndMsg(id) == [kind |-> "WavEnd", id |-> id]

\* A chunk holding n samples; buf_pos as u8 keeps n modulo SizeModulus.
ChunkMsg(id, seq, n) ==
    [kind |-> "WavChunk", id |-> id, seq |-> seq, size |-> n % SizeModulus, fill |-> n]

Datagrams ==
    [kind : {"Spec"}]
    \cup [kind : {"WavEnd"}, id : Nat]
    \cup [kind : {"WavChunk"}, id : Nat, seq : Nat,
          size : 0 .. SizeModulus - 1, fill : 1 .. ChunkSize]

IsChunkOf(m, id) == m.kind = "WavChunk" /\ m.id = id
IsEndOf(m, id) == m.kind = "WavEnd" /\ m.id = id

-----------------------------------------------------------------------------

Sending(k, m) == [k EXCEPT !.sent = Append(@, m)]

SendingChunk(k, n) ==
    [Sending(k, ChunkMsg(k.id, k.seq, n)) EXCEPT !.seq = @ + 1]

\* The numbering of chunks runs on into the next recording.
SendingEndKeepsSeq(k) == [Sending(k, EndMsg(k.id)) EXCEPT !.id = @ + 1]

\* The next recording goes on under the uuid of the one before.
SendingEndKeepsId(k) == [Sending(k, EndMsg(k.id)) EXCEPT !.seq = 0]

SendingEnd(k) == [Sending(k, EndMsg(k.id)) EXCEPT !.id = @ + 1, !.seq = 0]

\* Room for the two datagrams of the largest step.
Budget(k) == Len(k.sent) + 2 <= MaxDatagrams

StreamInit == stream = [id |-> 0, seq |-> 0, sent |-> <<SpecMsg>>]

SendSpec ==
    /\ Budget(stream)
    /\ stream' = Sending(stream, SpecMsg)

SendChunk(n) ==
    /\ Budget(stream)
    /\ stream' = SendingChunk(stream, n)

\* A recording is only ended together with its last chunk.
SendLastChunk(n) ==
    /\ Budget(stream)
    /\ stream' = SendingEnd(SendingChunk(stream, n))

StreamNext ==
    \/ SendSpec
    \/ \E n \in 1 .. ChunkSize : SendChunk(n) \/ SendLastChunk(n)

StreamSpec == StreamInit /\ [][StreamNext]_stream

-----------------------------------------------------------------------------
(* Properties *)

StreamStates == [id : Nat, seq : Nat, sent : Seq(Datagrams)]

\* Within a recording the chunks are numbered in the order they are sent,
\* without a gap or a repetition.
ChunksConsecutive(sent) ==
    \A i \in 1 .. Len(sent) :
        sent[i].kind = "WavChunk" =>
            /\ sent[i].seq > 0 =>
                  \E j \in 1 .. i - 1 :
                      IsChunkOf(sent[j], sent[i].id) /\ sent[j].seq = sent[i].seq - 1
            /\ \A j \in 1 .. i - 1 :
                  IsChunkOf(sent[j], sent[i].id) => sent[j].seq < sent[i].seq

\* A recording that was ended has a chunk just before its end and nothing
\* after it: the uuid is never used again.
EndIsLast(sent) ==
    \A i \in 1 .. Len(sent) :
        sent[i].kind = "WavEnd" =>
            /\ i > 1 /\ IsChunkOf(sent[i - 1], sent[i].id)
            /\ \A j \in i + 1 .. Len(sent) :
                  ~IsChunkOf(sent[j], sent[i].id) /\ ~IsEndOf(sent[j], sent[i].id)

\* What the handler on the server relies on: AudioWriter::write tells a late
\* chunk from a new one by its number, and drops the writer of a uuid at its
\* WavEnd in the belief that the recording is over.
Framing == ChunksConsecutive(stream.sent) /\ EndIsLast(stream.sent)

\* How the datagrams sent so far bind the next ones: the strengthening that
\* makes Framing inductive.
CursorAhead(k) ==
    \A i \in 1 .. Len(k.sent) :
        /\ k.sent[i].kind = "WavEnd" => k.sent[i].id < k.id
        /\ k.sent[i].kind = "WavChunk" =>
              \/ k.sent[i].id < k.id
              \/ k.sent[i].id = k.id /\ k.sent[i].seq < k.seq

CursorReached(k) ==
    k.seq > 0 =>
        \E i \in 1 .. Len(k.sent) :
            IsChunkOf(k.sent[i], k.id) /\ k.sent[i].seq = k.seq - 1

InvOf(k) ==
    /\ k \in StreamStates
    /\ CursorAhead(k)
    /\ CursorReached(k)
    /\ ChunksConsecutive(k.sent)
    /\ EndIsLast(k.sent)

StreamInv == InvOf(stream)
=============================================================================
