------------------------- MODULE AudioStreamProofs -------------------------
(***************************************************************************)
(* The framing of an audio stream for every chunk size and any number of   *)
(* recordings.                                                             *)
(***************************************************************************)
EXTENDS AudioStream, TLAPS

(* Appending a datagram to a log leaves the others where they are.          *)
LEMMA AppendFacts ==
    ASSUME NEW s \in Seq(Datagrams), NEW m \in Datagrams
    PROVE  /\ Append(s, m) \in Seq(Datagrams)
           /\ Len(s) \in Nat
           /\ Len(Append(s, m)) = Len(s) + 1
           /\ \A i \in 1 .. Len(s) : Append(s, m)[i] = s[i] /\ s[i] \in Datagrams
           /\ Append(s, m)[Len(s) + 1] = m
  OBVIOUS

LEMMA ChunkIsDatagram ==
    ASSUME StreamAssumption,
           NEW id \in Nat, NEW seq \in Nat, NEW n \in 1 .. ChunkSize
    PROVE  ChunkMsg(id, seq, n) \in Datagrams
  <1>1. n % SizeModulus \in 0 .. SizeModulus - 1
    BY DEF StreamAssumption
  <1> QED BY <1>1 DEF ChunkMsg, Datagrams

\* t is the log s with the datagram m at its end.
Extends(t, s, m) ==
    /\ Len(s) \in Nat
    /\ Len(t) = Len(s) + 1
    /\ \A i \in 1 .. Len(s) : t[i] = s[i]
    /\ t[Len(s) + 1] = m

\* If m is a chunk, it takes the next number of its recording in the log s.
TakesNextNumber(s, m) ==
    m.kind = "WavChunk" =>
        /\ m.seq > 0 =>
              \E j \in 1 .. Len(s) : IsChunkOf(s[j], m.id) /\ s[j].seq = m.seq - 1
        /\ \A j \in 1 .. Len(s) : IsChunkOf(s[j], m.id) => s[j].seq < m.seq

\* m belongs to no recording that the log s ends, and ends only one whose
\* chunk is the last datagram of s.
RespectsEnds(s, m) ==
    /\ m.kind = "WavEnd" => Len(s) > 0 /\ IsChunkOf(s[Len(s)], m.id)
    /\ \A i \in 1 .. Len(s) :
          s[i].kind = "WavEnd" => ~IsChunkOf(m, s[i].id) /\ ~IsEndOf(m, s[i].id)

(* A datagram may follow a log of consecutive chunks unless it is a chunk   *)
(* that does not take the next number of its recording.                     *)
LEMMA ConsecutiveAppend ==
    ASSUME NEW s, NEW t, NEW m, Extends(t, s, m), ChunksConsecutive(s), TakesNextNumber(s, m)
    PROVE  ChunksConsecutive(t)
  <1> DEFINE L == Len(s)
  <1>0. /\ L \in Nat
        /\ Len(t) = L + 1
        /\ \A i \in 1 .. L : t[i] = s[i]
        /\ t[L + 1] = m
    BY DEF Extends
  <1> HIDE DEF L
  <1> USE <1>0
  <1> DEFINE Fits(u, i) ==
        u[i].kind = "WavChunk" =>
            /\ u[i].seq > 0 =>
                  \E j \in 1 .. i - 1 :
                      IsChunkOf(u[j], u[i].id) /\ u[j].seq = u[i].seq - 1
            /\ \A j \in 1 .. i - 1 : IsChunkOf(u[j], u[i].id) => u[j].seq < u[i].seq
  <1>1. ASSUME NEW i \in 1 .. L PROVE Fits(t, i)
    <2>1. Fits(s, i)
      BY DEF ChunksConsecutive, L
    <2>2. t[i] = s[i] /\ \A j \in 1 .. i - 1 : t[j] = s[j]
      OBVIOUS
    <2> QED BY <2>1, <2>2
  <1>2. Fits(t, L + 1)
    <2>1. \A j \in 1 .. (L + 1) - 1 : j \in 1 .. L /\ t[j] = s[j]
      OBVIOUS
    <2>2. \A j \in 1 .. L : j \in 1 .. (L + 1) - 1
      OBVIOUS
    <2>3. m.kind = "WavChunk" =>
             /\ m.seq > 0 =>
                   \E j \in 1 .. L : IsChunkOf(s[j], m.id) /\ s[j].seq = m.seq - 1
             /\ \A j \in 1 .. L : IsChunkOf(s[j], m.id) => s[j].seq < m.seq
      BY DEF TakesNextNumber, L
    <2> QED BY <2>1, <2>2, <2>3
  <1>3. \A i \in 1 .. Len(t) : i \in 1 .. L \/ i = L + 1
    OBVIOUS
  <1>4. \A i \in 1 .. Len(t) : Fits(t, i)
    BY <1>1, <1>2, <1>3
  <1> QED BY <1>4 DEF ChunksConsecutive

(* A datagram may follow a log unless it belongs to an ended recording or   *)
(* ends one without a chunk of it just before.                              *)
LEMMA EndAppend ==
    ASSUME NEW s, NEW t, NEW m, Extends(t, s, m), EndIsLast(s), RespectsEnds(s, m)
    PROVE  EndIsLast(t)
  <1> DEFINE L == Len(s)
  <1>0. /\ L \in Nat
        /\ Len(t) = L + 1
        /\ \A i \in 1 .. L : t[i] = s[i]
        /\ t[L + 1] = m
    BY DEF Extends
  <1> HIDE DEF L
  <1> USE <1>0
  <1> DEFINE Fits(u, i) ==
        u[i].kind = "WavEnd" =>
            /\ i > 1 /\ IsChunkOf(u[i - 1], u[i].id)
            /\ \A j \in i + 1 .. Len(u) :
                  ~IsChunkOf(u[j], u[i].id) /\ ~IsEndOf(u[j], u[i].id)
  <1>1. ASSUME NEW i \in 1 .. L PROVE Fits(t, i)
    <2> SUFFICES ASSUME t[i].kind = "WavEnd"
                 PROVE  /\ i > 1 /\ IsChunkOf(t[i - 1], t[i].id)
                        /\ \A j \in i + 1 .. Len(t) :
                              ~IsChunkOf(t[j], t[i].id) /\ ~IsEndOf(t[j], t[i].id)
      OBVIOUS
    <2>1. t[i] = s[i] /\ s[i].kind = "WavEnd"
      OBVIOUS
    <2>2. i > 1 /\ IsChunkOf(s[i - 1], s[i].id)
      BY <2>1 DEF EndIsLast, L
    <2>3. t[i - 1] = s[i - 1]
      BY <2>2
    <2>4. ASSUME NEW j \in i + 1 .. Len(t)
          PROVE  ~IsChunkOf(t[j], t[i].id) /\ ~IsEndOf(t[j], t[i].id)
      <3>1. CASE j \in i + 1 .. L
        <4>1. t[j] = s[j]
          BY <3>1
        <4> QED BY <3>1, <4>1, <2>1 DEF EndIsLast, L
      <3>2. CASE j = L + 1
        BY <3>2, <2>1 DEF RespectsEnds, L
      <3> QED BY <3>1, <3>2
    <2> QED BY <2>1, <2>2, <2>3, <2>4
  <1>2. Fits(t, L + 1)
    <2>1. \A j \in (L + 1) + 1 .. Len(t) : FALSE
      OBVIOUS
    <2>2. m.kind = "WavEnd" => L + 1 > 1 /\ t[(L + 1) - 1] = s[L] /\ IsChunkOf(s[L], m.id)
      BY DEF RespectsEnds, L
    <2> QED BY <2>1, <2>2
  <1>3. \A i \in 1 .. Len(t) : i \in 1 .. L \/ i = L + 1
    OBVIOUS
  <1>4. \A i \in 1 .. Len(t) : Fits(t, i)
    BY <1>1, <1>2, <1>3
  <1> QED BY <1>4 DEF EndIsLast

(* A spec changes nothing the recordings depend on.                         *)
LEMMA SpecKeepsInv ==
    ASSUME NEW k, InvOf(k)
    PROVE  InvOf(Sending(k, SpecMsg))
  <1> DEFINE h == Sending(k, SpecMsg)
  <1>1. SpecMsg \in Datagrams /\ SpecMsg.kind = "Spec"
    BY DEF SpecMsg, Datagrams
  <1>2. k \in StreamStates
    BY DEF InvOf
  <1>3. h \in StreamStates /\ h.id = k.id /\ h.seq = k.seq /\ h.sent = Append(k.sent, SpecMsg)
    BY <1>1, <1>2, AppendFacts DEF Sending, StreamStates
  <1>4. Extends(h.sent, k.sent, SpecMsg)
    BY <1>1, <1>2, <1>3, AppendFacts DEF StreamStates, Extends
  <1> HIDE DEF h
  <1>5. CursorAhead(h)
    BY <1>1, <1>2, <1>3, <1>4 DEF InvOf, CursorAhead, Extends
  <1>6. CursorReached(h)
    BY <1>1, <1>2, <1>3, <1>4 DEF InvOf, CursorReached, Extends
  <1>7. ChunksConsecutive(h.sent)
    <2>1. TakesNextNumber(k.sent, SpecMsg)
      BY <1>1 DEF TakesNextNumber
    <2> QED BY <1>4, <2>1, ConsecutiveAppend DEF InvOf
  <1>8. EndIsLast(h.sent)
    <2>1. RespectsEnds(k.sent, SpecMsg)
      BY <1>1 DEF RespectsEnds, IsChunkOf, IsEndOf
    <2> QED BY <1>4, <2>1, EndAppend DEF InvOf
  <1> QED BY <1>3, <1>5, <1>6, <1>7, <1>8 DEF InvOf, h

(* A chunk takes the next number of the current recording.                  *)
LEMMA ChunkKeepsInv ==
    ASSUME StreamAssumption, NEW k, InvOf(k), NEW n \in 1 .. ChunkSize
    PROVE  /\ InvOf(SendingChunk(k, n))
           /\ SendingChunk(k, n).id = k.id
           /\ Len(SendingChunk(k, n).sent) > 0
           /\ IsChunkOf(SendingChunk(k, n).sent[Len(SendingChunk(k, n).sent)], k.id)
  <1> DEFINE m == ChunkMsg(k.id, k.seq, n)
             h == SendingChunk(k, n)
  <1>1. k \in StreamStates
    BY DEF InvOf
  <1>2. m \in Datagrams /\ m.kind = "WavChunk" /\ m.id = k.id /\ m.seq = k.seq
    BY <1>1, ChunkIsDatagram DEF ChunkMsg, StreamStates
  <1> HIDE DEF m
  <1>3. h \in StreamStates /\ h.id = k.id /\ h.seq = k.seq + 1 /\ h.sent = Append(k.sent, m)
    <2> DEFINE g == Sending(k, m)
    <2>1. g \in StreamStates /\ g.id = k.id /\ g.seq = k.seq /\ g.sent = Append(k.sent, m)
      BY <1>1, <1>2, AppendFacts DEF Sending, StreamStates
    <2>2. h = [g EXCEPT !.seq = @ + 1]
      BY DEF SendingChunk, m
    <2> HIDE DEF g, h
    <2> QED BY <2>1, <2>2 DEF StreamStates
  <1> HIDE DEF h
  <1>4. Extends(h.sent, k.sent, m)
    BY <1>1, <1>2, <1>3, AppendFacts DEF StreamStates, Extends
  <1>a. k.id \in Nat /\ k.seq \in Nat
    BY <1>1 DEF StreamStates
  <1>b. \A i \in 1 .. Len(k.sent) :
           /\ k.sent[i].kind = "WavEnd" => k.sent[i].id \in Nat
           /\ k.sent[i].kind = "WavChunk" => k.sent[i].id \in Nat /\ k.sent[i].seq \in Nat
    BY <1>1 DEF StreamStates, Datagrams
  <1>5. CursorAhead(h)
    <2> SUFFICES ASSUME NEW i \in 1 .. Len(h.sent)
                 PROVE  /\ h.sent[i].kind = "WavEnd" => h.sent[i].id < h.id
                        /\ h.sent[i].kind = "WavChunk" =>
                              \/ h.sent[i].id < h.id
                              \/ h.sent[i].id = h.id /\ h.sent[i].seq < h.seq
      BY DEF CursorAhead
    <2>1. CASE i \in 1 .. Len(k.sent)
      <3>1. h.sent[i] = k.sent[i]
        BY <1>4, <2>1 DEF Extends
      <3>2. /\ k.sent[i].kind = "WavEnd" => k.sent[i].id < k.id
            /\ k.sent[i].kind = "WavChunk" =>
                  \/ k.sent[i].id < k.id
                  \/ k.sent[i].id = k.id /\ k.sent[i].seq < k.seq
        BY <2>1 DEF InvOf, CursorAhead
      <3> QED BY <1>a, <1>b, <1>3, <2>1, <3>1, <3>2
    <2>2. CASE i \notin 1 .. Len(k.sent)
      <3>1. h.sent[i] = m
        BY <1>4, <2>2 DEF Extends
      <3> QED BY <1>a, <1>2, <1>3, <3>1
    <2> QED BY <2>1, <2>2
  <1>6. CursorReached(h)
    <2>1. Len(h.sent) \in 1 .. Len(h.sent) /\ h.sent[Len(h.sent)] = m
      BY <1>4 DEF Extends
    <2>2. IsChunkOf(m, h.id) /\ m.seq = h.seq - 1
      BY <1>a, <1>2, <1>3 DEF IsChunkOf
    <2> QED BY <2>1, <2>2 DEF CursorReached
  <1>7. ChunksConsecutive(h.sent)
    <2>1. \A j \in 1 .. Len(k.sent) : IsChunkOf(k.sent[j], m.id) => k.sent[j].seq < m.seq
      BY <1>a, <1>b, <1>2 DEF InvOf, CursorAhead, IsChunkOf
    <2>2. m.seq > 0 => \E j \in 1 .. Len(k.sent) :
                          IsChunkOf(k.sent[j], m.id) /\ k.sent[j].seq = m.seq - 1
      BY <1>2 DEF InvOf, CursorReached
    <2>3. TakesNextNumber(k.sent, m)
      BY <2>1, <2>2 DEF TakesNextNumber
    <2> QED BY <1>4, <2>3, ConsecutiveAppend DEF InvOf
  <1>8. EndIsLast(h.sent)
    <2>1. \A i \in 1 .. Len(k.sent) :
             k.sent[i].kind = "WavEnd" =>
                ~IsChunkOf(m, k.sent[i].id) /\ ~IsEndOf(m, k.sent[i].id)
      BY <1>a, <1>2 DEF InvOf, CursorAhead, IsChunkOf, IsEndOf
    <2>2. RespectsEnds(k.sent, m)
      BY <1>2, <2>1 DEF RespectsEnds
    <2> QED BY <1>4, <2>2, EndAppend DEF InvOf
  <1>9. Len(h.sent) > 0 /\ IsChunkOf(h.sent[Len(h.sent)], k.id)
    BY <1>2, <1>4 DEF Extends, IsChunkOf
  <1> QED BY <1>3, <1>5, <1>6, <1>7, <1>8, <1>9 DEF InvOf, h

(* The end of a recording may follow one of its chunks.                     *)
LEMMA EndKeepsInv ==
    ASSUME NEW k, InvOf(k), Len(k.sent) > 0, IsChunkOf(k.sent[Len(k.sent)], k.id)
    PROVE  InvOf(SendingEnd(k))
  <1> DEFINE m == EndMsg(k.id)
             h == SendingEnd(k)
  <1>1. k \in StreamStates
    BY DEF InvOf
  <1>2. m \in Datagrams /\ m.kind = "WavEnd" /\ m.id = k.id
    BY <1>1 DEF EndMsg, StreamStates, Datagrams
  <1> HIDE DEF m
  <1>3. h \in StreamStates /\ h.id = k.id + 1 /\ h.seq = 0 /\ h.sent = Append(k.sent, m)
    <2> DEFINE g == Sending(k, m)
    <2>1. g \in StreamStates /\ g.id = k.id /\ g.seq = k.seq /\ g.sent = Append(k.sent, m)
      BY <1>1, <1>2, AppendFacts DEF Sending, StreamStates
    <2> DEFINE f == [g EXCEPT !.id = @ + 1]
    <2>2. h = [f EXCEPT !.seq = 0]
      BY DEF SendingEnd, m
    <2> HIDE DEF g, h
    <2>3. f \in StreamStates /\ f.id = k.id + 1 /\ f.sent = Append(k.sent, m)
      BY <2>1 DEF StreamStates
    <2> HIDE DEF f
    <2> QED BY <2>2, <2>3 DEF StreamStates
  <1> HIDE DEF h
  <1>4. Extends(h.sent, k.sent, m)
    BY <1>1, <1>2, <1>3, AppendFacts DEF StreamStates, Extends
  <1>a. k.id \in Nat /\ k.seq \in Nat
    BY <1>1 DEF StreamStates
  <1>b. \A i \in 1 .. Len(k.sent) :
           /\ k.sent[i].kind = "WavEnd" => k.sent[i].id \in Nat
           /\ k.sent[i].kind = "WavChunk" => k.sent[i].id \in Nat /\ k.sent[i].seq \in Nat
    BY <1>1 DEF StreamStates, Datagrams
  <1>5. CursorAhead(h)
    <2> SUFFICES ASSUME NEW i \in 1 .. Len(h.sent)
                 PROVE  /\ h.sent[i].kind = "WavEnd" => h.sent[i].id < h.id
                        /\ h.sent[i].kind = "WavChunk" =>
                              \/ h.sent[i].id < h.id
                              \/ h.sent[i].id = h.id /\ h.sent[i].seq < h.seq
      BY DEF CursorAhead
    <2>1. CASE i \in 1 .. Len(k.sent)
      <3>1. h.sent[i] = k.sent[i]
        BY <1>4, <2>1 DEF Extends
      <3>2. /\ k.sent[i].kind = "WavEnd" => k.sent[i].id < k.id
            /\ k.sent[i].kind = "WavChunk" =>
                  \/ k.sent[i].id < k.id
                  \/ k.sent[i].id = k.id /\ k.sent[i].seq < k.seq
        BY <2>1 DEF InvOf, CursorAhead
      <3> QED BY <1>a, <1>b, <1>3, <2>1, <3>1, <3>2
    <2>2. CASE i \notin 1 .. Len(k.sent)
      <3>1. h.sent[i] = m
        BY <1>4, <2>2 DEF Extends
      <3> QED BY <1>a, <1>2, <1>3, <3>1
    <2> QED BY <2>1, <2>2
  <1>6. CursorReached(h)
    BY <1>3 DEF CursorReached
  <1>7. ChunksConsecutive(h.sent)
    <2>1. TakesNextNumber(k.sent, m)
      BY <1>2 DEF TakesNextNumber
    <2> QED BY <1>4, <2>1, ConsecutiveAppend DEF InvOf
  <1>8. EndIsLast(h.sent)
    <2>1. \A i \in 1 .. Len(k.sent) :
             k.sent[i].kind = "WavEnd" =>
                ~IsChunkOf(m, k.sent[i].id) /\ ~IsEndOf(m, k.sent[i].id)
      BY <1>a, <1>2 DEF InvOf, CursorAhead, IsChunkOf, IsEndOf
    <2>2. RespectsEnds(k.sent, m)
      BY <1>2, <2>1 DEF RespectsEnds
    <2> QED BY <1>4, <2>2, EndAppend DEF InvOf
  <1> QED BY <1>3, <1>5, <1>6, <1>7, <1>8 DEF InvOf, h

LEMMA StreamInitInv == StreamInit => StreamInv
  <1> SUFFICES ASSUME StreamInit PROVE StreamInv
    OBVIOUS
  <1>1. stream.sent = <<SpecMsg>> /\ stream.id = 0 /\ stream.seq = 0
    BY DEF StreamInit
  <1>2. stream \in StreamStates
    BY DEF StreamInit, StreamStates, SpecMsg, Datagrams
  <1>3. Len(stream.sent) = 1 /\ stream.sent[1].kind = "Spec"
    BY <1>1 DEF SpecMsg
  <1> QED BY <1>1, <1>2, <1>3
          DEF StreamInv, InvOf, CursorAhead, CursorReached, ChunksConsecutive, EndIsLast

LEMMA StreamStep ==
    StreamAssumption /\ StreamInv /\ [StreamNext]_stream => StreamInv'
  <1> SUFFICES ASSUME StreamAssumption, StreamInv, [StreamNext]_stream
               PROVE  StreamInv'
    OBVIOUS
  <1>1. CASE SendSpec
    BY <1>1, SpecKeepsInv DEF SendSpec, StreamInv
  <1>2. ASSUME NEW n \in 1 .. ChunkSize, SendChunk(n)
        PROVE  StreamInv'
    BY <1>2, ChunkKeepsInv DEF SendChunk, StreamInv
  <1>3. ASSUME NEW n \in 1 .. ChunkSize, SendLastChunk(n)
        PROVE  StreamInv'
    BY <1>3, ChunkKeepsInv, EndKeepsInv DEF SendLastChunk, StreamInv
  <1>4. CASE UNCHANGED stream
    BY <1>4 DEF StreamInv
  <1> QED BY <1>1, <1>2, <1>3, <1>4 DEF StreamNext

(* Chunks are numbered without gaps and an ended recording stays ended, for *)
(* every chunk size and any number of recordings.                           *)
THEOREM StreamFramed ==
    ASSUME StreamAssumption
    PROVE  StreamSpec => []Framing
  <1>1. StreamInv => Framing
    BY DEF StreamInv, InvOf, Framing
  <1>2. StreamInv /\ [StreamNext]_stream => StreamInv'
    BY StreamStep
  <1> QED BY <1>1, <1>2, StreamInitInv, PTL DEF StreamSpec
=============================================================================
