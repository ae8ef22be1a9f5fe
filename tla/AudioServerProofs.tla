------------------------- MODULE AudioServerProofs -------------------------
(***************************************************************************)
(* The sound half of the backend for any number of clients, recordings and *)
(* deliveries.                                                             *)
(***************************************************************************)
EXTENDS AudioServer, SequenceTheorems, TLAPS

Steps == INSTANCE AudioStreamProofs WITH
             stream <- streams, ChunkSize <- 1, SizeModulus <- 1

-----------------------------------------------------------------------------
(* Maps and bags *)

\* The functions from a subset of S to R.
Maps(S, R) == UNION {[D -> R] : D \in SUBSET S}

LEMMA MapFacts ==
    ASSUME NEW S, NEW R, NEW f \in Maps(S, R)
    PROVE  DOMAIN f \subseteq S /\ \A x \in DOMAIN f : f[x] \in R
  BY DEF Maps

LEMMA MapIntro ==
    ASSUME NEW S, NEW R, NEW D \in SUBSET S, NEW f \in [D -> R]
    PROVE  f \in Maps(S, R)
  BY DEF Maps

LEMMA EmptyMapFacts ==
    ASSUME NEW S, NEW R
    PROVE  EmptyMap \in Maps(S, R) /\ DOMAIN EmptyMap = {} /\ EmptyBag \in Maps(S, R)
           /\ DOMAIN EmptyBag = {}
  <1>1. EmptyMap \in [{} -> R] /\ EmptyBag \in [{} -> R]
    BY DEF EmptyMap, EmptyBag, SetToBag
  <1> QED BY <1>1, MapIntro

LEMMA MapWith ==
    ASSUME NEW S, NEW R, NEW f \in Maps(S, R), NEW x \in S, NEW v \in R
    PROVE  With(f, x, v) \in Maps(S, R)
  <1>1. DOMAIN f \cup {x} \in SUBSET S /\ With(f, x, v) \in [DOMAIN f \cup {x} -> R]
    BY MapFacts DEF With
  <1> QED BY <1>1, MapIntro

LEMMA MapExcept ==
    ASSUME NEW S, NEW R, NEW f \in Maps(S, R), NEW x \in DOMAIN f, NEW v \in R
    PROVE  [f EXCEPT ![x] = v] \in Maps(S, R)
  <1>1. DOMAIN f \in SUBSET S /\ f \in [DOMAIN f -> R]
    BY DEF Maps
  <1> QED BY <1>1, MapIntro

LEMMA MapWithout ==
    ASSUME NEW S, NEW R, NEW f \in Maps(S, R), NEW x
    PROVE  Without(f, x) \in Maps(S, R)
  <1>1. DOMAIN f \ {x} \in SUBSET S /\ Without(f, x) \in [DOMAIN f \ {x} -> R]
    BY MapFacts DEF Without, Restrict
  <1> QED BY <1>1, MapIntro

Positive == Nat \ {0}

LEMMA BagPlus ==
    ASSUME NEW S, NEW B \in Maps(S, Positive), NEW T \in SUBSET S
    PROVE  /\ B (+) SetToBag(T) \in Maps(S, Positive)
           /\ DOMAIN (B (+) SetToBag(T)) = DOMAIN B \cup T
           /\ \A e : Copies(e, B (+) SetToBag(T)) = Copies(e, B) + (IF e \in T THEN 1 ELSE 0)
           /\ \A e : Copies(e, B) \in Nat
  <1> DEFINE U == B (+) SetToBag(T)
  <1>1. DOMAIN B \in SUBSET S /\ \A x \in DOMAIN B : B[x] \in Positive
    BY MapFacts
  <1>2. U = [e \in DOMAIN B \cup T |-> (IF e \in DOMAIN B THEN B[e] ELSE 0)
                                       + (IF e \in T THEN 1 ELSE 0)]
    BY DEF (+), SetToBag
  <1>3. U \in [DOMAIN B \cup T -> Positive]
    BY <1>1, <1>2 DEF Positive
  <1>4. ASSUME NEW e
        PROVE  Copies(e, U) = Copies(e, B) + (IF e \in T THEN 1 ELSE 0) /\ Copies(e, B) \in Nat
    BY <1>1, <1>2 DEF Copies, BagIn, BagToSet, Positive
  <1> QED BY <1>1, <1>3, <1>4, MapIntro

LEMMA BagMinus ==
    ASSUME NEW S, NEW B \in Maps(S, Positive), NEW e \in DOMAIN B
    PROVE  /\ B (-) SetToBag({e}) \in Maps(S, Positive)
           /\ DOMAIN (B (-) SetToBag({e})) \subseteq DOMAIN B
           /\ \A d : Copies(d, B (-) SetToBag({e})) = Copies(d, B) - (IF d = e THEN 1 ELSE 0)
           /\ \A d : Copies(d, B (-) SetToBag({e})) \in Nat
  <1> DEFINE U == B (-) SetToBag({e})
             C == [d \in DOMAIN B |-> IF d = e THEN B[d] - 1 ELSE B[d]]
             D == {d \in DOMAIN B : C[d] > 0}
  <1>1. DOMAIN B \in SUBSET S /\ \A x \in DOMAIN B : B[x] \in Positive
    BY MapFacts
  <1>2. U = [d \in D |-> C[d]]
    <2>1. [d \in DOMAIN B |-> IF d \in DOMAIN SetToBag({e}) THEN B[d] - SetToBag({e})[d] ELSE B[d]]
          = C
      BY DEF SetToBag
    <2> QED BY <2>1 DEF (-)
  <1>3. \A d \in DOMAIN B : C[d] \in Nat /\ C[d] = B[d] - (IF d = e THEN 1 ELSE 0)
    BY <1>1 DEF Positive
  <1>4. \A d : d \in D <=> d \in DOMAIN B /\ C[d] > 0
    OBVIOUS
  <1> HIDE DEF C, D
  <1>5. \A d \in D : C[d] \in Positive
    BY <1>3, <1>4 DEF Positive
  <1>6. U \in [D -> Positive] /\ D \in SUBSET S
    BY <1>1, <1>2, <1>4, <1>5
  <1>7. DOMAIN U = D /\ \A d \in D : U[d] = C[d]
    BY <1>2
  <1> HIDE DEF U
  <1>8. ASSUME NEW d
        PROVE  /\ Copies(d, U) = Copies(d, B) - (IF d = e THEN 1 ELSE 0)
               /\ Copies(d, U) \in Nat
    <2>1. CASE d \in D
      BY <1>3, <1>4, <1>7, <2>1 DEF Copies, BagIn, BagToSet
    <2>2. CASE d \in DOMAIN B /\ d \notin D
      <3>1. C[d] = 0
        BY <1>3, <1>4, <2>2
      <3>2. B[d] - (IF d = e THEN 1 ELSE 0) = 0
        BY <1>3, <2>2, <3>1
      <3> QED BY <1>7, <2>2, <3>2 DEF Copies, BagIn, BagToSet
    <2>3. CASE d \notin DOMAIN B
      BY <1>4, <1>7, <2>3 DEF Copies, BagIn, BagToSet
    <2> QED BY <2>1, <2>2, <2>3
  <1> QED BY <1>4, <1>6, <1>7, <1>8, MapIntro DEF U

LEMMA BagRestrict ==
    ASSUME NEW S, NEW B \in Maps(S, Positive), NEW D \in SUBSET DOMAIN B
    PROVE  /\ Restrict(B, D) \in Maps(S, Positive)
           /\ \A d : Copies(d, Restrict(B, D)) \in Nat
           /\ \A d : Copies(d, Restrict(B, D)) <= Copies(d, B)
  <1>1. DOMAIN B \in SUBSET S /\ \A x \in DOMAIN B : B[x] \in Positive
    BY MapFacts
  <1>2. Restrict(B, D) \in [D -> Positive] /\ D \in SUBSET S
    BY <1>1 DEF Restrict
  <1>3. ASSUME NEW d
        PROVE  Copies(d, Restrict(B, D)) \in Nat /\ Copies(d, Restrict(B, D)) <= Copies(d, B)
    BY <1>1 DEF Restrict, Copies, BagIn, BagToSet, Positive
  <1> QED BY <1>2, <1>3, MapIntro

-----------------------------------------------------------------------------
(* The inductive invariant *)

\* Recordings are numbered below MaxDatagrams: what a client sent, and what
\* waits in the mailbox of its handler.
Msgs == {m \in Wire!Datagrams : m.kind # "Spec" => m.id <= MaxDatagrams}

Senders == [id : Nat, seq : Nat, sent : Seq(Msgs)]

SenderOK(k) == k \in Senders /\ k.id <= MaxDatagrams /\ k.id <= Len(k.sent)

\* The recordings of a client, and those that may be stored.
IdsOf(c) == {c} \X (0 .. MaxDatagrams)
StoredIds == Registered \X (0 .. MaxDatagrams)
Sounds == {SoundEvent(id[1], id) : id \in StoredIds}

Chunks == [seq : Nat, whole : BOOLEAN]
WavFiles == Maps(StoredIds, Files)
EventBags == Maps(Sounds, Positive)
Writers(c) == Maps(IdsOf(c), Nat)

HandlerOf(c) == [up : BOOLEAN, inbox : Seq(Msgs), writers : Writers(c)]

\* What a handler works on: State(c).
StatesOf(c) == [writers : Writers(c), files : WavFiles, pending : EventBags]

\* A writer has an unfinished file and its number is not below that of a chunk
\* in it: what makes the next chunk fit.
Ahead(chunks, n) == \A i \in 1 .. Len(chunks) : chunks[i].whole => chunks[i].seq <= n

WritersFit(writers, fs) ==
    \A id \in DOMAIN writers :
        id \in DOMAIN fs /\ ~fs[id].final /\ Ahead(fs[id].chunks, writers[id])

Ordered(fs) == \A id \in DOMAIN fs : InOrder(fs[id].chunks)

Sound(s, c) == s \in StatesOf(c) /\ WritersFit(s.writers, s.files) /\ Ordered(s.files)

HandlerOK(c) ==
    /\ handlers[c] \in HandlerOf(c)
    /\ handlers[c].up => c \in Registered
    /\ ~handlers[c].up => handlers[c] = NoHandler
    /\ WritersFit(handlers[c].writers, files)

ScalarsOK ==
    /\ received \in [Clients -> 0 .. MaxDatagrams]
    /\ deliveries \in 0 .. MaxDeliveries
    /\ handshakes \subseteq Clients
    /\ lookup \in Clients \cup {NoClient}
    /\ devices \subseteq Registered
    /\ system \in {"up", "signalled", "stopping", "down"}
    /\ restarts \in 0 .. MaxRestarts

ServerInv ==
    /\ ScalarsOK
    /\ streams \in [Clients -> Senders] /\ \A c \in Clients : SenderOK(streams[c])
    /\ DOMAIN handlers = Clients /\ \A c \in Clients : HandlerOK(c)
    /\ files \in WavFiles /\ Ordered(files)
    /\ pending \in EventBags /\ rows \in EventBags

-----------------------------------------------------------------------------
(* Files *)

LEMMA FileFacts ==
    ASSUME NEW f \in Files
    PROVE  f.chunks \in Seq(Chunks) /\ f.final \in BOOLEAN
  BY DEF Files, Chunks

LEMMA NewFile ==
    LET f == [chunks |-> << >>, final |-> FALSE] IN
    f \in Files /\ ~f.final /\ InOrder(f.chunks) /\ Ahead(f.chunks, 0)
  <1>1. << >> \in Seq(Chunks) /\ Len(<< >>) = 0
    BY EmptySeq
  <1> QED BY <1>1 DEF Files, Chunks, InOrder, Ahead

\* A chunk beyond the writer's number fits at the end of its file.
LEMMA ChunkFits ==
    ASSUME NEW q \in Seq(Chunks), NEW k \in Chunks, NEW n \in Nat,
           InOrder(q), Ahead(q, n), n < k.seq
    PROVE  /\ Append(q, k) \in Seq(Chunks)
           /\ InOrder(Append(q, k))
           /\ Ahead(Append(q, k), IF k.whole THEN k.seq ELSE n)
  <1> DEFINE L == Len(q)
             r == Append(q, k)
  <1>1. /\ L \in Nat /\ r \in Seq(Chunks) /\ Len(r) = L + 1
        /\ \A i \in 1 .. L : r[i] = q[i] /\ q[i] \in Chunks
        /\ r[L + 1] = k
    BY AppendProperties, LenProperties, ElementOfSeq
  <1> HIDE DEF L, r
  <1>2. k.seq \in Nat /\ k.whole \in BOOLEAN /\ \A i \in 1 .. L : q[i].seq \in Nat
    BY <1>1 DEF Chunks
  <1>3. InOrder(r)
    <2> SUFFICES ASSUME NEW i \in 1 .. L + 1, NEW j \in 1 .. L + 1, i < j,
                        r[i].whole, r[j].whole
                 PROVE  r[i].seq < r[j].seq
      BY <1>1 DEF InOrder
    <2>1. i \in 1 .. L /\ r[i] = q[i]
      BY <1>1
    <2>2. CASE j \in 1 .. L
      BY <1>1, <2>1, <2>2 DEF InOrder, L
    <2>3. CASE j = L + 1
      BY <1>1, <1>2, <2>1, <2>3 DEF Ahead, L
    <2> QED BY <1>1, <2>2, <2>3
  <1>4. Ahead(r, IF k.whole THEN k.seq ELSE n)
    <2> SUFFICES ASSUME NEW i \in 1 .. L + 1, r[i].whole
                 PROVE  r[i].seq <= (IF k.whole THEN k.seq ELSE n)
      BY <1>1 DEF Ahead
    <2>1. CASE i \in 1 .. L
      <3>1. r[i].seq \in Nat /\ r[i].seq <= n
        BY <1>1, <1>2, <2>1 DEF Ahead, L
      <3> QED BY <1>2, <3>1
    <2>2. CASE i = L + 1
      BY <1>1, <1>2, <2>2
    <2> QED BY <1>1, <2>1, <2>2
  <1> QED BY <1>1, <1>3, <1>4 DEF r

-----------------------------------------------------------------------------
(* The steps of a handler *)

\* Between s and t only the recording id was worked on.
Touches(s, t, id) ==
    \A x : x # id =>
        /\ x \in DOMAIN t.files <=> x \in DOMAIN s.files
        /\ x \in DOMAIN s.files => t.files[x] = s.files[x]
        /\ x \in DOMAIN t.writers <=> x \in DOMAIN s.writers

LEMMA StateFacts ==
    ASSUME NEW c, NEW s \in StatesOf(c)
    PROVE  s.writers \in Writers(c) /\ s.files \in WavFiles /\ s.pending \in EventBags
  BY DEF StatesOf

LEMMA IdFacts ==
    ASSUME NEW c \in Registered, NEW n \in 0 .. MaxDatagrams
    PROVE  /\ Recording(c, n) \in IdsOf(c) /\ Recording(c, n) \in StoredIds
           /\ Recording(c, n)[1] = c /\ Recording(c, n)[2] = n
           /\ SoundEvent(c, Recording(c, n)) \in Sounds
  <1>1. Recording(c, n) \in IdsOf(c) /\ Recording(c, n) \in StoredIds
        /\ Recording(c, n)[1] = c /\ Recording(c, n)[2] = n
    BY DEF Recording, IdsOf, StoredIds
  <1> QED BY <1>1 DEF Sounds

LEMMA IdsOfFacts ==
    ASSUME NEW c \in Registered, NEW id \in IdsOf(c)
    PROVE  id[1] = c /\ id \in StoredIds /\ SoundEvent(c, id) \in Sounds /\ id = Recording(c, id[2])
           /\ id[2] \in 0 .. MaxDatagrams
  <1>1. id[1] = c /\ id \in StoredIds /\ id = <<c, id[2]>> /\ id[2] \in 0 .. MaxDatagrams
    BY DEF IdsOf, StoredIds
  <1> QED BY <1>1 DEF Sounds, Recording

LEMMA NewWriterStep ==
    ASSUME NEW c \in Registered, NEW s, Sound(s, c), NEW id \in IdsOf(c),
           NEW t, t = NewWriter(s, id)
    PROVE  /\ Sound(t, c) /\ Touches(s, t, id) /\ t.pending = s.pending
           /\ id \in DOMAIN t.writers
  <1> DEFINE f == [chunks |-> << >>, final |-> FALSE]
             w == With(s.writers, id, 0)
             fs == With(s.files, id, f)
  <1>1. s.writers \in Writers(c) /\ s.files \in WavFiles /\ s.pending \in EventBags
        /\ s \in StatesOf(c) /\ WritersFit(s.writers, s.files) /\ Ordered(s.files)
    BY StateFacts DEF Sound
  <1>2. f \in Files /\ ~f.final /\ InOrder(f.chunks) /\ Ahead(f.chunks, 0) /\ id \in StoredIds
    BY NewFile, IdsOfFacts
  <1>3. w = With(s.writers, id, 0) /\ fs = With(s.files, id, f)
        /\ t = [s EXCEPT !.writers = w, !.files = fs]
    BY DEF NewWriter
  <1> HIDE DEF f, w, fs
  <1>4. /\ w \in Writers(c) /\ DOMAIN w = DOMAIN s.writers \cup {id} /\ w[id] = 0
        /\ \A x \in DOMAIN s.writers : x # id => w[x] = s.writers[x]
    <2>1. w \in Writers(c)
      BY <1>1, <1>3, MapWith DEF Writers
    <2> QED BY <1>3, <2>1 DEF With
  <1>5. /\ fs \in WavFiles /\ DOMAIN fs = DOMAIN s.files \cup {id} /\ fs[id] = f
        /\ \A x \in DOMAIN s.files : x # id => fs[x] = s.files[x]
    <2>1. fs \in WavFiles
      BY <1>1, <1>2, <1>3, MapWith DEF WavFiles
    <2> QED BY <1>3, <2>1 DEF With
  <1>6. t.writers = w /\ t.files = fs /\ t.pending = s.pending /\ t \in StatesOf(c)
    <2>1. t \in StatesOf(c)
      BY <1>1, <1>3, <1>4, <1>5 DEF StatesOf
    <2> QED BY <1>1, <1>3, <2>1 DEF StatesOf
  <1>7. WritersFit(w, fs)
    BY <1>1, <1>2, <1>4, <1>5 DEF WritersFit
  <1>8. Ordered(fs)
    BY <1>1, <1>2, <1>5 DEF Ordered
  <1>9. Touches(s, t, id)
    BY <1>4, <1>5, <1>6 DEF Touches
  <1> QED BY <1>4, <1>6, <1>7, <1>8, <1>9 DEF Sound

LEMMA WriteChunkStep ==
    ASSUME NEW c \in Registered, NEW s, Sound(s, c), NEW id \in DOMAIN s.writers,
           NEW seq \in Nat, NEW ok \in BOOLEAN, NEW t, t = WriteChunk(s, id, seq, ok)
    PROVE  /\ Sound(t, c) /\ Touches(s, t, id) /\ t.pending = s.pending
           /\ id \in DOMAIN t.writers
  <1> DEFINE n == s.writers[id]
             f == s.files[id]
             k == [seq |-> seq, whole |-> ok]
             q == Append(f.chunks, k)
             g == [f EXCEPT !.chunks = q]
             m == IF ok THEN seq ELSE n
             fs == [s.files EXCEPT ![id] = g]
             w == [s.writers EXCEPT ![id] = m]
  <1>1. s.writers \in Writers(c) /\ s.files \in WavFiles /\ s.pending \in EventBags
        /\ s \in StatesOf(c) /\ WritersFit(s.writers, s.files) /\ Ordered(s.files)
    BY StateFacts DEF Sound
  <1>2. n \in Nat /\ id \in DOMAIN s.files /\ f \in Files /\ ~f.final
        /\ Ahead(f.chunks, n) /\ InOrder(f.chunks)
    BY <1>1, MapFacts DEF Writers, WavFiles, WritersFit, Ordered
  <1>3. CASE ~(n < seq)
    BY <1>3 DEF WriteChunk, Touches
  <1>4. CASE n < seq
    <2>1. k \in Chunks /\ k.seq = seq /\ k.whole = ok /\ m = (IF k.whole THEN k.seq ELSE n)
      BY DEF Chunks
    <2>2. t = [s EXCEPT !.files = fs, !.writers = w]
      BY <1>4 DEF WriteChunk
    <2> HIDE DEF n, f, m, k
    <2>3. g \in Files /\ ~g.final /\ InOrder(g.chunks) /\ Ahead(g.chunks, m)
      <3>1. q \in Seq(Chunks) /\ InOrder(q) /\ Ahead(q, m)
        BY <1>2, <1>4, <2>1, FileFacts, ChunkFits
      <3> HIDE DEF q
      <3>2. g \in Files /\ g.final = f.final /\ g.chunks = q
        BY <1>2, <3>1 DEF Files, Chunks
      <3> QED BY <1>2, <3>1, <3>2
    <2> HIDE DEF g
    <2>4. m \in Nat
      BY <1>2, <2>1
    <2>5. fs = [s.files EXCEPT ![id] = g] /\ w = [s.writers EXCEPT ![id] = m]
      OBVIOUS
    <2> HIDE DEF fs, w
    <2>6. /\ fs \in WavFiles /\ DOMAIN fs = DOMAIN s.files /\ fs[id] = g
          /\ \A x \in DOMAIN s.files : x # id => fs[x] = s.files[x]
      <3>1. fs \in WavFiles
        BY <1>1, <1>2, <2>3, <2>5, MapExcept DEF WavFiles
      <3> QED BY <1>2, <2>5, <3>1
    <2>7. /\ w \in Writers(c) /\ DOMAIN w = DOMAIN s.writers /\ w[id] = m
          /\ \A x \in DOMAIN s.writers : x # id => w[x] = s.writers[x]
      <3>1. w \in Writers(c)
        BY <1>1, <2>4, <2>5, MapExcept DEF Writers
      <3> QED BY <2>5, <3>1
    <2>8. t.writers = w /\ t.files = fs /\ t.pending = s.pending /\ t \in StatesOf(c)
      <3>1. t \in StatesOf(c)
        BY <1>1, <2>2, <2>6, <2>7 DEF StatesOf
      <3> QED BY <1>1, <2>2, <3>1 DEF StatesOf
    <2>9. WritersFit(w, fs)
      <3> SUFFICES ASSUME NEW x \in DOMAIN w
                   PROVE  x \in DOMAIN fs /\ ~fs[x].final /\ Ahead(fs[x].chunks, w[x])
        BY DEF WritersFit
      <3>1. CASE x = id
        BY <1>2, <2>3, <2>6, <2>7, <3>1
      <3>2. CASE x # id
        BY <1>1, <2>6, <2>7, <3>2 DEF WritersFit
      <3> QED BY <3>1, <3>2
    <2>10. Ordered(fs)
      BY <1>1, <2>3, <2>6 DEF Ordered
    <2>11. Touches(s, t, id)
      BY <2>6, <2>7, <2>8 DEF Touches
    <2> QED BY <2>7, <2>8, <2>9, <2>10, <2>11 DEF Sound
  <1> QED BY <1>3, <1>4

\* The files of D are finalized.
Closing(fs, D) ==
    [id \in DOMAIN fs |-> IF id \in D THEN [fs[id] EXCEPT !.final = TRUE] ELSE fs[id]]

LEMMA ClosingFacts ==
    ASSUME NEW fs \in WavFiles, Ordered(fs), NEW D, NEW gs, gs = Closing(fs, D)
    PROVE  /\ gs \in WavFiles /\ DOMAIN gs = DOMAIN fs /\ Ordered(gs)
           /\ \A x \in DOMAIN fs : x \notin D => gs[x] = fs[x]
           /\ \A x \in DOMAIN fs : x \in D => gs[x].final
           /\ \A x \in DOMAIN fs : gs[x].chunks = fs[x].chunks
  <1>1. DOMAIN fs \in SUBSET StoredIds /\ \A x \in DOMAIN fs : fs[x] \in Files
    BY MapFacts DEF WavFiles
  <1>2. DOMAIN gs = DOMAIN fs
        /\ \A x \in DOMAIN fs : gs[x] = IF x \in D THEN [fs[x] EXCEPT !.final = TRUE] ELSE fs[x]
    BY DEF Closing
  <1>3. \A x \in DOMAIN fs : gs[x] \in Files /\ gs[x].chunks = fs[x].chunks
                              /\ (x \in D => gs[x].final)
    <2> SUFFICES ASSUME NEW x \in DOMAIN fs
                 PROVE  gs[x] \in Files /\ gs[x].chunks = fs[x].chunks /\ (x \in D => gs[x].final)
      OBVIOUS
    <2> DEFINE g == [fs[x] EXCEPT !.final = TRUE]
    <2>1. fs[x] \in Files
      BY <1>1
    <2>2. g \in Files /\ g.chunks = fs[x].chunks /\ g.final
      BY <2>1 DEF Files
    <2> HIDE DEF g
    <2>3. gs[x] = IF x \in D THEN g ELSE fs[x]
      BY <1>2 DEF g
    <2> QED BY <2>1, <2>2, <2>3
  <1>4. gs \in [DOMAIN fs -> Files]
    <2>1. gs = [x \in DOMAIN fs |-> gs[x]]
      BY DEF Closing
    <2> QED BY <1>3, <2>1
  <1>5. gs \in WavFiles
    BY <1>1, <1>4, MapIntro DEF WavFiles
  <1>6. Ordered(gs)
    BY <1>2, <1>3 DEF Ordered
  <1> QED BY <1>2, <1>3, <1>5, <1>6

LEMMA HandleChunkStep ==
    ASSUME NEW c \in Registered, NEW s, Sound(s, c), NEW m, m.id \in 0 .. MaxDatagrams,
           m.seq \in Nat, NEW created \in BOOLEAN, NEW ok \in BOOLEAN,
           NEW t, t = HandleChunk(s, c, m, created, ok)
    PROVE  /\ Sound(t, c) /\ Touches(s, t, Recording(c, m.id)) /\ t.pending = s.pending
           /\ Recording(c, m.id) \in DOMAIN t.writers \/ t = s
  <1> DEFINE id == Recording(c, m.id)
             u == NewWriter(s, id)
  <1>1. id \in IdsOf(c)
    BY IdFacts
  <1>2. CASE id \in DOMAIN s.writers
    <2>1. t = WriteChunk(s, id, m.seq, ok)
      BY <1>2 DEF HandleChunk
    <2> QED BY <1>2, <2>1, WriteChunkStep
  <1>3. CASE id \notin DOMAIN s.writers /\ created
    <2>1. t = WriteChunk(u, id, m.seq, ok)
      BY <1>3 DEF HandleChunk
    <2>2. Sound(u, c) /\ Touches(s, u, id) /\ u.pending = s.pending /\ id \in DOMAIN u.writers
      BY <1>1, NewWriterStep
    <2> HIDE DEF u, id
    <2>3. Sound(t, c) /\ Touches(u, t, id) /\ t.pending = u.pending /\ id \in DOMAIN t.writers
      BY <2>1, <2>2, WriteChunkStep
    <2>4. Touches(s, t, id)
      BY <2>2, <2>3 DEF Touches
    <2> QED BY <2>2, <2>3, <2>4 DEF id
  <1>4. CASE id \notin DOMAIN s.writers /\ ~created
    BY <1>4 DEF HandleChunk, Touches
  <1> QED BY <1>2, <1>3, <1>4

\* What the end of a recording does to the state of its handler.
Ended(s, t, c, id, ok) ==
    /\ Touches(s, t, id)
    /\ id \notin DOMAIN t.writers
    /\ \/ /\ t.pending = s.pending /\ t.files = s.files
          /\ id \in DOMAIN s.writers => ~ok
       \/ /\ id \in DOMAIN s.writers
          /\ t.pending = s.pending (+) SetToBag({SoundEvent(c, id)})
          /\ DOMAIN t.files = DOMAIN s.files /\ t.files[id].final

LEMMA HandleEndStep ==
    ASSUME NEW c \in Registered, NEW s, Sound(s, c), NEW m, m.id \in 0 .. MaxDatagrams,
           NEW ok \in BOOLEAN, NEW t, t = HandleEnd(s, c, m, ok)
    PROVE  Sound(t, c) /\ Ended(s, t, c, Recording(c, m.id), ok)
  <1> DEFINE id == Recording(c, m.id)
             w == Without(s.writers, id)
             u == [s EXCEPT !.writers = w]
  <1>1. s.writers \in Writers(c) /\ s.files \in WavFiles /\ s.pending \in EventBags
        /\ s \in StatesOf(c) /\ WritersFit(s.writers, s.files) /\ Ordered(s.files)
    BY StateFacts DEF Sound
  <1>2. id \in IdsOf(c) /\ SoundEvent(c, id) \in Sounds
    BY IdFacts
  <1>3. CASE id \notin DOMAIN s.writers
    BY <1>3 DEF HandleEnd, Ended, Touches
  <1>4. CASE id \in DOMAIN s.writers
    <2>1. t = Finalize(u, c, id, ok)
      BY <1>4 DEF HandleEnd
    <2>2. DOMAIN w = DOMAIN s.writers \ {id} /\ \A x \in DOMAIN w : w[x] = s.writers[x]
      BY DEF Without, Restrict
    <2>3. w \in Writers(c)
      BY <1>1, MapWithout DEF Writers
    <2> HIDE DEF w, id
    <2>4. u \in StatesOf(c) /\ u.writers = w /\ u.files = s.files /\ u.pending = s.pending
      BY <1>1, <2>3 DEF StatesOf
    <2> HIDE DEF u
    <2>5. WritersFit(w, s.files)
      BY <1>1, <2>2 DEF WritersFit
    <2>6. CASE ~ok
      <3>1. t = u
        BY <2>1, <2>6 DEF Finalize
      <3> QED BY <1>1, <2>2, <2>4, <2>5, <2>6, <3>1 DEF Sound, Ended, Touches, id
    <2>7. CASE ok
      <3> DEFINE f == s.files[id]
                 g == [f EXCEPT !.final = TRUE]
                 fs == [s.files EXCEPT ![id] = g]
                 p == s.pending (+) SetToBag({SoundEvent(c, id)})
      <3>1. id \in DOMAIN s.files /\ f \in Files /\ InOrder(f.chunks)
        BY <1>1, <1>4, MapFacts DEF WritersFit, WavFiles, Ordered
      <3>2. t = [u EXCEPT !.files = fs, !.pending = p]
        BY <2>1, <2>4, <2>7 DEF Finalize
      <3>3. p \in EventBags
        <4>1. {SoundEvent(c, id)} \in SUBSET Sounds
          BY <1>2 DEF id
        <4> QED BY <1>1, <4>1, BagPlus DEF EventBags
      <3> HIDE DEF f, p
      <3>4. g \in Files /\ g.final /\ g.chunks = f.chunks
        BY <3>1 DEF Files
      <3> HIDE DEF g
      <3>5. fs \in WavFiles /\ DOMAIN fs = DOMAIN s.files /\ fs[id] = g
            /\ \A x \in DOMAIN s.files : x # id => fs[x] = s.files[x]
        <4>1. fs \in WavFiles
          BY <1>1, <3>1, <3>4, MapExcept DEF WavFiles
        <4> QED BY <3>1, <4>1
      <3> HIDE DEF fs
      <3>6. t \in StatesOf(c) /\ t.writers = w /\ t.files = fs /\ t.pending = p
        BY <2>4, <3>2, <3>3, <3>5 DEF StatesOf
      <3>7. WritersFit(w, fs)
        <4>1. \A x \in DOMAIN w : x # id
          BY <2>2
        <4> QED BY <2>5, <3>5, <4>1 DEF WritersFit
      <3>8. Ordered(fs)
        BY <1>1, <3>1, <3>4, <3>5 DEF Ordered
      <3>9. Touches(s, t, id)
        BY <2>2, <3>5, <3>6 DEF Touches
      <3>10. Ended(s, t, c, id, ok)
        BY <1>4, <2>2, <3>4, <3>5, <3>6, <3>9 DEF Ended, p
      <3> QED BY <3>6, <3>7, <3>8, <3>10 DEF Sound, id
    <2> QED BY <2>6, <2>7
  <1> QED BY <1>3, <1>4

SoundsOf(c, ids) == {SoundEvent(c, id) : id \in ids}

\* The writers of done were finalized.
Finalized(s, t, c, done) ==
    /\ t.files = Closing(s.files, done)
    /\ SoundsOf(c, done) \in SUBSET Sounds
    /\ t.pending = s.pending (+) SetToBag(SoundsOf(c, done))
    /\ done \in SUBSET IdsOf(c) /\ done \in SUBSET DOMAIN s.files

LEMMA FinalizeAllStep ==
    ASSUME NEW c \in Registered, NEW s, Sound(s, c), NEW failing,
           NEW t, t = FinalizeAll(s, c, failing),
           NEW done, done = DOMAIN s.writers \ failing
    PROVE  Sound(t, c) /\ Finalized(s, t, c, done)
  <1> DEFINE fs == Closing(s.files, done)
             E == SoundsOf(c, done)
             p == s.pending (+) SetToBag(E)
  <1>1. s.writers \in Writers(c) /\ s.files \in WavFiles /\ s.pending \in EventBags
        /\ WritersFit(s.writers, s.files) /\ Ordered(s.files)
    BY StateFacts DEF Sound
  <1>2. t = [writers |-> EmptyMap, files |-> fs, pending |-> p]
    BY DEF FinalizeAll, Closing, SoundsOf
  <1>3. done \in SUBSET IdsOf(c) /\ done \in SUBSET DOMAIN s.files
    BY <1>1, MapFacts DEF Writers, WritersFit
  <1>4. E \in SUBSET Sounds
    BY <1>3, IdsOfFacts DEF SoundsOf
  <1> HIDE DEF E
  <1>5. p \in EventBags
    BY <1>1, <1>4, BagPlus DEF EventBags
  <1>6. fs \in WavFiles /\ Ordered(fs)
    BY <1>1, ClosingFacts
  <1>7. EmptyMap \in Writers(c) /\ DOMAIN EmptyMap = {}
    BY EmptyMapFacts DEF Writers
  <1> HIDE DEF fs, p
  <1>8. t \in StatesOf(c) /\ t.writers = EmptyMap /\ t.files = fs /\ t.pending = p
    BY <1>2, <1>5, <1>6, <1>7 DEF StatesOf
  <1>9. Sound(t, c)
    BY <1>6, <1>7, <1>8 DEF Sound, WritersFit
  <1> QED BY <1>3, <1>4, <1>8, <1>9 DEF fs, p, E, Finalized

-----------------------------------------------------------------------------
(* The steps of the server keep the invariant *)

\* Nothing of another client was touched.
OthersKept(s, t, c) ==
    \A x : x \notin IdsOf(c) =>
        /\ x \in DOMAIN t.files <=> x \in DOMAIN s.files
        /\ x \in DOMAIN s.files => t.files[x] = s.files[x]

LEMMA HandlerFacts ==
    ASSUME ServerInv, NEW c \in Clients
    PROVE  /\ handlers[c] \in HandlerOf(c) /\ handlers[c].up \in BOOLEAN
           /\ handlers[c].inbox \in Seq(Msgs) /\ handlers[c].writers \in Writers(c)
           /\ DOMAIN handlers[c].writers \subseteq IdsOf(c)
           /\ handlers[c].inbox # << >> => handlers[c].up
           /\ DOMAIN handlers[c].writers # {} => handlers[c].up
           /\ handlers[c].up => c \in Registered /\ Sound(State(c), c)
           /\ State(c).writers = handlers[c].writers /\ State(c).files = files
           /\ State(c).pending = pending
  <1>1. HandlerOK(c)
    BY DEF ServerInv
  <1>2. /\ handlers[c] \in HandlerOf(c) /\ handlers[c].up \in BOOLEAN
        /\ handlers[c].inbox \in Seq(Msgs) /\ handlers[c].writers \in Writers(c)
    BY <1>1 DEF HandlerOK, HandlerOf
  <1>3. DOMAIN handlers[c].writers \subseteq IdsOf(c)
    BY <1>2, MapFacts DEF Writers
  <1>4. NoHandler.inbox = << >> /\ NoHandler.writers = EmptyMap /\ DOMAIN EmptyMap = {}
    BY EmptyMapFacts DEF NoHandler, EmptyMap
  <1>5. handlers[c].up => Sound(State(c), c)
    BY <1>1, <1>2 DEF ServerInv, HandlerOK, State, Sound, StatesOf
  <1>6. /\ State(c).writers = handlers[c].writers /\ State(c).files = files
        /\ State(c).pending = pending
    BY DEF State
  <1> QED BY <1>1, <1>2, <1>3, <1>4, <1>5, <1>6 DEF HandlerOK

\* A step of the handler of c, or of one that stops.
LEMMA OneHandlerSteps ==
    ASSUME ServerInv, NEW c \in Clients, NEW t, Sound(t, c), OthersKept(State(c), t, c),
           NEW h \in HandlerOf(c), h.writers = t.writers,
           h.up => c \in Registered, ~h.up => h = NoHandler,
           handlers' = [handlers EXCEPT ![c] = h], files' = t.files, pending' = t.pending,
           UNCHANGED <<streams, rows>>, ScalarsOK'
    PROVE  ServerInv'
  <1>1. t.files \in WavFiles /\ t.pending \in EventBags /\ WritersFit(t.writers, t.files)
        /\ Ordered(t.files)
    BY StateFacts DEF Sound
  <1>2. DOMAIN handlers = Clients /\ DOMAIN handlers' = Clients /\ handlers'[c] = h
        /\ \A d \in Clients : d # c => handlers'[d] = handlers[d]
    BY DEF ServerInv
  <1>3. HandlerOK(c)'
    BY <1>1, <1>2 DEF HandlerOK, NoHandler
  <1>4. ASSUME NEW d \in Clients, d # c PROVE HandlerOK(d)'
    <2>1. HandlerOK(d) /\ handlers'[d] = handlers[d]
      BY <1>2, <1>4 DEF ServerInv
    <2>2. DOMAIN handlers[d].writers \subseteq IdsOf(d)
      BY HandlerFacts
    <2>3. \A x \in DOMAIN handlers[d].writers : x \notin IdsOf(c)
      BY <1>4, <2>2 DEF IdsOf
    <2>4. WritersFit(handlers[d].writers, files')
      BY <2>1, <2>3, HandlerFacts DEF HandlerOK, WritersFit, OthersKept
    <2> QED BY <2>1, <2>4 DEF HandlerOK, NoHandler
  <1>5. \A d \in Clients : HandlerOK(d)'
    BY <1>3, <1>4
  <1> QED BY <1>1, <1>2, <1>5 DEF ServerInv, SenderOK, Ordered

LEMMA MsgFacts ==
    ASSUME NEW m \in Msgs
    PROVE  /\ m.kind = "WavChunk" => m.id \in 0 .. MaxDatagrams /\ m.seq \in Nat
           /\ m.kind = "WavEnd" => m.id \in 0 .. MaxDatagrams
  BY ServerAssumption DEF Msgs, Wire!Datagrams

\* Handler<AudioBytes>::handle, as the operation its datagram asks for.
ChunkHandled(c, t) ==
    LET s == State(c)
        id == Recording(c, Head(handlers[c].inbox).id)
    IN  /\ Head(handlers[c].inbox).kind = "WavChunk"
        /\ Touches(s, t, id) /\ t.pending = pending
        /\ id \in DOMAIN t.writers \/ t = s

EndHandled(c, t) ==
    /\ Head(handlers[c].inbox).kind = "WavEnd"
    /\ \E ok \in DiskOutcomes :
          Ended(State(c), t, c, Recording(c, Head(handlers[c].inbox).id), ok)

LEMMA HandleFacts ==
    ASSUME ServerInv, NEW c \in Clients, Handle(c)
    PROVE  /\ c \in Registered /\ handlers[c].up /\ handlers[c].inbox # << >>
           /\ handlers[c].inbox \in Seq(Msgs)
           /\ UNCHANGED <<lookup, system, restarts, network, database, clientState>>
           /\ \E t : /\ Sound(t, c)
                     /\ handlers' = [handlers EXCEPT ![c].inbox = Tail(@),
                                                     ![c].writers = t.writers]
                     /\ files' = t.files /\ pending' = t.pending
                     /\ t = State(c) \/ ChunkHandled(c, t) \/ EndHandled(c, t)
  <1> DEFINE m == Head(handlers[c].inbox)
             T(created, ok) ==
                IF m.kind = "WavChunk" THEN HandleChunk(State(c), c, m, created, ok)
                ELSE IF m.kind = "WavEnd" THEN HandleEnd(State(c), c, m, ok)
                ELSE State(c)
  <1>1. handlers[c].inbox # << >> /\ handlers[c].up /\ c \in Registered /\ Sound(State(c), c)
        /\ handlers[c].inbox \in Seq(Msgs) /\ State(c).pending = pending
    BY HandlerFacts DEF Handle
  <1>2. m \in Msgs
    BY <1>1, HeadTailProperties
  <1>3. DiskOutcomes \subseteq BOOLEAN
    BY ServerAssumption
  <1>4. PICK created \in DiskOutcomes, ok \in DiskOutcomes :
          /\ handlers' = [handlers EXCEPT ![c].inbox = Tail(@), ![c].writers = T(created, ok).writers]
          /\ files' = T(created, ok).files
          /\ pending' = T(created, ok).pending
    BY DEF Handle
  <1> DEFINE t == T(created, ok)
  <1>5. UNCHANGED <<lookup, system, restarts, network, database, clientState>>
    BY DEF Handle
  <1>6. Sound(t, c) /\ (t = State(c) \/ ChunkHandled(c, t) \/ EndHandled(c, t))
    <2>1. CASE m.kind = "WavChunk"
      <3>1. t = HandleChunk(State(c), c, m, created, ok)
        BY <2>1
      <3> HIDE DEF t
      <3> QED BY <1>1, <1>2, <1>3, <2>1, <3>1, MsgFacts, HandleChunkStep DEF ChunkHandled
    <2>2. CASE m.kind = "WavEnd"
      <3>1. t = HandleEnd(State(c), c, m, ok)
        BY <2>2
      <3> HIDE DEF t
      <3> QED BY <1>1, <1>2, <1>3, <2>2, <3>1, MsgFacts, HandleEndStep DEF EndHandled
    <2>3. CASE m.kind \notin {"WavChunk", "WavEnd"}
      <3>1. t = State(c)
        BY <2>3
      <3> QED BY <1>1, <3>1
    <2> QED BY <2>1, <2>2, <2>3
  <1> HIDE DEF T
  <1> QED BY <1>1, <1>4, <1>5, <1>6

LEMMA HandleInv ==
    ASSUME ServerInv, NEW c \in Clients, Handle(c)
    PROVE  ServerInv'
  <1>1. PICK t : /\ Sound(t, c)
                 /\ handlers' = [handlers EXCEPT ![c].inbox = Tail(@), ![c].writers = t.writers]
                 /\ files' = t.files /\ pending' = t.pending
                 /\ t = State(c) \/ ChunkHandled(c, t) \/ EndHandled(c, t)
    BY HandleFacts
  <1> DEFINE h == [handlers[c] EXCEPT !.inbox = Tail(handlers[c].inbox), !.writers = t.writers]
             m == Head(handlers[c].inbox)
  <1>2. /\ c \in Registered /\ handlers[c].up /\ handlers[c].inbox \in Seq(Msgs)
        /\ handlers[c] \in HandlerOf(c) /\ handlers[c].inbox # << >>
        /\ UNCHANGED <<lookup, system, restarts, network, database, clientState>>
    BY HandleFacts, HandlerFacts
  <1>3. handlers' = [handlers EXCEPT ![c] = h]
    BY <1>1
  <1>4. t.writers \in Writers(c) /\ Tail(handlers[c].inbox) \in Seq(Msgs) /\ m \in Msgs
    BY <1>1, <1>2, StateFacts, HeadTailProperties DEF Sound
  <1>5. h \in HandlerOf(c) /\ h.writers = t.writers /\ h.up
    BY <1>2, <1>4 DEF HandlerOf
  <1> HIDE DEF h
  <1>6. OthersKept(State(c), t, c)
    <2>1. CASE t = State(c)
      BY <2>1 DEF OthersKept
    <2>2. CASE ChunkHandled(c, t) \/ EndHandled(c, t)
      <3>1. Touches(State(c), t, Recording(c, m.id)) /\ m.id \in 0 .. MaxDatagrams
        BY <1>4, <2>2, MsgFacts DEF ChunkHandled, EndHandled, Ended
      <3>2. Recording(c, m.id) \in IdsOf(c)
        BY <1>2, <3>1, IdFacts
      <3> QED BY <3>1, <3>2 DEF Touches, OthersKept
    <2> QED BY <1>1, <2>1, <2>2
  <1>7. UNCHANGED <<streams, rows>> /\ ScalarsOK'
    BY <1>2 DEF network, database, clientState, ServerInv, ScalarsOK
  <1> QED BY <1>1, <1>2, <1>3, <1>5, <1>6, <1>7, OneHandlerSteps

\* Steps that leave handlers, files and events alone.
LEMMA HandlersUnchanged ==
    ASSUME ServerInv, UNCHANGED <<handlers, files, pending, rows>>, ScalarsOK',
           streams' \in [Clients -> Senders], \A c \in Clients : SenderOK(streams'[c])
    PROVE  ServerInv'
  BY DEF ServerInv, HandlerOK, Ordered, SenderOK

LEMMA SendingFacts ==
    ASSUME NEW k, SenderOK(k), Wire!Budget(k)
    PROVE  /\ SenderOK(Wire!Sending(k, Wire!SpecMsg))
           /\ SenderOK(Wire!SendingChunk(k, 1))
           /\ SenderOK(Wire!SendingEnd(Wire!SendingChunk(k, 1)))
  <1>1. k \in Senders /\ k.id \in Nat /\ k.seq \in Nat /\ k.sent \in Seq(Msgs) /\ Len(k.sent) \in Nat
        /\ k.id <= MaxDatagrams /\ k.id <= Len(k.sent)
    BY LenProperties DEF SenderOK, Senders
  <1>2. Len(k.sent) + 2 <= MaxDatagrams
    BY DEF Wire!Budget
  <1> DEFINE m1 == Wire!ChunkMsg(k.id, k.seq, 1)
             m2 == Wire!EndMsg(k.id)
             q1 == Append(k.sent, m1)
             q2 == Append(q1, m2)
             q3 == Append(k.sent, Wire!SpecMsg)
             k1 == [k EXCEPT !.sent = q1]
             k2 == [k1 EXCEPT !.seq = k.seq + 1]
             k3 == [k2 EXCEPT !.sent = q2]
             k4 == [k3 EXCEPT !.id = k.id + 1, !.seq = 0]
             k5 == [k EXCEPT !.sent = q3]
  <1>3. m1 \in Msgs /\ m2 \in Msgs /\ Wire!SpecMsg \in Msgs
    <2>1. 1 % 1 = 0
      OBVIOUS
    <2> QED BY <1>1, <2>1
           DEF Msgs, Wire!Datagrams, Wire!ChunkMsg, Wire!EndMsg, Wire!SpecMsg
  <1> HIDE DEF m1, m2
  <1>4. /\ q1 \in Seq(Msgs) /\ Len(q1) = Len(k.sent) + 1
        /\ q3 \in Seq(Msgs) /\ Len(q3) = Len(k.sent) + 1
    BY <1>1, <1>3, AppendProperties
  <1> HIDE DEF q1
  <1>5. q2 \in Seq(Msgs) /\ Len(q2) = Len(k.sent) + 2
    BY <1>1, <1>3, <1>4, AppendProperties
  <1> HIDE DEF q2, q3
  <1>6. k1 \in Senders /\ k1.id = k.id /\ k1.seq = k.seq /\ k1.sent = q1
    BY <1>1, <1>4 DEF Senders
  <1>7. k5 \in Senders /\ k5.id = k.id /\ k5.sent = q3
    BY <1>1, <1>4 DEF Senders
  <1> HIDE DEF k1
  <1>8. k2 \in Senders /\ k2.id = k.id /\ k2.sent = q1
    BY <1>1, <1>6 DEF Senders
  <1>9. k2 = Wire!SendingChunk(k, 1) /\ k5 = Wire!Sending(k, Wire!SpecMsg)
    BY <1>1, <1>6 DEF Wire!SendingChunk, Wire!Sending, k1, q1, q3, m1
  <1> HIDE DEF k2, k5
  <1>10. k3 \in Senders /\ k3.id = k.id /\ k3.sent = q2
    BY <1>5, <1>8 DEF Senders
  <1>11. k3 = Wire!Sending(k2, Wire!EndMsg(k2.id))
    BY <1>8 DEF Wire!Sending, q2, m2
  <1> HIDE DEF k3
  <1>12. k4 \in Senders /\ k4.id = k.id + 1 /\ k4.sent = q2
    <2> DEFINE n == k.id + 1
    <2>1. n \in Nat /\ 0 \in Nat
      BY <1>1
    <2>2. k4 = [k3 EXCEPT !.id = n, !.seq = 0]
      OBVIOUS
    <2> HIDE DEF n
    <2>3. k4 \in Senders /\ k4.id = n /\ k4.sent = q2
      BY <1>10, <2>1, <2>2 DEF Senders
    <2> QED BY <2>3 DEF n
  <1>13. k4 = Wire!SendingEnd(k2)
    BY <1>10, <1>11 DEF Wire!SendingEnd
  <1> HIDE DEF k4
  <1>14. SenderOK(k2) /\ SenderOK(k4) /\ SenderOK(k5)
    BY <1>1, <1>2, <1>4, <1>5, <1>7, <1>8, <1>12, ServerAssumption DEF SenderOK
  <1> QED BY <1>9, <1>13, <1>14

LEMMA ClientInv ==
    ASSUME ServerInv, NEW c \in Clients, Client(c)
    PROVE  ServerInv'
  <1>1. PICK k : SenderOK(k) /\ streams' = [streams EXCEPT ![c] = k]
    <2>1. SenderOK(streams[c])
      BY DEF ServerInv
    <2> QED BY <2>1, SendingFacts
           DEF Client, ClientSendsChunk, ClientEndsRecording, ClientAnswersHandshake
  <1>2. UNCHANGED <<handlers, files, pending, rows>> /\ ScalarsOK'
    BY DEF Client, ClientSendsChunk, ClientEndsRecording, ClientAnswersHandshake, network,
           database, ServerInv, ScalarsOK
  <1>3. streams' \in [Clients -> Senders] /\ \A d \in Clients : SenderOK(streams'[d])
    BY <1>1 DEF ServerInv, SenderOK
  <1> QED BY <1>2, <1>3, HandlersUnchanged

LEMMA ReceiveInv ==
    ASSUME ServerInv, NEW c \in Clients, NEW i \in 1 .. MaxDatagrams, Receive(c, i)
    PROVE  ServerInv'
  <1> DEFINE m == streams[c].sent[i]
  <1>1. i \in 1 .. Len(streams[c].sent) /\ m \in Msgs
    <2>1. i \in 1 .. Len(streams[c].sent)
      BY DEF Receive, Arrives
    <2>2. streams[c] \in Senders
      BY DEF ServerInv
    <2>3. streams[c].sent \in Seq(Msgs)
      BY <2>2 DEF Senders
    <2> QED BY <2>1, <2>3, ElementOfSeq
  <1>2. /\ UNCHANGED <<streams, files, pending, system, restarts, rows, devices>>
        /\ Dispatch(c, m)
        /\ deliveries < MaxDeliveries /\ deliveries' = deliveries + 1
        /\ received' = [received EXCEPT ![c] = i]
    BY DEF Receive, Arrives, database
  <1> HIDE DEF m
  <1>3. ScalarsOK'
    <2>1. received' \in [Clients -> 0 .. MaxDatagrams]
      BY <1>2, ServerAssumption DEF ServerInv, ScalarsOK
    <2>2. deliveries' \in 0 .. MaxDeliveries
      BY <1>2, ServerAssumption DEF ServerInv, ScalarsOK
    <2>3. lookup' \in Clients \cup {NoClient} /\ handshakes' \subseteq Clients
      BY <1>2 DEF ServerInv, ScalarsOK, Dispatch
    <2> QED BY <1>2, <2>1, <2>2, <2>3 DEF ServerInv, ScalarsOK
  <1>4. CASE ~handlers[c].up
    BY <1>2, <1>3, <1>4, HandlersUnchanged DEF Dispatch, ServerInv
  <1>5. CASE handlers[c].up
    <2> DEFINE h == [handlers[c] EXCEPT !.inbox = Append(handlers[c].inbox, m)]
    <2>1. handlers' = [handlers EXCEPT ![c] = h]
      BY <1>2, <1>5 DEF Dispatch
    <2>2. Append(handlers[c].inbox, m) \in Seq(Msgs)
      BY <1>1, HandlerFacts, AppendProperties
    <2>3. h \in HandlerOf(c) /\ h.writers = handlers[c].writers /\ h.up
      BY <1>5, <2>2, HandlerFacts DEF HandlerOf
    <2> HIDE DEF h
    <2> QED BY <1>2, <1>3, <1>5, <2>1, <2>3, HandlerFacts, OneHandlerSteps DEF OthersKept
  <1> QED BY <1>4, <1>5

LEMMA NoHandlerFacts ==
    ASSUME NEW c
    PROVE  /\ NoHandler \in HandlerOf(c) /\ ~NoHandler.up /\ NoHandler.inbox = << >>
           /\ NoHandler.writers = EmptyMap /\ DOMAIN NoHandler.writers = {}
           /\ [NoHandler EXCEPT !.up = TRUE] \in HandlerOf(c)
           /\ [NoHandler EXCEPT !.up = TRUE].up
           /\ [NoHandler EXCEPT !.up = TRUE].inbox = << >>
           /\ [NoHandler EXCEPT !.up = TRUE].writers = EmptyMap
  <1>1. << >> \in Seq(Msgs) /\ EmptyMap \in Writers(c) /\ DOMAIN EmptyMap = {}
    BY EmptySeq, EmptyMapFacts DEF Writers
  <1>2. NoHandler = [up |-> FALSE, inbox |-> << >>, writers |-> EmptyMap]
    BY DEF NoHandler, EmptyMap
  <1> QED BY <1>1, <1>2 DEF HandlerOf

LEMMA AnswerLookupInv ==
    ASSUME ServerInv, NEW c \in Clients, AnswerLookup(c)
    PROVE  ServerInv'
  <1>1. /\ UNCHANGED <<files, pending, rows, streams>> /\ ScalarsOK'
    BY DEF AnswerLookup, network, database, clientState, ServerInv, ScalarsOK
  <1>2. CASE UNCHANGED handlers
    BY <1>1, <1>2, HandlersUnchanged DEF ServerInv
  <1>3. CASE c \in devices /\ handlers' = [handlers EXCEPT ![c] = [NoHandler EXCEPT !.up = TRUE]]
    <2> DEFINE t == [writers |-> EmptyMap, files |-> files, pending |-> pending]
               h == [NoHandler EXCEPT !.up = TRUE]
    <2>1. h \in HandlerOf(c) /\ h.up /\ h.writers = EmptyMap
      BY NoHandlerFacts
    <2>2. EmptyMap \in Writers(c) /\ DOMAIN EmptyMap = {}
      BY EmptyMapFacts DEF Writers
    <2>3. Sound(t, c)
      BY <2>2 DEF Sound, StatesOf, WritersFit, ServerInv
    <2>4. OthersKept(State(c), t, c)
      BY HandlerFacts DEF OthersKept
    <2>5. c \in Registered
      BY <1>3 DEF ServerInv, ScalarsOK
    <2>6. h.writers = t.writers /\ files' = t.files /\ pending' = t.pending
      BY <1>1, <2>1
    <2>7. handlers' = [handlers EXCEPT ![c] = h]
      BY <1>3
    <2> HIDE DEF h, t
    <2> QED BY <1>1, <2>1, <2>3, <2>4, <2>5, <2>6, <2>7, OneHandlerSteps
  <1> QED BY <1>2, <1>3 DEF AnswerLookup

LEMMA StopHandlerFacts ==
    ASSUME ServerInv, NEW c \in Clients, StopHandler(c)
    PROVE  /\ c \in Registered /\ handlers[c].up /\ handlers[c].inbox = << >>
           /\ system = "stopping"
           /\ UNCHANGED <<lookup, system, restarts, network, database, clientState>>
           /\ handlers' = [handlers EXCEPT ![c] = NoHandler]
           /\ \E failing \in Failing(c) :
                LET t == FinalizeAll(State(c), c, failing) IN
                Sound(t, c) /\ files' = t.files /\ pending' = t.pending
  <1>1. c \in Registered /\ handlers[c].up /\ Sound(State(c), c)
    BY HandlerFacts DEF StopHandler
  <1>2. PICK failing \in Failing(c) :
            /\ files' = FinalizeAll(State(c), c, failing).files
            /\ pending' = FinalizeAll(State(c), c, failing).pending
    BY DEF StopHandler
  <1>3. Sound(FinalizeAll(State(c), c, failing), c)
    BY <1>1, FinalizeAllStep
  <1> QED BY <1>1, <1>2, <1>3 DEF StopHandler

LEMMA StopHandlerInv ==
    ASSUME ServerInv, NEW c \in Clients, StopHandler(c)
    PROVE  ServerInv'
  <1>1. /\ c \in Registered /\ handlers[c].up
        /\ UNCHANGED <<lookup, system, restarts, network, database, clientState>>
        /\ handlers' = [handlers EXCEPT ![c] = NoHandler]
    BY StopHandlerFacts
  <1>2. PICK failing \in Failing(c) :
            /\ Sound(FinalizeAll(State(c), c, failing), c)
            /\ files' = FinalizeAll(State(c), c, failing).files
            /\ pending' = FinalizeAll(State(c), c, failing).pending
    BY StopHandlerFacts
  <1> DEFINE t == FinalizeAll(State(c), c, failing)
             done == DOMAIN handlers[c].writers \ failing
  <1>3. t.writers = EmptyMap
    BY DEF FinalizeAll
  <1>4. t = FinalizeAll(State(c), c, failing) /\ done = DOMAIN handlers[c].writers \ failing
    OBVIOUS
  <1> HIDE DEF t, done
  <1>5. t.files = Closing(files, done) /\ done \in SUBSET IdsOf(c)
    <2> DEFINE s == State(c)
    <2>1. /\ Sound(s, c) /\ s.writers = handlers[c].writers /\ s.files = files
          /\ t = FinalizeAll(s, c, failing) /\ Sound(FinalizeAll(s, c, failing), c)
      BY <1>1, <1>2, <1>4, HandlerFacts
    <2> HIDE DEF s
    <2>2. done = DOMAIN s.writers \ failing
      BY <1>4, <2>1
    <2>3. Finalized(s, t, c, done)
      BY <1>1, <2>1, <2>2, FinalizeAllStep
    <2> QED BY <2>1, <2>3 DEF Finalized
  <1>6. OthersKept(State(c), t, c)
    BY <1>5, HandlerFacts, ClosingFacts DEF OthersKept, ServerInv
  <1>7. NoHandler \in HandlerOf(c) /\ ~NoHandler.up /\ NoHandler.writers = t.writers
    BY <1>3, NoHandlerFacts
  <1>8. UNCHANGED <<streams, rows>> /\ ScalarsOK'
    BY <1>1 DEF network, database, clientState, ServerInv, ScalarsOK
  <1> QED BY <1>1, <1>2, <1>4, <1>6, <1>7, <1>8, OneHandlerSteps

\* What main() finds open when it stops the system.
LEMMA OpenFacts ==
    ASSUME ServerInv, NEW id \in Open
    PROVE  /\ id[1] \in Clients /\ id[1] \in Registered /\ id \in DOMAIN handlers[id[1]].writers
           /\ id \in DOMAIN files /\ ~files[id].final /\ SoundEvent(id[1], id) \in Sounds
           /\ id \in IdsOf(id[1])
  <1>1. PICK c \in Clients : id \in DOMAIN handlers[c].writers
    BY DEF Open
  <1>2. c \in Registered /\ id \in IdsOf(c) /\ HandlerOK(c)
    BY <1>1, HandlerFacts DEF ServerInv
  <1>3. id[1] = c /\ SoundEvent(c, id) \in Sounds
    BY <1>2, IdsOfFacts
  <1>4. id \in DOMAIN files /\ ~files[id].final
    BY <1>1, <1>2 DEF HandlerOK, WritersFit
  <1> QED BY <1>1, <1>2, <1>3, <1>4

LEMMA StopSystemFacts ==
    ASSUME ServerInv, StopSystem
    PROVE  \E failing \in SUBSET Open :
             /\ failing # {} => FALSE \in DiskOutcomes
             /\ {SoundEvent(id[1], id) : id \in Open \ failing} \in SUBSET Sounds
             /\ files' = Closing(files, Open \ failing)
             /\ pending' = pending (+) SetToBag({SoundEvent(id[1], id) : id \in Open \ failing})
  <1>1. PICK failing \in SUBSET Open :
             /\ failing # {} => FALSE \in DiskOutcomes
             /\ files' = Closing(files, Open \ failing)
             /\ pending' = pending (+) SetToBag({SoundEvent(id[1], id) : id \in Open \ failing})
    BY DEF StopSystem, Closing
  <1>2. {SoundEvent(id[1], id) : id \in Open \ failing} \in SUBSET Sounds
    BY OpenFacts
  <1> QED BY <1>1, <1>2

LEMMA StopSystemInv == ASSUME ServerInv, StopSystem PROVE ServerInv'
  <1>1. PICK failing \in SUBSET Open :
             /\ {SoundEvent(id[1], id) : id \in Open \ failing} \in SUBSET Sounds
             /\ files' = Closing(files, Open \ failing)
             /\ pending' = pending (+) SetToBag({SoundEvent(id[1], id) : id \in Open \ failing})
    BY StopSystemFacts
  <1> DEFINE E == {SoundEvent(id[1], id) : id \in Open \ failing}
  <1>2. E \in SUBSET Sounds /\ pending' = pending (+) SetToBag(E)
    BY <1>1
  <1> HIDE DEF E
  <1>3. pending' \in EventBags
    BY <1>2, BagPlus DEF ServerInv, EventBags
  <1>4. files' \in WavFiles /\ Ordered(files')
    BY <1>1, ClosingFacts DEF ServerInv
  <1>5. handlers' = [c \in Clients |-> NoHandler]
    BY DEF StopSystem
  <1>6. \A c \in Clients : HandlerOK(c)'
    BY <1>5, NoHandlerFacts DEF HandlerOK, WritersFit
  <1>7. UNCHANGED <<streams, rows>> /\ ScalarsOK'
    BY DEF StopSystem, network, database, clientState, ServerInv, ScalarsOK
  <1> QED BY <1>3, <1>4, <1>5, <1>6, <1>7 DEF ServerInv, SenderOK, Ordered

LEMMA DatabaseInv ==
    ASSUME ServerInv,
           (\E e \in BagToSet(pending) : StoreEvent(e)) \/ (\E c \in Clients : DeleteDevice(c))
    PROVE  ServerInv'
  <1>1. UNCHANGED <<streams, handlers, files>>
    BY DEF StoreEvent, DeleteDevice, clientState
  <1>2. ScalarsOK'
    BY DEF StoreEvent, DeleteDevice, network, clientState, ServerInv, ScalarsOK
  <1>3. pending' \in EventBags /\ rows' \in EventBags
    <2>1. ASSUME NEW e \in BagToSet(pending), StoreEvent(e)
          PROVE  pending' \in EventBags /\ rows' \in EventBags
      <3>1. e \in DOMAIN pending /\ e \in Sounds
        BY <2>1, MapFacts DEF BagToSet, ServerInv, EventBags
      <3>2. pending' \in EventBags
        BY <2>1, <3>1, BagMinus DEF StoreEvent, ServerInv, EventBags
      <3>3. rows (+) SetToBag({e}) \in EventBags
        <4>1. {e} \in SUBSET Sounds
          BY <3>1
        <4> QED BY <4>1, BagPlus DEF ServerInv, EventBags
      <3> QED BY <2>1, <3>2, <3>3 DEF StoreEvent, ServerInv
    <2>2. ASSUME NEW c \in Clients, DeleteDevice(c)
          PROVE  pending' \in EventBags /\ rows' \in EventBags
      <3> DEFINE D == {e \in DOMAIN rows : e.device # c}
      <3>1. D \in SUBSET DOMAIN rows /\ rows' = Restrict(rows, D)
        BY <2>2 DEF DeleteDevice
      <3> HIDE DEF D
      <3> QED BY <2>2, <3>1, BagRestrict DEF DeleteDevice, ServerInv, EventBags
    <2> QED BY <2>1, <2>2
  <1> QED BY <1>1, <1>2, <1>3 DEF ServerInv, HandlerOK, SenderOK, Ordered

LEMMA ServerInitInv == Init => ServerInv
  <1> SUFFICES ASSUME Init PROVE ServerInv
    OBVIOUS
  <1> DEFINE k == [id |-> 0, seq |-> 0, sent |-> <<Wire!SpecMsg>>]
  <1>1. SenderOK(k)
    <2>1. Wire!SpecMsg \in Msgs
      BY DEF Wire!SpecMsg, Wire!Datagrams, Msgs
    <2>2. <<Wire!SpecMsg>> \in Seq(Msgs) /\ Len(<<Wire!SpecMsg>>) = 1
      BY <2>1
    <2> QED BY <2>2, ServerAssumption DEF SenderOK, Senders
  <1>2. streams = [c \in Clients |-> k]
    BY DEF Init
  <1> HIDE DEF k
  <1>3. streams \in [Clients -> Senders] /\ \A c \in Clients : SenderOK(streams[c])
    BY <1>1, <1>2 DEF SenderOK
  <1>4. ScalarsOK
    BY ServerAssumption DEF Init, ScalarsOK
  <1>5. files \in WavFiles /\ DOMAIN files = {} /\ pending \in EventBags /\ rows \in EventBags
    BY EmptyMapFacts DEF Init, WavFiles, EventBags
  <1>6. handlers = [c \in Clients |-> NoHandler]
    BY DEF Init
  <1>7. \A c \in Clients : HandlerOK(c)
    BY <1>6, NoHandlerFacts DEF HandlerOK, WritersFit
  <1> QED BY <1>3, <1>4, <1>5, <1>6, <1>7 DEF ServerInv, Ordered

LEMMA ServerStep == ServerInv /\ [Next]_vars => ServerInv'
  <1> SUFFICES ASSUME ServerInv, [Next]_vars PROVE ServerInv'
    OBVIOUS
  <1>1. ASSUME NEW c \in Clients,
               \/ Client(c) \/ (\E i \in 1 .. MaxDatagrams : Receive(c, i))
               \/ AnswerLookup(c) \/ Handle(c) \/ StopHandler(c)
        PROVE  ServerInv'
    BY <1>1, ClientInv, ReceiveInv, AnswerLookupInv, HandleInv, StopHandlerInv
  <1>2. CASE (\E e \in BagToSet(pending) : StoreEvent(e)) \/ (\E c \in Clients : DeleteDevice(c))
    BY <1>2, DatabaseInv
  <1>3. CASE Signal \/ StopServer \/ UNCHANGED vars
    <2>1. UNCHANGED <<handlers, files, pending, rows, streams>> /\ ScalarsOK'
      BY <1>3 DEF Signal, StopServer, vars, network, database, clientState, ServerInv, ScalarsOK
    <2> QED BY <2>1, HandlersUnchanged DEF ServerInv
  <1>4. CASE StopSystem
    BY <1>4, StopSystemInv
  <1>5. CASE Restart
    <2>1. UNCHANGED <<handlers, files, rows, streams>> /\ pending' \in EventBags
      BY <1>5, EmptyMapFacts DEF Restart, network, database, clientState, EventBags
    <2>2. ScalarsOK'
      BY <1>5, ServerAssumption DEF Restart, network, database, clientState, ServerInv, ScalarsOK
    <2> QED BY <2>1, <2>2 DEF ServerInv, HandlerOK, SenderOK, Ordered
  <1> QED BY <1>1, <1>2, <1>3, <1>4, <1>5 DEF Next

LEMMA ServerInvariant == Spec => []ServerInv
  BY ServerInitInv, ServerStep, PTL DEF Spec

-----------------------------------------------------------------------------
(* What holds on any network and any disk *)

LEMMA StoredIsRegistered ==
    ASSUME ServerInv
    PROVE  /\ DOMAIN files \subseteq StoredIds /\ \A id \in DOMAIN files : files[id] \in Files
           /\ DOMAIN pending \subseteq Sounds /\ DOMAIN rows \subseteq Sounds
  BY MapFacts DEF ServerInv, WavFiles, EventBags

\* Whatever UDP repeats or reorders and however often the disk fails,
\* AudioWriter::write keeps the chunks of a file in order.
THEOREM ChunksStoredInOrder == Spec => []StoredInOrder
  <1>1. ServerInv => StoredInOrder
    BY DEF ServerInv, Ordered, StoredInOrder
  <1> QED BY <1>1, ServerInvariant, PTL

\* A writer of a handler has an open file of its own client, so that
\* "unexpected write after finalized" is never reached.
THEOREM WritersHaveFiles == Spec => []WriterHasFile
  <1>1. ServerInv => WriterHasFile
    <2> SUFFICES ASSUME ServerInv, NEW c \in Clients, NEW id \in DOMAIN handlers[c].writers
                 PROVE  id[1] = c /\ id \in DOMAIN files /\ ~files[id].final
      BY DEF WriterHasFile
    <2>1. HandlerOK(c) /\ id \in IdsOf(c)
      BY HandlerFacts DEF ServerInv
    <2>2. id[1] = c
      BY <2>1 DEF IdsOf
    <2> QED BY <2>1, <2>2 DEF HandlerOK, WritersFit
  <1> QED BY <1>1, ServerInvariant, PTL

\* Needs no more of the server than that it leaves the tables alone.
RowsOfDevices == \A e \in DOMAIN rows : e.device \in devices

LEMMA RowsStep == ServerInv /\ RowsOfDevices /\ [Next]_vars => RowsOfDevices'
  <1> SUFFICES ASSUME ServerInv, RowsOfDevices, [Next]_vars PROVE RowsOfDevices'
    OBVIOUS
  <1>1. CASE UNCHANGED database
    BY <1>1 DEF database, RowsOfDevices
  <1>2. ASSUME NEW e \in BagToSet(pending), StoreEvent(e) PROVE RowsOfDevices'
    <2>1. devices' = devices
      BY <1>2 DEF StoreEvent
    <2>2. rows' = rows \/ (e.device \in devices /\ rows' = rows (+) SetToBag({e}))
      BY <1>2 DEF StoreEvent
    <2>3. e \in Sounds
      BY StoredIsRegistered DEF BagToSet
    <2>4. rows \in Maps(Sounds, Positive) /\ {e} \in SUBSET Sounds
      BY <2>3 DEF ServerInv, EventBags
    <2>5. DOMAIN (rows (+) SetToBag({e})) = DOMAIN rows \cup {e}
      BY <2>4, BagPlus
    <2> QED BY <2>1, <2>2, <2>5 DEF RowsOfDevices
  <1>3. ASSUME NEW c \in Clients, DeleteDevice(c) PROVE RowsOfDevices'
    <2> DEFINE D == {e \in DOMAIN rows : e.device # c}
    <2>1. devices' = devices \ {c} /\ rows' = Restrict(rows, D)
      BY <1>3 DEF DeleteDevice
    <2>2. DOMAIN rows' = D
      BY <2>1 DEF Restrict
    <2> QED BY <2>1, <2>2 DEF RowsOfDevices
  <1>4. ASSUME NEW c \in Clients,
               \/ Client(c) \/ AnswerLookup(c) \/ Handle(c) \/ StopHandler(c)
               \/ \E i \in 1 .. MaxDatagrams : Receive(c, i)
        PROVE  UNCHANGED database
    BY <1>4 DEF Client, ClientSendsChunk, ClientEndsRecording, ClientAnswersHandshake,
                AnswerLookup, Handle, StopHandler, Receive
  <1>5. CASE Signal \/ StopServer \/ StopSystem \/ Restart \/ UNCHANGED vars
    BY <1>1, <1>5 DEF Signal, StopServer, StopSystem, Restart, vars, database
  <1> QED BY <1>1, <1>2, <1>3, <1>4, <1>5 DEF Next

\* Nothing of a client without a device is stored, in the wav directory or in
\* the database, and no event of a device that was deleted, although its
\* handler goes on and its events are still on their way to EventProcessor.
THEOREM OnlyRegistered == Spec => []OnlyRegisteredStored
  <1>1. ServerInv /\ RowsOfDevices => OnlyRegisteredStored
    <2> SUFFICES ASSUME ServerInv, RowsOfDevices PROVE OnlyRegisteredStored
      OBVIOUS
    <2>1. \A id \in StoredIds : id[1] \in Registered
      BY DEF StoredIds
    <2>2. \A e \in Sounds : e.device \in Registered
      BY <2>1 DEF Sounds, SoundEvent
    <2>3. \A e \in BagToSet(rows) : e.device \in devices
      BY DEF RowsOfDevices, BagToSet
    <2> QED BY <2>1, <2>2, <2>3, StoredIsRegistered DEF OnlyRegisteredStored, BagToSet
  <1>2. Init => RowsOfDevices
    BY EmptyMapFacts DEF Init, RowsOfDevices
  <1> QED BY <1>1, <1>2, RowsStep, ServerInvariant, PTL DEF Spec

-----------------------------------------------------------------------------
(* Handlers in the life of the system *)

\* A handler is started once and never replaced while it runs: a look-up is
\* only made for a client without one, none is under way once AudioServer has
\* stopped, and no handler outlives the system.
Lifecycle ==
    /\ system \in {"stopping", "down"} => lookup = NoClient
    /\ \A c \in Clients : lookup = c => ~handlers[c].up
    /\ system = "down" => \A c \in Clients : ~handlers[c].up

LEMMA LifecycleInit == Init => Lifecycle
  <1>1. ~NoHandler.up
    BY DEF NoHandler
  <1> QED BY <1>1, ServerAssumption DEF Init, Lifecycle, NoClient

LEMMA LifecycleStep == ServerInv /\ Lifecycle /\ [Next]_vars => Lifecycle'
  <1> SUFFICES ASSUME ServerInv, Lifecycle, [Next]_vars PROVE Lifecycle'
    OBVIOUS
  <1> USE DEF Lifecycle
  <1>0. NoClient \notin Clients /\ ~NoHandler.up
    BY ServerAssumption DEF NoClient, NoHandler
  <1>1. ASSUME NEW c \in Clients, Client(c) PROVE Lifecycle'
    BY <1>1 DEF Client, ClientSendsChunk, ClientEndsRecording, ClientAnswersHandshake
  <1>2. ASSUME NEW c \in Clients, NEW i \in 1 .. MaxDatagrams, Receive(c, i) PROVE Lifecycle'
    <2>1. \A d \in Clients : handlers'[d].up = handlers[d].up
      <3>1. DOMAIN handlers = Clients /\ handlers[c] \in HandlerOf(c)
        BY HandlerFacts DEF ServerInv
      <3> QED BY <1>2, <3>1 DEF Receive, Dispatch, HandlerOf
    <2>2. lookup' = lookup \/ (lookup' = c /\ ~handlers[c].up)
      BY <1>2 DEF Receive, Dispatch
    <2> QED BY <1>2, <2>1, <2>2 DEF Receive
  <1>3. ASSUME NEW c \in Clients, AnswerLookup(c) PROVE Lifecycle'
    BY <1>0, <1>3 DEF AnswerLookup
  <1>4. ASSUME NEW c \in Clients, Handle(c) PROVE Lifecycle'
    <2>1. \A d \in Clients : handlers'[d].up = handlers[d].up
      <3>1. DOMAIN handlers = Clients /\ handlers[c] \in HandlerOf(c)
        BY HandlerFacts DEF ServerInv
      <3>2. PICK t : handlers' = [handlers EXCEPT ![c].inbox = Tail(@), ![c].writers = t.writers]
        BY <1>4, HandleFacts
      <3> QED BY <3>1, <3>2 DEF HandlerOf
    <2> QED BY <1>4, <2>1 DEF Handle
  <1>5. ASSUME NEW c \in Clients, StopHandler(c) PROVE Lifecycle'
    BY <1>0, <1>5 DEF StopHandler, ServerInv
  <1>6. CASE (\E e \in BagToSet(pending) : StoreEvent(e)) \/ (\E c \in Clients : DeleteDevice(c))
    BY <1>6 DEF StoreEvent, DeleteDevice
  <1>7. CASE Signal \/ StopServer \/ StopSystem \/ Restart \/ UNCHANGED vars
    BY <1>0, <1>7 DEF Signal, StopServer, StopSystem, Restart, vars
  <1> QED BY <1>1, <1>2, <1>3, <1>4, <1>5, <1>6, <1>7 DEF Next

\* Every variable of the server keeps its type, no recording number leaves the
\* range that MaxDatagrams allows, a handler that is not running is gone with its
\* mailbox and its writers, and no look-up outlives AudioServer or is made for a
\* client that is served.
THEOREM AudioTypeCorrect == Spec => []AudioTypeOK
  <1>1. ServerInv /\ Lifecycle => AudioTypeOK
    <2> SUFFICES ASSUME ServerInv, Lifecycle PROVE AudioTypeOK
      OBVIOUS
    <2>1. ASSUME NEW c \in Clients
          PROVE  /\ handlers[c].up \in BOOLEAN
                 /\ handlers[c].inbox \in Seq(Wire!Datagrams)
                 /\ IsMap(handlers[c].writers, Nat)
                 /\ ~handlers[c].up => handlers[c] = NoHandler
                 /\ lookup = c => system \in {"up", "signalled"} /\ ~handlers[c].up
      <3>1. /\ handlers[c].up \in BOOLEAN /\ handlers[c].inbox \in Seq(Msgs)
            /\ handlers[c].writers \in Writers(c)
        BY HandlerFacts
      <3>2. Msgs \subseteq Wire!Datagrams /\ IdsOf(c) \subseteq Ids
        BY DEF Msgs, IdsOf, Ids
      <3>3. handlers[c].inbox \in Seq(Wire!Datagrams)
        BY <3>1, <3>2, SeqMonotonic
      <3>4. IsMap(handlers[c].writers, Nat)
        BY <3>1, <3>2, MapFacts DEF IsMap, Writers
      <3>5. ~handlers[c].up => handlers[c] = NoHandler
        BY DEF ServerInv, HandlerOK
      <3>6. lookup = c => system \in {"up", "signalled"} /\ ~handlers[c].up
        BY ServerAssumption DEF ServerInv, ScalarsOK, Lifecycle, NoClient
      <3> QED BY <3>1, <3>3, <3>4, <3>5, <3>6
    <2>2. IsMap(files, Files)
      BY StoredIsRegistered, ServerAssumption DEF IsMap, StoredIds, Ids
    <2>3. BagToSet(pending) \cup BagToSet(rows) \subseteq {SoundEvent(id[1], id) : id \in Ids}
      <3>1. StoredIds \subseteq Ids
        BY ServerAssumption DEF StoredIds, Ids
      <3>2. Sounds \subseteq {SoundEvent(id[1], id) : id \in Ids}
        BY <3>1 DEF Sounds
      <3> QED BY <3>2, StoredIsRegistered DEF BagToSet
    <2> QED BY <2>1, <2>2, <2>3 DEF AudioTypeOK, ServerInv, ScalarsOK
  <1> QED BY <1>1, ServerInvariant, LifecycleInit, LifecycleStep, PTL DEF Spec

-----------------------------------------------------------------------------
(* Files are closed *)

\* With a disk that does not fail, a file is finalized or being written.
FinalOrOpen == \A id \in DOMAIN files : files[id].final \/ id \in Open

\* What each step does to the handlers.
LEMMA ReceiveFacts ==
    ASSUME ServerInv, NEW c \in Clients, NEW i \in 1 .. MaxDatagrams, Receive(c, i)
    PROVE  /\ \A d \in Clients : /\ handlers'[d].up = handlers[d].up
                                 /\ handlers'[d].writers = handlers[d].writers
           /\ \A d \in Clients : d # c => handlers'[d] = handlers[d]
           /\ \/ handlers'[c].inbox = handlers[c].inbox
              \/ handlers'[c].inbox = Append(handlers[c].inbox, streams[c].sent[i])
  <1>1. DOMAIN handlers = Clients /\ handlers[c] \in HandlerOf(c)
    BY HandlerFacts DEF ServerInv
  <1> QED BY <1>1 DEF Receive, Dispatch, HandlerOf

LEMMA AnswerFacts ==
    ASSUME ServerInv, Lifecycle, NEW c \in Clients, AnswerLookup(c)
    PROVE  \A d \in Clients : /\ handlers'[d].inbox = handlers[d].inbox
                              /\ handlers'[d].writers = handlers[d].writers
  <1>1. DOMAIN handlers = Clients /\ handlers[c] = NoHandler
    BY DEF ServerInv, HandlerOK, Lifecycle, AnswerLookup
  <1> QED BY <1>1 DEF AnswerLookup, NoHandler

\* The handler of c handled a datagram, which took it to the state t.
Handled(c, t) ==
    /\ Sound(t, c) /\ files' = t.files /\ pending' = t.pending
    /\ handlers'[c].writers = t.writers
    /\ handlers'[c].inbox = Tail(handlers[c].inbox)
    /\ handlers'[c].up = handlers[c].up
    /\ \A d \in Clients : d # c => handlers'[d] = handlers[d]
    /\ t = State(c) \/ ChunkHandled(c, t) \/ EndHandled(c, t)

LEMMA HandleEffect ==
    ASSUME ServerInv, NEW c \in Clients, Handle(c)
    PROVE  \E t : Handled(c, t)
  <1>1. PICK t : /\ Sound(t, c)
                 /\ handlers' = [handlers EXCEPT ![c].inbox = Tail(@), ![c].writers = t.writers]
                 /\ files' = t.files /\ pending' = t.pending
                 /\ t = State(c) \/ ChunkHandled(c, t) \/ EndHandled(c, t)
    BY HandleFacts
  <1>2. DOMAIN handlers = Clients /\ handlers[c] \in HandlerOf(c)
    BY HandlerFacts DEF ServerInv
  <1>3. Handled(c, t)
    BY <1>1, <1>2 DEF HandlerOf, Handled
  <1> QED BY <1>3

LEMMA StopEffect ==
    ASSUME ServerInv, NEW c \in Clients, StopHandler(c)
    PROVE  /\ DOMAIN handlers'[c].writers = {} /\ ~handlers'[c].up
           /\ handlers'[c].inbox = << >>
           /\ \A d \in Clients : d # c => handlers'[d] = handlers[d]
           /\ \E failing \in Failing(c) :
                /\ files' = Closing(files, DOMAIN handlers[c].writers \ failing)
                /\ pending' = pending (+) SetToBag(SoundsOf(c, DOMAIN handlers[c].writers \ failing))
                /\ SoundsOf(c, DOMAIN handlers[c].writers \ failing) \in SUBSET Sounds
  <1>1. handlers' = [handlers EXCEPT ![c] = NoHandler] /\ DOMAIN handlers = Clients
    BY DEF StopHandler, ServerInv
  <1>2. DOMAIN NoHandler.writers = {} /\ ~NoHandler.up /\ NoHandler.inbox = << >>
    BY DEF NoHandler
  <1>3. PICK failing \in Failing(c) :
            /\ Sound(FinalizeAll(State(c), c, failing), c)
            /\ files' = FinalizeAll(State(c), c, failing).files
            /\ pending' = FinalizeAll(State(c), c, failing).pending
    BY StopHandlerFacts
  <1> DEFINE s == State(c)
             t == FinalizeAll(s, c, failing)
             done == DOMAIN handlers[c].writers \ failing
  <1>4. /\ c \in Registered /\ Sound(s, c) /\ s.writers = handlers[c].writers /\ s.files = files
        /\ s.pending = pending /\ Sound(t, c)
    BY <1>3, HandlerFacts DEF StopHandler
  <1>5. t = FinalizeAll(s, c, failing) /\ Sound(FinalizeAll(s, c, failing), c)
        /\ files' = t.files /\ pending' = t.pending
    BY <1>3
  <1> HIDE DEF s, t
  <1>6. done = DOMAIN s.writers \ failing
    BY <1>4
  <1> HIDE DEF done
  <1>7. Finalized(s, t, c, done)
    BY <1>4, <1>5, <1>6, FinalizeAllStep
  <1>8. /\ files' = Closing(files, done)
        /\ pending' = pending (+) SetToBag(SoundsOf(c, done))
        /\ SoundsOf(c, done) \in SUBSET Sounds
    BY <1>4, <1>5, <1>7 DEF Finalized
  <1> QED BY <1>1, <1>2, <1>8 DEF done

LEMMA FinalOrOpenStep ==
    ASSUME DiskOutcomes = {TRUE}
    PROVE  ServerInv /\ Lifecycle /\ FinalOrOpen /\ [Next]_vars => FinalOrOpen'
  <1> SUFFICES ASSUME ServerInv, Lifecycle, FinalOrOpen, [Next]_vars,
                      NEW x \in DOMAIN files', ~files'[x].final
               PROVE  \E d \in Clients : x \in DOMAIN handlers'[d].writers
    BY DEF FinalOrOpen, Open
  <1>0. x \in DOMAIN files /\ ~files[x].final =>
            \E d \in Clients : x \in DOMAIN handlers[d].writers
    BY DEF FinalOrOpen, Open
  <1>1. CASE UNCHANGED <<files, handlers>>
    BY <1>0, <1>1
  <1>2. ASSUME NEW c \in Clients, NEW i \in 1 .. MaxDatagrams, Receive(c, i)
        PROVE  \E d \in Clients : x \in DOMAIN handlers'[d].writers
    <2>1. UNCHANGED files /\ \A d \in Clients : handlers'[d].writers = handlers[d].writers
      BY <1>2, ReceiveFacts DEF Receive
    <2> QED BY <1>0, <2>1
  <1>3. ASSUME NEW c \in Clients, AnswerLookup(c)
        PROVE  \E d \in Clients : x \in DOMAIN handlers'[d].writers
    <2>1. UNCHANGED files /\ \A d \in Clients : handlers'[d].writers = handlers[d].writers
      BY <1>3, AnswerFacts DEF AnswerLookup
    <2> QED BY <1>0, <2>1
  <1>4. ASSUME NEW c \in Clients, Handle(c)
        PROVE  \E d \in Clients : x \in DOMAIN handlers'[d].writers
    <2>0. PICK t : Handled(c, t)
      BY <1>4, HandleEffect
    <2>1. /\ files' = t.files /\ handlers'[c].writers = t.writers
          /\ \A d \in Clients : d # c => handlers'[d] = handlers[d]
          /\ t = State(c) \/ ChunkHandled(c, t) \/ EndHandled(c, t)
      BY <2>0 DEF Handled
    <2>2. State(c).files = files /\ State(c).writers = handlers[c].writers
      BY HandlerFacts
    <2> DEFINE id == Recording(c, Head(handlers[c].inbox).id)
    <2>3. CASE t = State(c)
      BY <1>0, <2>1, <2>2, <2>3
    <2>4. CASE ChunkHandled(c, t) /\ t # State(c)
      BY <1>0, <2>1, <2>2, <2>4 DEF ChunkHandled, Touches
    <2>5. CASE EndHandled(c, t)
      <3>1. PICK ok \in DiskOutcomes : Ended(State(c), t, c, id, ok)
        BY <2>5 DEF EndHandled
      <3>2. ok
        OBVIOUS
      <3>3. Touches(State(c), t, id) /\ (id \in DOMAIN handlers[c].writers => t.files[id].final)
            /\ (id \notin DOMAIN handlers[c].writers => t.files = files)
        BY <2>2, <3>1, <3>2 DEF Ended
      <3>4. x = id => id \notin DOMAIN handlers[c].writers
        BY <2>1, <3>3
      <3> QED BY <1>0, <2>1, <2>2, <3>3, <3>4 DEF Touches
    <2> QED BY <2>1, <2>3, <2>4, <2>5
  <1>5. ASSUME NEW c \in Clients, StopHandler(c)
        PROVE  \E d \in Clients : x \in DOMAIN handlers'[d].writers
    <2>1. PICK failing \in Failing(c) :
              files' = Closing(files, DOMAIN handlers[c].writers \ failing)
      BY <1>5, StopEffect
    <2>2. failing = {}
      BY DEF Failing
    <2>3. files \in WavFiles /\ Ordered(files)
      BY DEF ServerInv
    <2>4. x \in DOMAIN files /\ x \notin DOMAIN handlers[c].writers /\ files'[x] = files[x]
      BY <2>1, <2>2, <2>3, ClosingFacts
    <2> QED BY <1>0, <1>5, <2>4, StopEffect
  <1>6. CASE StopSystem
    <2>1. PICK failing \in SUBSET Open :
             /\ failing # {} => FALSE \in DiskOutcomes
             /\ files' = Closing(files, Open \ failing)
      BY <1>6, StopSystemFacts
    <2>2. failing = {}
      BY <2>1
    <2>3. files \in WavFiles /\ Ordered(files)
      BY DEF ServerInv
    <2>4. x \in DOMAIN files /\ x \notin Open /\ files'[x] = files[x]
      BY <2>1, <2>2, <2>3, ClosingFacts
    <2> QED BY <2>4 DEF FinalOrOpen
  <1>7. CASE \/ \E c \in Clients : Client(c) \/ DeleteDevice(c)
             \/ \E e \in BagToSet(pending) : StoreEvent(e)
             \/ Signal \/ StopServer \/ Restart \/ UNCHANGED vars
    BY <1>1, <1>7 DEF Client, ClientSendsChunk, ClientEndsRecording, ClientAnswersHandshake,
           DeleteDevice, StoreEvent, Signal, StopServer, Restart, vars
  <1> QED BY <1>2, <1>3, <1>4, <1>5, <1>6, <1>7 DEF Next

\* When nothing of the disk fails, no wav file is left without its header once
\* the system is down, whichever of the server, the handlers and main()
\* stopped first.
THEOREM FilesClosedWhenDown ==
    ASSUME DiskOutcomes = {TRUE}
    PROVE  Spec => []ClosedWhenDown
  <1>1. Init => FinalOrOpen
    BY EmptyMapFacts DEF Init, FinalOrOpen
  <1>2. ServerInv /\ Lifecycle /\ FinalOrOpen => ClosedWhenDown
    <2> SUFFICES ASSUME ServerInv, Lifecycle, FinalOrOpen, system = "down",
                        NEW id \in DOMAIN files
                 PROVE  files[id].final
      BY DEF ClosedWhenDown
    <2>1. \A c \in Clients : DOMAIN handlers[c].writers = {}
      BY HandlerFacts DEF Lifecycle
    <2> QED BY <2>1 DEF FinalOrOpen, Open
  <1>3. ServerInv /\ Lifecycle /\ FinalOrOpen /\ [Next]_vars => FinalOrOpen'
    BY FinalOrOpenStep
  <1> QED BY <1>1, <1>2, <1>3, ServerInvariant, LifecycleInit, LifecycleStep, PTL DEF Spec

-----------------------------------------------------------------------------
(* A network that keeps the order *)

Of(m, n) == m.kind # "Spec" /\ m.id = n

\* Nothing of recording n was sent after the datagram at position r.
Drained(sent, r, n) == \A j \in r + 1 .. Len(sent) : ~Of(sent[j], n)

\* Nothing of recording n of client c is still to come: not from the mailbox
\* of the handler, not from the network, not from the client.
Over(c, n) ==
    /\ n < streams[c].id
    /\ \A i \in 1 .. Len(handlers[c].inbox) : ~Of(handlers[c].inbox[i], n)
    /\ Drained(streams[c].sent, received[c], n)

\* The handler of c has stopped for good.
Gone(c) == system \in {"stopping", "down"} /\ ~handlers[c].up

\* A WavEnd in the mailbox is the last datagram of its recording.
EndsQueued(c) ==
    \A i \in 1 .. Len(handlers[c].inbox) :
        LET m == handlers[c].inbox[i] IN
        m.kind = "WavEnd" =>
            /\ m.id < streams[c].id
            /\ \A j \in i + 1 .. Len(handlers[c].inbox) : ~Of(handlers[c].inbox[j], m.id)
            /\ Drained(streams[c].sent, received[c], m.id)

Framed == \A c \in Clients : Steps!InvOf(streams[c])

\* A recording that was finalized, or announced by every run of the backend, is
\* over.  After a restart a finalized one need not be: the shutdown finalizes
\* what the client is still sending.
Closed(id) ==
    (restarts = 0 /\ id \in DOMAIN files /\ files[id].final) \/ EventCount(id) > restarts

ClosedIsOver ==
    \A c \in Clients : \A n \in 0 .. MaxDatagrams :
        Closed(Recording(c, n)) => Gone(c) \/ Over(c, n)

\* This run of the backend has not announced what it is still writing.
OpenUnannounced == \A id \in Open : EventCount(id) <= restarts

OrderInv ==
    /\ Framed
    /\ \A c \in Clients : EndsQueued(c)
    /\ ClosedIsOver
    /\ OpenUnannounced
    /\ OneEventPerRecording

\* h is k after sending datagrams, none of which belongs to a recording that
\* was ended before.
Grows(k, h) ==
    /\ k.id <= h.id
    /\ Len(k.sent) <= Len(h.sent)
    /\ \A j \in 1 .. Len(k.sent) : h.sent[j] = k.sent[j]
    /\ \A j \in Len(k.sent) + 1 .. Len(h.sent) : \A n \in Nat : n < k.id => ~Of(h.sent[j], n)

LEMMA GrowsBy ==
    ASSUME NEW k \in Senders, NEW h \in Senders, NEW m \in Msgs,
           k.id <= h.id, h.sent = Append(k.sent, m), m.kind # "Spec" => m.id = k.id
    PROVE  Grows(k, h)
  <1>1. k.sent \in Seq(Msgs) /\ k.id \in Nat /\ Len(k.sent) \in Nat
    BY LenProperties DEF Senders
  <1>2. /\ Len(h.sent) = Len(k.sent) + 1 /\ h.sent[Len(k.sent) + 1] = m
        /\ \A j \in 1 .. Len(k.sent) : h.sent[j] = k.sent[j]
    BY <1>1, AppendProperties
  <1>3. \A j \in Len(k.sent) + 1 .. Len(h.sent) : h.sent[j] = m
    BY <1>1, <1>2
  <1>4. \A n \in Nat : n < k.id => ~Of(m, n)
    BY <1>1 DEF Of
  <1> QED BY <1>1, <1>2, <1>3, <1>4 DEF Grows

LEMMA GrowsTransitive ==
    ASSUME NEW k \in Senders, NEW g \in Senders, NEW h \in Senders, Grows(k, g), Grows(g, h)
    PROVE  Grows(k, h)
  <1>1. /\ k.id \in Nat /\ g.id \in Nat /\ h.id \in Nat
        /\ Len(k.sent) \in Nat /\ Len(g.sent) \in Nat /\ Len(h.sent) \in Nat
    BY LenProperties DEF Senders
  <1>2. k.id <= h.id /\ Len(k.sent) <= Len(h.sent)
    BY <1>1 DEF Grows
  <1>3. \A j \in 1 .. Len(k.sent) : h.sent[j] = k.sent[j]
    BY <1>1 DEF Grows
  <1>4. ASSUME NEW j \in Len(k.sent) + 1 .. Len(h.sent), NEW n \in Nat, n < k.id
        PROVE  ~Of(h.sent[j], n)
    <2>1. CASE j \in Len(k.sent) + 1 .. Len(g.sent)
      <3>1. j \in 1 .. Len(g.sent) /\ h.sent[j] = g.sent[j]
        BY <1>1, <2>1 DEF Grows
      <3> QED BY <1>4, <2>1, <3>1 DEF Grows
    <2>2. CASE j \in Len(g.sent) + 1 .. Len(h.sent)
      <3>1. n < g.id
        BY <1>1, <1>4 DEF Grows
      <3> QED BY <2>2, <3>1 DEF Grows
    <2> QED BY <1>1, <2>1, <2>2
  <1> QED BY <1>2, <1>3, <1>4 DEF Grows

\* What a client sends keeps its stream framed.
LEMMA ClientGrows ==
    ASSUME ServerInv, Framed, NEW c \in Clients, Client(c)
    PROVE  /\ Framed' /\ Grows(streams[c], streams'[c])
           /\ \A d \in Clients : d # c => streams'[d] = streams[d]
  <1> DEFINE k == streams[c]
             h1 == Wire!Sending(k, Wire!SpecMsg)
             h2 == Wire!SendingChunk(k, 1)
             h3 == Wire!SendingEnd(h2)
             m1 == Wire!SpecMsg
             m2 == Wire!ChunkMsg(k.id, k.seq, 1)
             m3 == Wire!EndMsg(k.id)
  <1>1. SenderOK(k) /\ Steps!InvOf(k) /\ Wire!Budget(k) /\ DOMAIN streams = Clients
    BY DEF ServerInv, Framed, Client, ClientSendsChunk, ClientEndsRecording,
           ClientAnswersHandshake
  <1>2. streams' = [streams EXCEPT ![c] = h1] \/ streams' = [streams EXCEPT ![c] = h2]
        \/ streams' = [streams EXCEPT ![c] = h3]
    BY DEF Client, ClientSendsChunk, ClientEndsRecording, ClientAnswersHandshake
  <1>3. SenderOK(h1) /\ SenderOK(h2) /\ SenderOK(h3)
    BY <1>1, SendingFacts
  <1>4. k \in Senders /\ h1 \in Senders /\ h2 \in Senders /\ h3 \in Senders
    BY <1>1, <1>3 DEF SenderOK
  <1>5. Steps!StreamAssumption /\ 1 \in 1 .. 1
    BY ServerAssumption DEF Steps!StreamAssumption
  <1>6. /\ h1 = Steps!Sending(k, Steps!SpecMsg)
        /\ h2 = Steps!SendingChunk(k, 1)
        /\ h3 = Steps!SendingEnd(Steps!SendingChunk(k, 1))
    BY DEF Steps!Sending, Steps!SpecMsg, Steps!SendingChunk, Steps!SendingEnd, Steps!ChunkMsg,
           Steps!EndMsg, Wire!Sending, Wire!SpecMsg, Wire!SendingChunk, Wire!SendingEnd,
           Wire!ChunkMsg, Wire!EndMsg
  <1>7. Steps!InvOf(h1) /\ Steps!InvOf(h2) /\ Steps!InvOf(h3)
    <2>1. Steps!InvOf(Steps!Sending(k, Steps!SpecMsg))
      BY <1>1, Steps!SpecKeepsInv
    <2> DEFINE g == Steps!SendingChunk(k, 1)
    <2>2. Steps!InvOf(g) /\ g.id = k.id /\ Len(g.sent) > 0
          /\ Steps!IsChunkOf(g.sent[Len(g.sent)], k.id)
      BY <1>1, <1>5, Steps!ChunkKeepsInv
    <2> HIDE DEF g
    <2>3. Steps!InvOf(Steps!SendingEnd(g))
      BY <2>2, Steps!EndKeepsInv
    <2> QED BY <1>6, <2>1, <2>2, <2>3 DEF g
  <1>8. /\ h1.sent = Append(k.sent, m1) /\ h1.id = k.id
        /\ h2.sent = Append(k.sent, m2) /\ h2.id = k.id
        /\ h3.sent = Append(h2.sent, m3) /\ h3.id = k.id + 1
    BY <1>4 DEF Senders, Wire!Sending, Wire!SendingChunk, Wire!SendingEnd
  <1>9. m1 \in Msgs /\ m2 \in Msgs /\ m3 \in Msgs /\ m1.kind = "Spec"
        /\ m2.id = k.id /\ m3.id = k.id /\ k.id \in Nat /\ k.id <= k.id + 1
    <2>1. 1 % 1 = 0 /\ k.id \in Nat /\ k.seq \in Nat /\ k.id <= MaxDatagrams
      BY <1>1 DEF SenderOK, Senders
    <2> QED BY <2>1 DEF Msgs, Wire!Datagrams, Wire!ChunkMsg, Wire!EndMsg, Wire!SpecMsg
  <1> HIDE DEF k, h1, h2, h3, m1, m2, m3
  <1>10. Grows(k, h1) /\ Grows(k, h2) /\ Grows(h2, h3)
    BY SMTT(30), <1>4, <1>8, <1>9, GrowsBy
  <1>11. Grows(k, h3)
    BY <1>4, <1>10, GrowsTransitive
  <1> QED BY <1>1, <1>2, <1>7, <1>10, <1>11 DEF Framed, k

\* The step keeps what is over, over, and the order of the mailbox of d.
FlowKept(d) ==
    /\ EndsQueued(d)'
    /\ \A n \in Nat : Over(d, n) => Over(d, n)'

LEMMA FlowFacts ==
    ASSUME ServerInv, NEW d \in Clients
    PROVE  /\ received[d] \in Nat /\ Len(streams[d].sent) \in Nat /\ streams[d].id \in Nat
           /\ streams[d].sent \in Seq(Msgs) /\ handlers[d].inbox \in Seq(Msgs)
           /\ Len(handlers[d].inbox) \in Nat
           /\ \A i \in 1 .. Len(handlers[d].inbox) : handlers[d].inbox[i] \in Msgs
  <1>1. streams[d] \in Senders /\ received[d] \in Nat
    BY ServerAssumption DEF ServerInv, ScalarsOK
  <1>2. streams[d].sent \in Seq(Msgs) /\ streams[d].id \in Nat
    BY <1>1 DEF Senders
  <1>3. handlers[d].inbox \in Seq(Msgs)
    BY HandlerFacts
  <1> QED BY <1>1, <1>2, <1>3, LenProperties, ElementOfSeq

LEMMA FlowUnchanged ==
    ASSUME ServerInv, NEW d \in Clients, EndsQueued(d), UNCHANGED <<streams[d], received[d]>>,
           handlers'[d].inbox = handlers[d].inbox \/ handlers'[d].inbox = << >>
    PROVE  FlowKept(d)
  <1>1. CASE handlers'[d].inbox = handlers[d].inbox
    BY <1>1 DEF FlowKept, EndsQueued, Over, Drained
  <1>2. CASE handlers'[d].inbox = << >>
    BY <1>2 DEF FlowKept, EndsQueued, Over, Drained
  <1> QED BY <1>1, <1>2

\* The client sends.
LEMMA FlowClient ==
    ASSUME ServerInv, NEW d \in Clients, EndsQueued(d), Grows(streams[d], streams'[d]),
           streams'[d].id \in Nat, Len(streams'[d].sent) \in Nat,
           UNCHANGED <<received, handlers>>
    PROVE  FlowKept(d)
  <1> DEFINE k == streams[d]
             h == streams'[d]
             r == received[d]
  <1>1. r \in Nat /\ Len(k.sent) \in Nat /\ k.id \in Nat /\ h.id \in Nat /\ Len(h.sent) \in Nat
        /\ k.id <= h.id
    BY FlowFacts DEF Grows
  <1>2. ASSUME NEW n \in Nat, n < k.id, Drained(k.sent, r, n) PROVE Drained(h.sent, r, n)
    <2> SUFFICES ASSUME NEW j \in r + 1 .. Len(h.sent) PROVE ~Of(h.sent[j], n)
      BY DEF Drained
    <2>1. CASE j \in 1 .. Len(k.sent)
      <3>1. h.sent[j] = k.sent[j] /\ j \in r + 1 .. Len(k.sent)
        BY <1>1, <2>1 DEF Grows
      <3> QED BY <1>2, <3>1 DEF Drained
    <2>2. CASE j \in Len(k.sent) + 1 .. Len(h.sent)
      BY <1>2, <2>2 DEF Grows
    <2> QED BY <1>1, <2>1, <2>2
  <1>3. ASSUME NEW n \in Nat, Over(d, n) PROVE Over(d, n)'
    <2>1. n < k.id /\ Drained(k.sent, r, n)
      BY <1>3 DEF Over
    <2>2. n < h.id /\ Drained(h.sent, r, n)
      BY <1>1, <1>2, <2>1
    <2> QED BY <1>3, <2>2 DEF Over
  <1>4. ASSUME NEW i \in 1 .. Len(handlers[d].inbox), handlers[d].inbox[i].kind = "WavEnd"
        PROVE  handlers[d].inbox[i].id < h.id /\ Drained(h.sent, r, handlers[d].inbox[i].id)
    <2> DEFINE n == handlers[d].inbox[i].id
    <2>1. n < k.id /\ Drained(k.sent, r, n)
      BY <1>4 DEF EndsQueued
    <2>2. n \in Nat
      BY <1>4, FlowFacts, MsgFacts
    <2> HIDE DEF n
    <2>3. n < h.id /\ Drained(h.sent, r, n)
      BY <1>1, <1>2, <2>1, <2>2
    <2> QED BY <2>3 DEF n
  <1>5. EndsQueued(d)'
    BY <1>4 DEF EndsQueued
  <1> QED BY <1>3, <1>5 DEF FlowKept

LEMMA OfFacts ==
    ASSUME NEW m \in Msgs, NEW n, Of(m, n)
    PROVE  m.kind \in {"WavChunk", "WavEnd"} /\ m.id = n
  BY DEF Msgs, Wire!Datagrams, Of

\* The server receives a datagram beyond those it received before.
LEMMA FlowReceive ==
    ASSUME ServerInv, Framed, NEW d \in Clients, EndsQueued(d),
           NEW i \in 1 .. Len(streams[d].sent), i > received[d],
           received'[d] = i, UNCHANGED streams,
           \/ handlers'[d].inbox = handlers[d].inbox
           \/ handlers'[d].inbox = Append(handlers[d].inbox, streams[d].sent[i])
    PROVE  FlowKept(d)
  <1> DEFINE q == handlers[d].inbox
             m == streams[d].sent[i]
             S == streams[d].sent
             r == received[d]
  <1>1. r \in Nat /\ Len(S) \in Nat /\ S \in Seq(Msgs) /\ q \in Seq(Msgs) /\ Len(q) \in Nat /\ i \in Nat
        /\ m \in Msgs
    BY FlowFacts, ElementOfSeq
  <1>2. \A n : Drained(S, r, n) => Drained(S, i, n) /\ ~Of(m, n)
    BY SMTT(30), <1>1 DEF Drained
  <1>3. CASE handlers'[d].inbox = q
    BY <1>2, <1>3 DEF FlowKept, EndsQueued, Over
  <1>4. CASE handlers'[d].inbox = Append(q, m)
    <2> DEFINE p == handlers'[d].inbox
    <2>1. Len(p) = Len(q) + 1 /\ p[Len(q) + 1] = m /\ \A j \in 1 .. Len(q) : p[j] = q[j]
      BY <1>1, <1>4, AppendProperties
    <2> HIDE DEF m, q, p
    <2>2. ASSUME NEW n \in Nat, Over(d, n) PROVE Over(d, n)'
      <3>1. n < streams[d].id /\ Drained(S, i, n) /\ ~Of(m, n)
        BY <1>2, <2>2 DEF Over
      <3>2. \A j \in 1 .. Len(p) : ~Of(p[j], n)
        BY <1>1, <2>1, <2>2, <3>1 DEF Over, q
      <3> QED BY <3>1, <3>2 DEF Over, p
    <2>3. ASSUME NEW j \in 1 .. Len(p), p[j].kind = "WavEnd"
          PROVE  /\ p[j].id < streams[d].id
                 /\ \A l \in j + 1 .. Len(p) : ~Of(p[l], p[j].id)
                 /\ Drained(S, i, p[j].id)
      <3>1. CASE j \in 1 .. Len(q)
        <4>1. p[j] = q[j] /\ q[j].kind = "WavEnd"
          BY <2>1, <2>3, <3>1
        <4>2. /\ q[j].id < streams[d].id /\ Drained(S, r, q[j].id)
              /\ \A l \in j + 1 .. Len(q) : ~Of(q[l], q[j].id)
          BY <3>1, <4>1 DEF EndsQueued, q
        <4>3. ~Of(m, q[j].id) /\ Drained(S, i, q[j].id)
          BY <1>2, <4>2
        <4>4. \A l \in j + 1 .. Len(p) : ~Of(p[l], q[j].id)
          <5>1. \A l \in j + 1 .. Len(p) : p[l] = m \/ (l \in j + 1 .. Len(q) /\ p[l] = q[l])
            BY <1>1, <2>1
          <5> QED BY <4>2, <4>3, <5>1
        <4> QED BY <4>1, <4>2, <4>3, <4>4
      <3>2. CASE j = Len(q) + 1
        <4>1. p[j] = m /\ m.kind = "WavEnd"
          BY <2>1, <2>3, <3>2
        <4>2. Steps!CursorAhead(streams[d]) /\ Steps!EndIsLast(S)
          BY DEF Framed, Steps!InvOf
        <4>3. m.id < streams[d].id
          BY <4>1, <4>2 DEF Steps!CursorAhead, m
        <4>4. \A l \in i + 1 .. Len(S) : ~Of(S[l], m.id)
          <5> SUFFICES ASSUME NEW l \in i + 1 .. Len(S), Of(S[l], m.id) PROVE FALSE
            OBVIOUS
          <5>1. S[l] \in Msgs
            BY <1>1, ElementOfSeq
          <5>2. S[l].kind \in {"WavChunk", "WavEnd"} /\ S[l].id = m.id
            BY <5>1, OfFacts
          <5>3. ~Steps!IsChunkOf(S[l], S[i].id) /\ ~Steps!IsEndOf(S[l], S[i].id)
            BY <4>1, <4>2 DEF Steps!EndIsLast, m
          <5> QED BY <5>2, <5>3 DEF Steps!IsChunkOf, Steps!IsEndOf, m
        <4>5. \A l \in j + 1 .. Len(p) : FALSE
          BY <1>1, <2>1, <3>2
        <4>6. Drained(S, i, m.id)
          BY <4>4 DEF Drained
        <4> QED BY <4>1, <4>3, <4>5, <4>6
      <3> QED BY <1>1, <2>1, <3>1, <3>2
    <2>4. EndsQueued(d)'
      BY <2>3 DEF EndsQueued, p
    <2> QED BY <2>2, <2>4 DEF FlowKept
  <1> QED BY <1>3, <1>4

\* The handler takes a datagram from its mailbox.
LEMMA FlowHandle ==
    ASSUME ServerInv, NEW d \in Clients, EndsQueued(d), UNCHANGED <<streams, received>>,
           handlers[d].inbox # << >>, handlers'[d].inbox = Tail(handlers[d].inbox)
    PROVE  /\ FlowKept(d)
           /\ \A n : Head(handlers[d].inbox).kind = "WavEnd" /\ Head(handlers[d].inbox).id = n
                     => Over(d, n)'
           /\ Head(handlers[d].inbox).kind \in {"WavChunk", "WavEnd"} =>
                ~Over(d, Head(handlers[d].inbox).id)
  <1> DEFINE q == handlers[d].inbox
             p == handlers'[d].inbox
             m == Head(q)
             S == streams[d].sent
             r == received[d]
  <1>1. /\ q \in Seq(Msgs) /\ Len(q) \in Nat /\ q # << >> /\ Len(q) > 0
        /\ p \in Seq(Msgs) /\ Len(p) = Len(q) - 1 /\ m = q[1]
        /\ \A j \in 1 .. Len(p) : p[j] = q[j + 1]
    BY FlowFacts, HeadTailProperties, EmptySeq
  <1> HIDE DEF p, q, m
  <1>3. \A j \in 1 .. Len(p) : j + 1 \in 1 .. Len(q)
    BY <1>1
  <1>4. \A n \in Nat : Over(d, n) => Over(d, n)'
    BY <1>1, <1>3 DEF Over, p, q
  <1>5. ASSUME NEW j \in 1 .. Len(p), p[j].kind = "WavEnd"
        PROVE  /\ p[j].id < streams[d].id
               /\ \A l \in j + 1 .. Len(p) : ~Of(p[l], p[j].id)
               /\ Drained(S, r, p[j].id)
    <2>1. p[j] = q[j + 1] /\ j + 1 \in 1 .. Len(q)
      BY <1>1, <1>3
    <2>2. /\ p[j].id < streams[d].id /\ Drained(S, r, p[j].id)
          /\ \A l \in (j + 1) + 1 .. Len(q) : ~Of(q[l], p[j].id)
      BY <1>5, <2>1 DEF EndsQueued, q
    <2>3. \A l \in j + 1 .. Len(p) : p[l] = q[l + 1] /\ l + 1 \in (j + 1) + 1 .. Len(q)
      BY <1>1
    <2> QED BY <2>2, <2>3
  <1>6. EndsQueued(d)'
    BY <1>5 DEF EndsQueued, p
  <1>7. ASSUME NEW n, m.kind = "WavEnd", m.id = n PROVE Over(d, n)'
    <2>1. 1 \in 1 .. Len(q)
      BY <1>1
    <2>2. /\ m.id < streams[d].id /\ Drained(S, r, m.id)
          /\ \A l \in 1 + 1 .. Len(q) : ~Of(q[l], m.id)
      BY <1>1, <1>7, <2>1 DEF EndsQueued, q
    <2>3. \A l \in 1 .. Len(p) : p[l] = q[l + 1] /\ l + 1 \in 1 + 1 .. Len(q)
      BY <1>1
    <2>4. \A l \in 1 .. Len(p) : ~Of(p[l], m.id)
      BY <2>2, <2>3
    <2> QED BY <1>7, <2>2, <2>4 DEF Over, p
  <1>8. ASSUME m.kind \in {"WavChunk", "WavEnd"} PROVE ~Over(d, m.id)
    <2>1. 1 \in 1 .. Len(q) /\ Of(q[1], m.id)
      BY <1>1, <1>8 DEF Of
    <2> QED BY <2>1 DEF Over, q
  <1> QED BY <1>4, <1>6, <1>7, <1>8 DEF FlowKept, m, q

\* Events are counted.
LEMMA CountFacts ==
    ASSUME ServerInv, NEW e
    PROVE  Copies(e, pending) \in Nat /\ Copies(e, rows) \in Nat
  <1>1. pending \in Maps(Sounds, Positive) /\ rows \in Maps(Sounds, Positive) /\ {} \in SUBSET Sounds
    BY DEF ServerInv, EventBags
  <1> QED BY <1>1, BagPlus

LEMMA RestartsNat == ASSUME ServerInv PROVE restarts \in Nat
  BY ServerAssumption DEF ServerInv, ScalarsOK

LEMMA SoundsDiffer ==
    ASSUME NEW a, NEW b, NEW x, NEW y, SoundEvent(a, x) = SoundEvent(b, y)
    PROVE  x = y
  <1>1. SoundEvent(a, x).wav = x /\ SoundEvent(b, y).wav = y
    BY DEF SoundEvent
  <1> QED BY <1>1

LEMMA OpenIds ==
    ASSUME ServerInv, NEW c \in Clients
    PROVE  /\ DOMAIN handlers[c].writers \subseteq Open
           /\ DOMAIN handlers[c].writers \subseteq Ids /\ Open \subseteq Ids
           /\ \A id \in DOMAIN handlers[c].writers : id[1] = c
  <1>1. \A d \in Clients : DOMAIN handlers[d].writers \subseteq IdsOf(d)
    BY HandlerFacts
  <1>2. \A d \in Clients : IdsOf(d) \subseteq Ids /\ \A id \in IdsOf(d) : id[1] = d
    BY DEF IdsOf, Ids
  <1> QED BY <1>1, <1>2 DEF Open

\* Announcing the recordings of D, which were open, announces each once.
LEMMA Announced ==
    ASSUME ServerInv, OpenUnannounced, OneEventPerRecording, restarts' = restarts,
           NEW E \in SUBSET Sounds, NEW D \in SUBSET Open,
           pending' = pending (+) SetToBag(E), UNCHANGED rows,
           \A id \in Ids : SoundEvent(id[1], id) \in E => id \in D
    PROVE  /\ OneEventPerRecording'
           /\ \A id \in Ids : id \notin D => EventCount(id)' = EventCount(id)
  <1>1. pending \in Maps(Sounds, Positive)
    BY DEF ServerInv, EventBags
  <1>a. \A f : Copies(f, pending (+) SetToBag(E)) = Copies(f, pending) + (IF f \in E THEN 1 ELSE 0)
    <2>1. E \in SUBSET Sounds
      OBVIOUS
    <2> QED BY ONLY ZenonT(40), <1>1, <2>1, BagPlus
  <1>2. ASSUME NEW id \in Ids
        PROVE  EventCount(id)' <= 1 + restarts /\ (id \notin D => EventCount(id)' = EventCount(id))
    <2> DEFINE e == SoundEvent(id[1], id)
               n == Copies(e, pending)
               l == Copies(e, rows)
               more == IF e \in E THEN 1 ELSE 0
    <2>1. Copies(e, pending') = n + more
      BY <1>a
    <2>2. n \in Nat /\ l \in Nat /\ more \in 0 .. 1 /\ restarts \in Nat
      BY CountFacts, RestartsNat
    <2>3. EventCount(id) = n + l /\ EventCount(id)' = Copies(e, pending') + l
      BY DEF EventCount
    <2>4. EventCount(id) <= 1 + restarts
      BY DEF OneEventPerRecording
    <2>5. id \in D => EventCount(id) <= restarts
      BY DEF OpenUnannounced
    <2>6. id \notin D => more = 0
      OBVIOUS
    <2> HIDE DEF n, l, more, e
    <2> QED BY <2>1, <2>2, <2>3, <2>4, <2>5, <2>6
  <1> QED BY <1>2 DEF OneEventPerRecording

LEMMA StoringCounts ==
    ASSUME ServerInv, NEW x,
           (\E e \in BagToSet(pending) : StoreEvent(e)) \/ (\E c \in Clients : DeleteDevice(c))
    PROVE  EventCount(x)' \in Nat /\ EventCount(x)' <= EventCount(x)
  <1> DEFINE s == SoundEvent(x[1], x)
             n == Copies(s, pending)
             l == Copies(s, rows)
  <1>1. pending \in Maps(Sounds, Positive) /\ rows \in Maps(Sounds, Positive)
    BY DEF ServerInv, EventBags
  <1>2. n \in Nat /\ l \in Nat
    BY CountFacts
  <1>3. EventCount(x) = n + l /\ EventCount(x)' = Copies(s, pending') + Copies(s, rows')
    BY DEF EventCount
  <1>4. ASSUME NEW e \in BagToSet(pending), StoreEvent(e)
        PROVE  EventCount(x)' \in Nat /\ EventCount(x)' <= EventCount(x)
    <2> DEFINE one == IF s = e THEN 1 ELSE 0
    <2>1. e \in DOMAIN pending /\ e \in Sounds
      BY <1>1, MapFacts DEF BagToSet
    <2>2. pending' = pending (-) SetToBag({e}) /\ {e} \in SUBSET Sounds
      BY <1>4, <2>1 DEF StoreEvent
    <2>3. Copies(s, pending') = n - one /\ Copies(s, pending') \in Nat /\ one \in 0 .. 1
      BY <1>1, <2>1, <2>2, BagMinus
    <2>4. rows' = rows \/ rows' = rows (+) SetToBag({e})
      BY <1>4 DEF StoreEvent
    <2>a. \A f : Copies(f, rows (+) SetToBag({e})) = Copies(f, rows) + (IF f \in {e} THEN 1 ELSE 0)
      <3> DEFINE T == {e}
      <3>1. rows \in Maps(Sounds, Positive) /\ T \in SUBSET Sounds
        BY <1>1, <2>2
      <3> HIDE DEF T
      <3>2. \A f : Copies(f, rows (+) SetToBag(T)) = Copies(f, rows) + (IF f \in T THEN 1 ELSE 0)
        BY <3>1, BagPlus
      <3> QED BY <3>2 DEF T
    <2>5. Copies(s, rows') = l \/ Copies(s, rows') = l + one
      BY <2>4, <2>a
    <2> HIDE DEF one, n, l, s
    <2> QED BY <1>2, <1>3, <2>3, <2>5
  <1>5. ASSUME NEW c \in Clients, DeleteDevice(c)
        PROVE  EventCount(x)' \in Nat /\ EventCount(x)' <= EventCount(x)
    <2> DEFINE D == {e \in DOMAIN rows : e.device # c}
    <2>1. D \in SUBSET DOMAIN rows /\ rows' = Restrict(rows, D) /\ pending' = pending
      BY <1>5 DEF DeleteDevice
    <2> HIDE DEF D
    <2>2. Copies(s, rows') \in Nat /\ Copies(s, rows') <= l
      BY <1>1, <2>1, BagRestrict
    <2> HIDE DEF n, l, s
    <2> QED BY <1>2, <1>3, <2>1, <2>2 DEF n
  <1> QED BY <1>4, <1>5

LEMMA GoneKept ==
    ASSUME restarts' = restarts, ServerInv, Lifecycle, [Next]_vars, NEW d \in Clients, Gone(d)
    PROVE  Gone(d)'
  <1>0. lookup = NoClient /\ system \in {"stopping", "down"} /\ ~handlers[d].up
        /\ NoClient \notin Clients /\ ~NoHandler.up /\ restarts \in Nat
    BY ServerAssumption, RestartsNat DEF Gone, Lifecycle, NoClient, NoHandler
  <1>1. ASSUME NEW c \in Clients, Client(c) \/ DeleteDevice(c) PROVE Gone(d)'
    BY <1>0, <1>1 DEF Client, ClientSendsChunk, ClientEndsRecording, ClientAnswersHandshake,
           DeleteDevice, Gone
  <1>2. ASSUME NEW c \in Clients, NEW i \in 1 .. MaxDatagrams, Receive(c, i) PROVE Gone(d)'
    BY <1>0, <1>2 DEF Receive
  <1>3. ASSUME NEW c \in Clients, AnswerLookup(c) PROVE Gone(d)'
    BY <1>0, <1>3 DEF AnswerLookup
  <1>4. ASSUME NEW c \in Clients, Handle(c) PROVE Gone(d)'
    <2>1. PICK t : Handled(c, t)
      BY <1>4, HandleEffect
    <2>2. handlers'[d].up = handlers[d].up
      BY <2>1 DEF Handled
    <2> QED BY <1>0, <1>4, <2>2 DEF Handle, Gone
  <1>5. ASSUME NEW c \in Clients, StopHandler(c) PROVE Gone(d)'
    <2>1. ~handlers'[d].up
      BY <1>0, <1>5, StopEffect
    <2> QED BY <1>0, <1>5, <2>1 DEF StopHandler, Gone
  <1>6. CASE \E e \in BagToSet(pending) : StoreEvent(e)
    BY <1>0, <1>6 DEF StoreEvent, Gone
  <1>7. CASE Signal \/ StopServer \/ StopSystem \/ Restart \/ UNCHANGED vars
    <2>1. ~Signal /\ ~StopServer
      BY <1>0 DEF Signal, StopServer
    <2>2. ~Restart
      BY <1>0 DEF Restart
    <2>3. StopSystem => system' = "down" /\ ~handlers'[d].up
      BY <1>0 DEF StopSystem
    <2>4. UNCHANGED vars => UNCHANGED <<system, handlers>>
      BY DEF vars
    <2> QED BY <1>0, <1>7, <2>1, <2>2, <2>3, <2>4 DEF Gone
  <1> QED BY <1>1, <1>2, <1>3, <1>4, <1>5, <1>6, <1>7 DEF Next

\* A step keeps ClosedIsOver if it only closes what is gone or over after it.
LEMMA ClosedStep ==
    ASSUME restarts' = restarts, ServerInv, Lifecycle, [Next]_vars, ClosedIsOver,
           \A d \in Clients : FlowKept(d),
           \A d \in Clients : \A n \in 0 .. MaxDatagrams :
               Closed(Recording(d, n))' => Closed(Recording(d, n)) \/ Gone(d)' \/ Over(d, n)'
    PROVE  ClosedIsOver'
  <1> SUFFICES ASSUME NEW d \in Clients, NEW n \in 0 .. MaxDatagrams, Closed(Recording(d, n))'
               PROVE  Gone(d)' \/ Over(d, n)'
    BY DEF ClosedIsOver
  <1>1. Gone(d) => Gone(d)'
    BY GoneKept
  <1>2. n \in Nat
    OBVIOUS
  <1>3. Over(d, n) => Over(d, n)'
    BY <1>2 DEF FlowKept
  <1> QED BY <1>1, <1>3 DEF ClosedIsOver

\* A step that leaves files and writers alone and announces nothing.
LEMMA QuietStep ==
    ASSUME restarts' = restarts, ServerInv, Lifecycle, [Next]_vars, OrderInv, Framed',
           \A d \in Clients : FlowKept(d), UNCHANGED files,
           \A d \in Clients : handlers'[d].writers = handlers[d].writers,
           \A x : EventCount(x)' \in Nat /\ EventCount(x)' <= EventCount(x)
    PROVE  OrderInv'
  <1>1. restarts \in Nat /\ \A x : EventCount(x) \in Nat
    BY CountFacts, RestartsNat DEF EventCount
  <1>2. \A x \in Open' : x \in Open
    BY DEF Open
  <1>3. OpenUnannounced' /\ OneEventPerRecording'
    BY <1>1, <1>2 DEF OpenUnannounced, OneEventPerRecording, OrderInv
  <1>4. \A x : Closed(x)' => Closed(x)
    BY <1>1 DEF Closed
  <1>5. ClosedIsOver'
    BY <1>4, ClosedStep DEF OrderInv
  <1> QED BY <1>3, <1>5 DEF OrderInv, FlowKept

\* A handler that has work to do is not gone, so what it is given is not closed.
LEMMA HandledIsOpen ==
    ASSUME ServerInv, ClosedIsOver, NEW c \in Clients, handlers[c].up,
           NEW n \in 0 .. MaxDatagrams, ~Over(c, n)
    PROVE  ~Closed(Recording(c, n)) /\ EventCount(Recording(c, n)) <= restarts
  <1>1. ~Closed(Recording(c, n))
    BY DEF ClosedIsOver, Gone
  <1>2. EventCount(Recording(c, n)) \in Nat /\ restarts \in Nat
    BY CountFacts, RestartsNat DEF EventCount
  <1> QED BY <1>1, <1>2 DEF Closed

LEMMA CountUnchanged ==
    ASSUME ServerInv, UNCHANGED <<pending, rows>>
    PROVE  \A x : EventCount(x)' \in Nat /\ EventCount(x)' = EventCount(x)
                  /\ EventCount(x)' <= EventCount(x)
  <1> SUFFICES ASSUME NEW x
               PROVE  EventCount(x)' \in Nat /\ EventCount(x)' = EventCount(x)
                      /\ EventCount(x)' <= EventCount(x)
    OBVIOUS
  <1>1. EventCount(x)' = EventCount(x)
    BY DEF EventCount
  <1>2. EventCount(x) \in Nat
    BY CountFacts DEF EventCount
  <1> QED BY <1>1, <1>2

LEMMA OrderHandle ==
    ASSUME restarts' = restarts, ServerInv, Lifecycle, OrderInv, [Next]_vars,
           NEW c \in Clients, Handle(c)
    PROVE  /\ OrderInv'
           /\ restarts = 0 => FinalStays
  <1> DEFINE m == Head(handlers[c].inbox)
             id == Recording(c, m.id)
  <1>1. PICK t : Handled(c, t)
    BY HandleEffect
  <1>2. /\ files' = t.files /\ pending' = t.pending /\ handlers'[c].writers = t.writers
        /\ \A d \in Clients : d # c => handlers'[d] = handlers[d]
        /\ Sound(t, c) /\ (t = State(c) \/ ChunkHandled(c, t) \/ EndHandled(c, t))
        /\ handlers'[c].inbox = Tail(handlers[c].inbox)
    BY <1>1 DEF Handled
  <1>3. /\ c \in Registered /\ handlers[c].up /\ handlers[c].inbox # << >>
        /\ UNCHANGED <<streams, received, rows, system>>
    BY HandleFacts DEF network, database, clientState
  <1>4. State(c).files = files /\ State(c).writers = handlers[c].writers /\ State(c).pending = pending
    BY HandlerFacts
  <1>5. /\ FlowKept(c)
        /\ \A n : m.kind = "WavEnd" /\ m.id = n => Over(c, n)'
        /\ m.kind \in {"WavChunk", "WavEnd"} => ~Over(c, m.id)
    BY <1>2, <1>3, FlowHandle DEF OrderInv
  <1>6. \A d \in Clients : FlowKept(d)
    <2>1. ASSUME NEW d \in Clients, d # c PROVE FlowKept(d)
      BY <1>2, <1>3, <2>1, FlowUnchanged DEF OrderInv
    <2> QED BY <1>5, <2>1
  <1>7. Framed'
    BY <1>3 DEF Framed, OrderInv
  <1>8. CASE t = State(c)
    <2>1. UNCHANGED <<files, pending, rows>>
      BY <1>2, <1>3, <1>4, <1>8
    <2>2. \A d \in Clients : handlers'[d].writers = handlers[d].writers
      BY <1>2, <1>4, <1>8
    <2>3. \A x : EventCount(x)' \in Nat /\ EventCount(x)' <= EventCount(x)
      BY <2>1, CountUnchanged
    <2> QED BY <1>6, <1>7, <2>1, <2>2, <2>3, QuietStep DEF FinalStays
  <1>9. m \in Msgs
    BY <1>3, FlowFacts, HeadTailProperties
  <1>10. ASSUME NEW d \in Clients, d # c, NEW x \in DOMAIN handlers'[d].writers
         PROVE  x # id /\ x \in Open
    <2>1. x \in DOMAIN handlers[d].writers
      BY <1>2, <1>10
    <2>2. x[1] = d /\ x \in Open
      BY <2>1, OpenIds
    <2> QED BY <1>10, <2>2 DEF Recording
  <1>11. CASE ChunkHandled(c, t) /\ t # State(c)
    <2>1. m.kind = "WavChunk" /\ Touches(State(c), t, id) /\ pending' = pending /\ id \in DOMAIN t.writers
      BY <1>2, <1>11 DEF ChunkHandled
    <2>2. ~Closed(id) /\ EventCount(id) <= restarts
      BY <1>3, <1>5, <1>9, <2>1, MsgFacts, HandledIsOpen DEF OrderInv
    <2>3. \A x : EventCount(x)' = EventCount(x)
      BY <1>3, <2>1, CountUnchanged
    <2>5. PICK z : z = id
      OBVIOUS
    <2>6. z \in DOMAIN t.files /\ ~t.files[z].final
      BY <1>2, <2>1, <2>5 DEF Sound, WritersFit
    <2>7. \A x : x # z => /\ x \in DOMAIN files' <=> x \in DOMAIN files
                          /\ x \in DOMAIN files => files'[x] = files[x]
                          /\ x \in DOMAIN t.writers <=> x \in DOMAIN handlers[c].writers
      BY <1>2, <1>4, <2>1, <2>5 DEF Touches
    <2>8. ~Closed(z) /\ EventCount(z) <= restarts
      BY <2>2, <2>5
    <2>9. \A x : Closed(x)' => Closed(x)
      BY <1>2, <2>3, <2>6, <2>7, <2>8 DEF Closed
    <2>10. ClosedIsOver'
      BY <1>6, <2>9, ClosedStep DEF OrderInv
    <2>11. OneEventPerRecording'
      BY <2>3 DEF OneEventPerRecording, OrderInv
    <2>12. OpenUnannounced'
      <3> SUFFICES ASSUME NEW x \in Open' PROVE EventCount(x) <= restarts
        BY <2>3 DEF OpenUnannounced
      <3>1. PICK d \in Clients : x \in DOMAIN handlers'[d].writers
        BY DEF Open
      <3>2. x = z \/ x \in Open
        BY <1>2, <1>10, <2>7, <3>1, OpenIds
      <3> QED BY <2>8, <3>2 DEF OpenUnannounced, OrderInv
    <2>13. restarts = 0 => FinalStays
      BY <2>7, <2>8 DEF Closed, FinalStays
    <2> QED BY <1>6, <1>7, <2>10, <2>11, <2>12, <2>13 DEF OrderInv, FlowKept
  <1>12. CASE EndHandled(c, t)
    <2>1. PICK ok \in DiskOutcomes : Ended(State(c), t, c, id, ok) /\ m.kind = "WavEnd"
      BY <1>12 DEF EndHandled
    <2>2. PICK n : n = m.id
      OBVIOUS
    <2>3. PICK z : z = id
      OBVIOUS
    <2>4. n \in 0 .. MaxDatagrams /\ z = Recording(c, n) /\ Over(c, n)'
      BY <1>5, <1>9, <2>1, <2>2, <2>3, MsgFacts
    <2>5. /\ z \notin DOMAIN t.writers
          /\ \A x : x # z => /\ x \in DOMAIN files' <=> x \in DOMAIN files
                             /\ x \in DOMAIN files => files'[x] = files[x]
                             /\ x \in DOMAIN t.writers <=> x \in DOMAIN handlers[c].writers
      BY <1>2, <1>4, <2>1, <2>3 DEF Ended, Touches
    <2>6. \A x \in Open' : x # z /\ x \in Open
      <3> SUFFICES ASSUME NEW x \in Open' PROVE x # z /\ x \in Open
        OBVIOUS
      <3>1. PICK d \in Clients : x \in DOMAIN handlers'[d].writers
        BY DEF Open
      <3> QED BY <1>2, <1>10, <2>3, <2>5, <3>1, OpenIds
    <2>7. CASE pending' = pending /\ files' = files
      <3>1. \A x : EventCount(x)' = EventCount(x)
        BY <1>3, <2>7, CountUnchanged
      <3>2. \A x : Closed(x)' => Closed(x)
        BY <2>7, <3>1 DEF Closed
      <3>3. ClosedIsOver'
        BY <1>6, <3>2, ClosedStep DEF OrderInv
      <3>4. OneEventPerRecording' /\ OpenUnannounced'
        BY <2>6, <3>1 DEF OneEventPerRecording, OpenUnannounced, OrderInv
      <3> QED BY <1>6, <1>7, <2>7, <3>3, <3>4 DEF OrderInv, FlowKept, FinalStays
    <2>8. CASE /\ id \in DOMAIN handlers[c].writers
               /\ pending' = pending (+) SetToBag({SoundEvent(c, id)})
      <3> DEFINE E == {SoundEvent(c, z)}
                 D == {z}
      <3>1. z \in Open /\ ~files[z].final
        BY <2>3, <2>8, OpenIds, OpenFacts
      <3>2. E \in SUBSET Sounds /\ D \in SUBSET Open /\ pending' = pending (+) SetToBag(E)
        BY <1>3, <2>3, <2>4, <2>8, <3>1, IdFacts
      <3>3. \A x \in Ids : SoundEvent(x[1], x) \in E => x \in D
        BY SoundsDiffer
      <3> HIDE DEF E, D
      <3>4. OneEventPerRecording' /\ \A x \in Ids : x \notin D => EventCount(x)' = EventCount(x)
        BY <1>3, <3>2, <3>3, Announced DEF OrderInv
      <3>5. OpenUnannounced'
        <4>1. \A x \in Open' : x \in Ids /\ x \in Open /\ x \notin D
          BY <2>6, OpenIds DEF D
        <4> QED BY <3>4, <4>1 DEF OpenUnannounced, OrderInv
      <3>6. ASSUME NEW d \in Clients, NEW k \in 0 .. MaxDatagrams, Closed(Recording(d, k))'
            PROVE  Closed(Recording(d, k)) \/ Gone(d)' \/ Over(d, k)'
        <4> DEFINE x == Recording(d, k)
        <4>1. x \in Ids
          BY DEF Ids, Recording
        <4>2. CASE x = z
          <5>1. d = c /\ k = n
            BY <2>4, <4>2 DEF Recording
          <5> QED BY <2>4, <5>1
        <4>3. CASE x # z
          <5>1. EventCount(x)' = EventCount(x)
            BY <3>4, <4>1, <4>3 DEF D
          <5> QED BY <2>5, <3>6, <4>3, <5>1 DEF Closed
        <4> QED BY <4>2, <4>3
      <3>7. ClosedIsOver'
        BY <1>6, <3>6, ClosedStep DEF OrderInv
      <3>8. FinalStays
        BY <2>5, <3>1 DEF FinalStays
      <3> QED BY <1>6, <1>7, <3>4, <3>5, <3>7, <3>8 DEF OrderInv, FlowKept
    <2> QED BY <1>2, <1>4, <2>1, <2>7, <2>8 DEF Ended
  <1> QED BY <1>2, <1>8, <1>11, <1>12

LEMMA OrderStopHandler ==
    ASSUME restarts' = restarts, ServerInv, Lifecycle, OrderInv, [Next]_vars,
           NEW c \in Clients, StopHandler(c)
    PROVE  /\ OrderInv'
           /\ restarts = 0 => FinalStays
  <1>1. PICK failing \in Failing(c) :
            /\ files' = Closing(files, DOMAIN handlers[c].writers \ failing)
            /\ pending' = pending (+) SetToBag(SoundsOf(c, DOMAIN handlers[c].writers \ failing))
            /\ SoundsOf(c, DOMAIN handlers[c].writers \ failing) \in SUBSET Sounds
    BY StopEffect
  <1> DEFINE D == DOMAIN handlers[c].writers \ failing
             E == SoundsOf(c, D)
  <1>2. /\ files' = Closing(files, D) /\ pending' = pending (+) SetToBag(E) /\ E \in SUBSET Sounds
        /\ D \in SUBSET Open /\ \A x \in D : x[1] = c
    BY <1>1, OpenIds
  <1>3. \A x \in Ids : SoundEvent(x[1], x) \in E => x \in D
    BY SoundsDiffer DEF SoundsOf
  <1>4. /\ system = "stopping" /\ UNCHANGED <<streams, received, rows, system>>
        /\ DOMAIN handlers'[c].writers = {} /\ ~handlers'[c].up /\ handlers'[c].inbox = << >>
        /\ \A d \in Clients : d # c => handlers'[d] = handlers[d]
    BY StopEffect DEF StopHandler, network, database, clientState
  <1> HIDE DEF E, D
  <1>5. /\ DOMAIN files' = DOMAIN files
        /\ \A x \in DOMAIN files : x \notin D => files'[x] = files[x]
    BY <1>2, ClosingFacts DEF ServerInv
  <1>6. OneEventPerRecording' /\ \A x \in Ids : x \notin D => EventCount(x)' = EventCount(x)
    BY <1>2, <1>3, <1>4, Announced DEF OrderInv
  <1>7. OpenUnannounced'
    <2> SUFFICES ASSUME NEW x \in Open' PROVE EventCount(x)' <= restarts
      BY DEF OpenUnannounced
    <2>1. PICK d \in Clients : x \in DOMAIN handlers'[d].writers
      BY DEF Open
    <2>2. d # c /\ x \in DOMAIN handlers[d].writers
      BY <1>4, <2>1
    <2>3. x \in Open /\ x \in Ids /\ x \notin D
      BY <1>2, <2>2, OpenIds
    <2> QED BY <1>6, <2>3 DEF OpenUnannounced, OrderInv
  <1>8. \A d \in Clients : FlowKept(d)
    BY <1>4, FlowUnchanged DEF OrderInv
  <1>9. ASSUME NEW d \in Clients, NEW k \in 0 .. MaxDatagrams, Closed(Recording(d, k))'
        PROVE  Closed(Recording(d, k)) \/ Gone(d)' \/ Over(d, k)'
    <2>1. CASE d = c
      BY <1>4, <2>1 DEF Gone
    <2>2. CASE d # c
      <3> DEFINE x == Recording(d, k)
      <3>1. x \in Ids /\ x[1] = d
        BY DEF Ids, Recording
      <3>2. x \notin D
        BY <1>2, <2>2, <3>1
      <3>3. EventCount(x)' = EventCount(x)
        BY <1>6, <3>1, <3>2
      <3> QED BY <1>5, <1>9, <3>2, <3>3 DEF Closed
    <2> QED BY <2>1, <2>2
  <1>10. ClosedIsOver'
    BY <1>8, <1>9, ClosedStep DEF OrderInv
  <1>11. Framed'
    BY <1>4 DEF Framed, OrderInv
  <1>12. \A x \in D : ~files[x].final
    BY <1>2, OpenFacts
  <1> QED BY <1>5, <1>6, <1>7, <1>8, <1>10, <1>11, <1>12
          DEF OrderInv, FlowKept, FinalStays

LEMMA OrderStopSystem ==
    ASSUME restarts' = restarts, ServerInv, Lifecycle, OrderInv, [Next]_vars, StopSystem
    PROVE  /\ OrderInv'
           /\ restarts = 0 => FinalStays
  <1>1. PICK failing \in SUBSET Open :
             /\ {SoundEvent(id[1], id) : id \in Open \ failing} \in SUBSET Sounds
             /\ files' = Closing(files, Open \ failing)
             /\ pending' = pending (+) SetToBag({SoundEvent(id[1], id) : id \in Open \ failing})
    BY StopSystemFacts
  <1> DEFINE D == Open \ failing
             E == {SoundEvent(id[1], id) : id \in D}
  <1>2. /\ files' = Closing(files, D) /\ pending' = pending (+) SetToBag(E) /\ E \in SUBSET Sounds
        /\ D \in SUBSET Open
    BY <1>1
  <1>3. \A x \in Ids : SoundEvent(x[1], x) \in E => x \in D
    BY SoundsDiffer
  <1>4. /\ system' = "down" /\ UNCHANGED <<streams, received, rows>>
        /\ \A d \in Clients : /\ DOMAIN handlers'[d].writers = {} /\ ~handlers'[d].up
                              /\ handlers'[d].inbox = << >>
    <2>1. DOMAIN NoHandler.writers = {} /\ ~NoHandler.up /\ NoHandler.inbox = << >>
      BY DEF NoHandler
    <2> QED BY <2>1 DEF StopSystem, network, database, clientState
  <1> HIDE DEF E, D
  <1>5. /\ DOMAIN files' = DOMAIN files
        /\ \A x \in DOMAIN files : x \notin D => files'[x] = files[x]
    BY <1>2, ClosingFacts DEF ServerInv
  <1>6. OneEventPerRecording'
    BY <1>2, <1>3, <1>4, Announced DEF OrderInv
  <1>7. OpenUnannounced'
    BY <1>4 DEF OpenUnannounced, Open
  <1>8. \A d \in Clients : FlowKept(d)
    BY <1>4, FlowUnchanged DEF OrderInv
  <1>9. ClosedIsOver'
    BY <1>4 DEF ClosedIsOver, Gone
  <1>10. Framed'
    BY <1>4 DEF Framed, OrderInv
  <1>11. \A x \in D : ~files[x].final
    BY <1>2, OpenFacts
  <1> QED BY <1>5, <1>6, <1>7, <1>8, <1>9, <1>10, <1>11
          DEF OrderInv, FlowKept, FinalStays

\* What was announced and not stored is lost with the old run; the new one has
\* announced nothing.
LEMMA OrderRestart ==
    ASSUME ServerInv, Lifecycle, OrderInv, Restart
    PROVE  OrderInv' /\ (restarts = 0 => FinalStays)
  <1>1. /\ system = "down" /\ restarts' = restarts + 1 /\ pending' = EmptyBag
        /\ UNCHANGED <<streams, received, handlers, files, rows>>
    BY DEF Restart, network, database, clientState
  <1>2. restarts \in Nat
    BY RestartsNat
  <1>3. \A x \in Ids : EventCount(x)' \in Nat /\ EventCount(x)' <= restarts'
    <2> SUFFICES ASSUME NEW x \in Ids PROVE EventCount(x)' \in Nat /\ EventCount(x)' <= restarts'
      OBVIOUS
    <2> DEFINE e == SoundEvent(x[1], x)
               n == Copies(e, pending)
               l == Copies(e, rows)
    <2>1. n \in Nat /\ l \in Nat
      BY CountFacts
    <2>2. EventCount(x) = n + l /\ EventCount(x)' = Copies(e, pending') + l
      BY <1>1 DEF EventCount
    <2>3. DOMAIN EmptyBag = {}
      BY EmptyMapFacts DEF EmptyMap
    <2>4. Copies(e, pending') = 0
      BY <1>1, <2>3 DEF Copies, BagIn, BagToSet
    <2>5. EventCount(x) <= 1 + restarts
      BY DEF OrderInv, OneEventPerRecording
    <2> HIDE DEF n, l, e
    <2> QED BY <1>1, <1>2, <2>1, <2>2, <2>4, <2>5
  <1>4. OneEventPerRecording'
    BY <1>1, <1>2, <1>3 DEF OneEventPerRecording
  <1>5. OpenUnannounced'
    <2>1. \A x \in Open' : x \in Ids
      BY <1>1, OpenIds DEF Open
    <2> QED BY <1>3, <2>1 DEF OpenUnannounced
  <1>6. ClosedIsOver'
    <2> SUFFICES ASSUME NEW d \in Clients, NEW k \in 0 .. MaxDatagrams PROVE ~Closed(Recording(d, k))'
      BY DEF ClosedIsOver
    <2>1. Recording(d, k) \in Ids
      BY DEF Recording, Ids
    <2>2. restarts' # 0
      BY <1>1, <1>2
    <2>3. EventCount(Recording(d, k))' \in Nat /\ EventCount(Recording(d, k))' <= restarts'
      BY <1>3, <2>1
    <2> QED BY <1>1, <1>2, <2>2, <2>3 DEF Closed
  <1>7. Framed' /\ \A c \in Clients : EndsQueued(c)'
    BY <1>1 DEF OrderInv, Framed, EndsQueued, Drained
  <1> QED BY <1>1, <1>4, <1>5, <1>6, <1>7 DEF OrderInv, FinalStays

LEMMA OrderInit == Init => OrderInv
  <1> SUFFICES ASSUME Init PROVE OrderInv
    OBVIOUS
  <1>1. DOMAIN files = {} /\ DOMAIN pending = {} /\ DOMAIN rows = {}
    BY EmptyMapFacts DEF Init
  <1>2. restarts = 0 /\ \A x : EventCount(x) = 0
    BY <1>1 DEF Init, EventCount, Copies, BagIn, BagToSet
  <1>3. \A c \in Clients : handlers[c].inbox = << >>
    BY DEF Init, NoHandler
  <1>4. Framed
    <2> DEFINE k == [id |-> 0, seq |-> 0, sent |-> <<Wire!SpecMsg>>]
    <2>1. k.sent = <<Steps!SpecMsg>> /\ k.id = 0 /\ k.seq = 0
      BY DEF Steps!SpecMsg, Wire!SpecMsg
    <2>2. k \in Steps!StreamStates
      BY DEF Steps!StreamStates, Steps!Datagrams, Wire!SpecMsg
    <2>3. Len(k.sent) = 1 /\ k.sent[1].kind = "Spec"
      BY <2>1 DEF Steps!SpecMsg
    <2>4. \A c \in Clients : streams[c] = k
      BY DEF Init
    <2> HIDE DEF k
    <2>5. Steps!InvOf(k)
      BY <2>1, <2>2, <2>3 DEF Steps!InvOf, Steps!CursorAhead, Steps!CursorReached,
             Steps!ChunksConsecutive, Steps!EndIsLast
    <2> QED BY <2>4, <2>5 DEF Framed
  <1>5. \A c \in Clients : EndsQueued(c)
    BY <1>3 DEF EndsQueued
  <1>6. ClosedIsOver
    BY <1>1, <1>2 DEF ClosedIsOver, Closed
  <1> QED BY <1>2, <1>4, <1>5, <1>6 DEF OrderInv, OpenUnannounced, OneEventPerRecording

LEMMA OrderStep ==
    ASSUME Reordering = FALSE, ServerInv, Lifecycle, OrderInv, [Next]_vars
    PROVE  /\ OrderInv'
           /\ restarts = 0 => FinalStays
  <1>1. ASSUME NEW c \in Clients, Client(c) PROVE OrderInv' /\ (restarts = 0 => FinalStays)
    <2>1. UNCHANGED <<received, handlers, files, pending, rows, restarts>>
      BY <1>1 DEF Client, ClientSendsChunk, ClientEndsRecording, ClientAnswersHandshake, network,
             database
    <2>2. /\ Framed' /\ Grows(streams[c], streams'[c])
          /\ \A d \in Clients : d # c => streams'[d] = streams[d]
      BY <1>1, ClientGrows DEF OrderInv
    <2>3. ServerInv'
      BY ServerStep
    <2>4. \A d \in Clients : FlowKept(d)
      <3>1. ASSUME NEW d \in Clients, d # c PROVE FlowKept(d)
        BY <2>1, <2>2, <3>1, FlowUnchanged DEF OrderInv
      <3>2. streams'[c].id \in Nat /\ Len(streams'[c].sent) \in Nat
        <4>1. streams'[c] \in Senders
          BY <2>3 DEF ServerInv
        <4> QED BY <4>1, LenProperties DEF Senders
      <3>3. FlowKept(c)
        BY <2>1, <2>2, <3>2, FlowClient DEF OrderInv
      <3> QED BY <3>1, <3>3
    <2> QED BY <2>1, <2>2, <2>4, CountUnchanged, QuietStep DEF FinalStays
  <1>2. ASSUME NEW c \in Clients, NEW i \in 1 .. MaxDatagrams, Receive(c, i)
        PROVE  OrderInv' /\ (restarts = 0 => FinalStays)
    <2>1. /\ UNCHANGED <<streams, files, pending, rows, restarts>> /\ i \in 1 .. Len(streams[c].sent)
          /\ i > received[c] /\ received'[c] = i
          /\ \A d \in Clients : d # c => received'[d] = received[d]
      BY <1>2 DEF Receive, Arrives, database, ServerInv, ScalarsOK
    <2>2. \A d \in Clients : FlowKept(d)
      <3>1. ASSUME NEW d \in Clients, d # c PROVE FlowKept(d)
        BY <1>2, <2>1, <3>1, FlowUnchanged, ReceiveFacts DEF OrderInv
      <3>2. FlowKept(c)
        BY <1>2, <2>1, FlowReceive, ReceiveFacts DEF OrderInv
      <3> QED BY <3>1, <3>2
    <2>3. Framed' /\ \A d \in Clients : handlers'[d].writers = handlers[d].writers
      BY <1>2, <2>1, ReceiveFacts DEF Framed, OrderInv
    <2> QED BY <2>1, <2>2, <2>3, CountUnchanged, QuietStep DEF FinalStays
  <1>3. ASSUME NEW c \in Clients, AnswerLookup(c) PROVE OrderInv' /\ (restarts = 0 => FinalStays)
    <2>1. UNCHANGED <<streams, received, files, pending, rows, restarts>>
      BY <1>3 DEF AnswerLookup, network, database, clientState
    <2>2. \A d \in Clients : FlowKept(d)
      BY <1>3, <2>1, FlowUnchanged, AnswerFacts DEF OrderInv
    <2>3. Framed' /\ \A d \in Clients : handlers'[d].writers = handlers[d].writers
      BY <1>3, <2>1, AnswerFacts DEF Framed, OrderInv
    <2> QED BY <2>1, <2>2, <2>3, CountUnchanged, QuietStep DEF FinalStays
  <1>4. CASE (\E e \in BagToSet(pending) : StoreEvent(e)) \/ (\E c \in Clients : DeleteDevice(c))
    <2>1. UNCHANGED <<streams, received, files, handlers, restarts>>
      BY <1>4 DEF StoreEvent, DeleteDevice, network, clientState
    <2>2. \A d \in Clients : FlowKept(d)
      BY <2>1, FlowUnchanged DEF OrderInv
    <2>3. Framed'
      BY <2>1 DEF Framed, OrderInv
    <2>4. \A x : EventCount(x)' \in Nat /\ EventCount(x)' <= EventCount(x)
      BY <1>4, StoringCounts
    <2> QED BY <2>1, <2>2, <2>3, <2>4, QuietStep DEF FinalStays
  <1>5. CASE Signal \/ StopServer \/ UNCHANGED vars
    <2>1. UNCHANGED <<streams, received, files, handlers, pending, rows, restarts>>
      BY <1>5 DEF Signal, StopServer, vars, network, database, clientState
    <2>2. \A d \in Clients : FlowKept(d)
      BY <2>1, FlowUnchanged DEF OrderInv
    <2>3. Framed'
      BY <2>1 DEF Framed, OrderInv
    <2> QED BY <2>1, <2>2, <2>3, CountUnchanged, QuietStep DEF FinalStays
  <1>6. CASE Restart
    BY <1>6, OrderRestart
  <1>7. ASSUME NEW c \in Clients, Handle(c) \/ StopHandler(c)
        PROVE  /\ OrderInv'
               /\ restarts = 0 => FinalStays
    <2>1. restarts' = restarts
      BY <1>7 DEF Handle, StopHandler
    <2> QED BY <1>7, <2>1, OrderHandle, OrderStopHandler
  <1>8. CASE StopSystem
    <2>1. restarts' = restarts
      BY <1>8 DEF StopSystem
    <2> QED BY <1>8, <2>1, OrderStopSystem
  <1> QED BY <1>1, <1>2, <1>3, <1>4, <1>5, <1>6, <1>7, <1>8 DEF Next

\* On a network that neither repeats nor reorders, a run of the backend announces
\* a recording at most once, however often it is restarted: neither its WavEnd and
\* the shutdown, nor a handler that stops and main(), announce it twice, and no
\* chunk reopens it before the next run.
THEOREM RecordingsAnnouncedOnce ==
    ASSUME Reordering = FALSE
    PROVE  Spec => []OneEventPerRecording
  <1>1. ServerInv /\ Lifecycle /\ OrderInv /\ [Next]_vars => OrderInv'
    BY OrderStep
  <1>2. OrderInv => OneEventPerRecording
    BY DEF OrderInv
  <1> QED BY <1>1, <1>2, ServerInvariant, LifecycleInit, LifecycleStep, OrderInit, PTL DEF Spec

\* On such a network a wav file is never touched again once it was finalized,
\* until a restart: WavWriter::create, which truncates, is not reached for it.
THEOREM FinalizedRecordingsKept ==
    ASSUME Reordering = FALSE
    PROVE  Spec => RecordingKept
  <1>1. ServerInv /\ Lifecycle /\ OrderInv /\ [Next]_vars => OrderInv'
    BY OrderStep
  <1>2. ServerInv /\ Lifecycle /\ OrderInv /\ [Next]_vars => (restarts = 0 => FinalStays)
    BY OrderStep DEF FinalStays
  <1> QED BY <1>1, <1>2, ServerInvariant, LifecycleInit, LifecycleStep, OrderInit, PTL
          DEF Spec, RecordingKept

-----------------------------------------------------------------------------
(* The two halves fit together *)

\* The stream of one client, as AudioStream describes it.
Sender(c) == INSTANCE AudioStream WITH
                 stream <- streams[c], ChunkSize <- 1, SizeModulus <- 1

\* What the server assumes of a client is what AudioStream allows, the
\* specification that the audio client implements (AudioClientProofs): neither
\* the handshakes of the server nor its restarts make a client send anything else.
THEOREM ClientsAreStreams ==
    ASSUME NEW c \in Clients
    PROVE  Spec => Sender(c)!StreamSpec
  <1>1. Init => Sender(c)!StreamInit
    BY DEF Init, Sender!StreamInit, Sender!SpecMsg, Wire!SpecMsg
  <1>2. ServerInv /\ [Next]_vars => [Sender(c)!StreamNext]_(streams[c])
    <2> SUFFICES ASSUME ServerInv, [Next]_vars, streams'[c] # streams[c]
                 PROVE  Sender(c)!StreamNext
      OBVIOUS
    <2>1. PICK d \in Clients : Client(d)
      BY DEF Next, vars, Receive, AnswerLookup, Handle, StopHandler, DeleteDevice, StoreEvent,
             Signal, StopServer, StopSystem, Restart, clientState
    <2>2. DOMAIN streams = Clients
      BY DEF ServerInv
    <2>3. d = c
      BY <2>1, <2>2 DEF Client, ClientSendsChunk, ClientEndsRecording, ClientAnswersHandshake
    <2>4. Wire!Budget(streams[c])
      BY <2>1, <2>3 DEF Client, ClientSendsChunk, ClientEndsRecording, ClientAnswersHandshake
    <2>5. \/ streams'[c] = Wire!SendingChunk(streams[c], 1)
          \/ streams'[c] = Wire!SendingEnd(Wire!SendingChunk(streams[c], 1))
          \/ streams'[c] = Wire!Sending(streams[c], Wire!SpecMsg)
      BY <2>1, <2>2, <2>3 DEF Client, ClientSendsChunk, ClientEndsRecording,
                              ClientAnswersHandshake
    <2>6. 1 \in 1 .. 1
      OBVIOUS
    <2> QED BY <2>4, <2>5, <2>6
            DEF Sender!StreamNext, Sender!SendSpec, Sender!SendChunk, Sender!SendLastChunk,
                Sender!Budget, Sender!Sending, Sender!SendingChunk, Sender!SendingEnd,
                Sender!SpecMsg, Sender!ChunkMsg, Sender!EndMsg,
                Wire!Budget, Wire!Sending, Wire!SendingChunk, Wire!SendingEnd,
                Wire!SpecMsg, Wire!ChunkMsg, Wire!EndMsg
  <1> QED BY <1>1, <1>2, ServerInvariant, PTL DEF Spec, Sender!StreamSpec
=============================================================================
