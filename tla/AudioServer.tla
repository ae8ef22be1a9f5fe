---------------------------- MODULE AudioServer ----------------------------
(***************************************************************************)
(* The sound half of the backend: AudioServer (the UDP socket), one        *)
(* AudioHandler actor per client address, the wav directory, and the part  *)
(* of EventProcessor and of the database that stores sound events; with the*)
(* clients as AudioStream describes them and UDP between them, which loses,*)
(* repeats and reorders datagrams.                                         *)
(*                                                                         *)
(* Each client has an address and a secret of its own; the device that owns*)
(* the secret is named like the client.  A recording is named by the client*)
(* that drew its uuid and the number of the draw.                          *)
(*                                                                         *)
(* All actors run on one thread and a handler is one step.  What is cut in *)
(* two is cut where the code awaits the database: the look-up of a secret  *)
(* (which keeps the server from reading further datagrams, `.wait(ctx)`),  *)
(* and the insertion of an event.                                          *)
(***************************************************************************)
EXTENDS Naturals, Sequences, FiniteSets, Bags, Functions

CONSTANTS
    Clients,         \* audio clients
    Registered,      \* the clients whose secret belongs to a device
    FloatClients,    \* the clients whose microphone delivers f32 samples
    DiskOutcomes,    \* {TRUE}, or BOOLEAN if operations on a wav file may fail
    DatabaseOutcomes,\* {TRUE}, or BOOLEAN if a query may fail
    Reordering,      \* whether UDP may repeat and reorder datagrams
    MaxDatagrams,    \* bound: datagrams a client sends
    MaxDeliveries,   \* bound: datagrams the server receives
    MaxRestarts      \* bound: restarts of the backend

ASSUME ServerAssumption ==
    /\ Registered \subseteq Clients /\ FloatClients \subseteq Clients /\ "none" \notin Clients
    /\ DiskOutcomes \in {{TRUE}, BOOLEAN} /\ DatabaseOutcomes \in {{TRUE}, BOOLEAN}
    /\ Reordering \in BOOLEAN
    /\ MaxDatagrams \in Nat /\ MaxDeliveries \in Nat /\ MaxRestarts \in Nat

VARIABLES
    streams,     \* what each client sent
    received,    \* per client, the position of the last datagram received
    deliveries,  \* datagrams received so far
    handshakes,  \* clients a Handshake is on its way to
    lookup,      \* the client whose secret AudioServer is looking up, or none
    handlers,    \* AudioServer::writers, and the handlers that outlive it
    files,       \* the wav directory
    pending,     \* NewEvents given to EventProcessor and not yet stored
    rows,        \* the sound events of the database
    devices,     \* the devices of the database
    system,      \* "up", "signalled", "stopping" (AudioServer stopped) or "down"
    restarts     \* restarts so far

vars == <<streams, received, deliveries, handshakes, lookup, handlers, files,
          pending, rows, devices, system, restarts>>

clientState == <<streams, handshakes>>
network == <<received, deliveries>>
database == <<rows, devices>>

Wire == INSTANCE AudioStream WITH
            stream <- streams, ChunkSize <- 1, SizeModulus <- 1

NoClient == "none"
NoHandler == [up |-> FALSE, inbox |-> << >>, writers |-> << >>]

\* Recordings, files and events of a client.
Recording(c, n) == <<c, n>>
SoundEvent(c, id) == [device |-> c, wav |-> id]

EmptyMap == << >>
With(f, x, v) == [y \in DOMAIN f \cup {x} |-> IF y = x THEN v ELSE f[y]]
Without(f, x) == Restrict(f, DOMAIN f \ {x})

-----------------------------------------------------------------------------
(* AudioWriter and AudioHandler.  A handler step maps the state s = [writers,*)
(* files, pending] of a handler to the next one; ok is the outcome of the    *)
(* operation on the file.                                                    *)

\* WavWriter::create truncates a file of that name.
NewWriter(s, id) ==
    [s EXCEPT !.writers = With(@, id, 0),
              !.files = With(@, id, [chunks |-> << >>, final |-> FALSE])]

\* Any chunk that arrives is appended.
WriteChunkUnordered(s, id, seq, ok) ==
    [s EXCEPT !.files[id].chunks = Append(@, [seq |-> seq, whole |-> ok]),
              !.writers[id] = IF ok THEN seq ELSE @]

\* AudioWriter::write: a chunk is written if its number is beyond the last
\* one; a failure leaves a part of it in the file and the number unchanged.
WriteChunk(s, id, seq, ok) ==
    IF s.writers[id] < seq
    THEN [s EXCEPT !.files[id].chunks = Append(@, [seq |-> seq, whole |-> ok]),
                   !.writers[id] = IF ok THEN seq ELSE @]
    ELSE s

\* The file is closed and nobody is told.
FinalizeSilently(s, c, id, ok) ==
    IF ok THEN [s EXCEPT !.files[id].final = TRUE] ELSE s

\* AudioWriter::finalize_as_new_event and the message to EventProcessor.
Finalize(s, c, id, ok) ==
    IF ok THEN [s EXCEPT !.files[id].final = TRUE,
                         !.pending = @ (+) SetToBag({SoundEvent(c, id)})]
    ELSE s

\* AudioHandler::write for a chunk.  A writer that cannot be created is not
\* kept; one that was created is, even if its first chunk cannot be written.
HandleChunk(s, c, m, created, ok) ==
    LET id == Recording(c, m.id) IN
    IF id \in DOMAIN s.writers THEN WriteChunk(s, id, m.seq, ok)
    ELSE IF created THEN WriteChunk(NewWriter(s, id), id, m.seq, ok)
    ELSE s

\* The writer stays in the map after it was finalized.
HandleEndKeepsWriter(s, c, m, ok) ==
    LET id == Recording(c, m.id) IN
    IF id \in DOMAIN s.writers THEN Finalize(s, c, id, ok) ELSE s

HandleEnd(s, c, m, ok) ==
    LET id == Recording(c, m.id) IN
    IF id \in DOMAIN s.writers
    THEN Finalize([s EXCEPT !.writers = Without(@, id)], c, id, ok)
    ELSE s

\* AudioHandler::finalize_all, with the set of writers whose file fails.
FinalizeAll(s, c, failing) ==
    LET done == DOMAIN s.writers \ failing IN
    [writers |-> EmptyMap,
     files |-> [id \in DOMAIN s.files |->
                   IF id \in done THEN [s.files[id] EXCEPT !.final = TRUE] ELSE s.files[id]],
     pending |-> s.pending (+) SetToBag({SoundEvent(c, id) : id \in done})]

State(c) == [writers |-> handlers[c].writers, files |-> files, pending |-> pending]

\* What is being recorded, by whichever handler.
Open == UNION {DOMAIN handlers[c].writers : c \in Clients}

Failing(c) == IF FALSE \in DiskOutcomes THEN SUBSET DOMAIN handlers[c].writers ELSE {{}}

-----------------------------------------------------------------------------
(* The clients *)

Init ==
    /\ streams = [c \in Clients |-> [id |-> 0, seq |-> 0, sent |-> <<Wire!SpecMsg>>]]
    /\ received = [c \in Clients |-> 0]
    /\ deliveries = 0
    /\ handshakes = {}
    /\ lookup = NoClient
    /\ handlers = [c \in Clients |-> NoHandler]
    /\ files = EmptyMap
    /\ pending = EmptyBag
    /\ rows = EmptyBag
    /\ devices = Registered
    /\ system = "up"
    /\ restarts = 0

ClientSendsChunk(c) ==
    /\ Wire!Budget(streams[c])
    /\ streams' = [streams EXCEPT ![c] = Wire!SendingChunk(@, 1)]
    /\ UNCHANGED <<handshakes, lookup, handlers, files, pending, system, restarts,
                   network, database>>

ClientEndsRecording(c) ==
    /\ Wire!Budget(streams[c])
    /\ streams' = [streams EXCEPT ![c] = Wire!SendingEnd(Wire!SendingChunk(@, 1))]
    /\ UNCHANGED <<handshakes, lookup, handlers, files, pending, system, restarts,
                   network, database>>

\* A handshake arrives and is answered with the spec.
ClientAnswersHandshake(c) ==
    /\ c \in handshakes
    /\ Wire!Budget(streams[c])
    /\ handshakes' = handshakes \ {c}
    /\ streams' = [streams EXCEPT ![c] = Wire!Sending(@, Wire!SpecMsg)]
    /\ UNCHANGED <<lookup, handlers, files, pending, system, restarts, network, database>>

-----------------------------------------------------------------------------
(* AudioServer *)

\* The server parses what an unknown client sends as Audio<f32>: a chunk of
\* shorter samples does not parse.
Parses(c, m) == m.kind # "WavChunk" \/ c \in FloatClients

Arrives(c, i) ==
    /\ deliveries < MaxDeliveries
    /\ i \in 1 .. Len(streams[c].sent)
    /\ Reordering \/ i > received[c]
    /\ deliveries' = deliveries + 1
    /\ received' = [received EXCEPT ![c] = i]

\* StreamHandler<UdpStream>::handle, with the decision left to its caller.
Dispatch(c, m) ==
    /\ handlers' = IF handlers[c].up
                   THEN [handlers EXCEPT ![c].inbox = Append(@, m)] ELSE handlers
    /\ lookup' = IF ~handlers[c].up /\ m.kind = "Spec" THEN c ELSE lookup
    /\ handshakes' = IF ~handlers[c].up /\ m.kind # "Spec" /\ Parses(c, m)
                     THEN handshakes \cup {c} ELSE handshakes

Receive(c, i) ==
    /\ system \in {"up", "signalled"}
    /\ lookup = NoClient
    /\ Arrives(c, i)
    /\ Dispatch(c, streams[c].sent[i])
    /\ UNCHANGED <<streams, files, pending, system, restarts, database>>

\* Every answer of the database starts a handler.
NewHandlerUnchecked(c) ==
    /\ lookup = c
    /\ lookup' = NoClient
    /\ handlers' = [handlers EXCEPT ![c] = [NoHandler EXCEPT !.up = TRUE]]
    /\ UNCHANGED <<files, pending, system, restarts, network, database, clientState>>

\* AudioServer::new_handler: the answer of the database.
AnswerLookup(c) ==
    /\ lookup = c
    /\ lookup' = NoClient
    /\ \E ok \in DatabaseOutcomes :
          handlers' = IF ok /\ c \in devices
                      THEN [handlers EXCEPT ![c] = [NoHandler EXCEPT !.up = TRUE]]
                      ELSE handlers
    /\ UNCHANGED <<files, pending, system, restarts, network, database, clientState>>

-----------------------------------------------------------------------------
(* AudioHandler *)

\* Handler<AudioBytes>::handle.  A second Spec is reported and ignored.
Handle(c) ==
    /\ handlers[c].inbox # << >>
    /\ \E created, ok \in DiskOutcomes :
          LET m == Head(handlers[c].inbox)
              s == IF m.kind = "WavChunk" THEN HandleChunk(State(c), c, m, created, ok)
                   ELSE IF m.kind = "WavEnd" THEN HandleEnd(State(c), c, m, ok)
                   ELSE State(c)
          IN  /\ handlers' = [handlers EXCEPT ![c].inbox = Tail(@), ![c].writers = s.writers]
              /\ files' = s.files
              /\ pending' = s.pending
    /\ UNCHANGED <<lookup, system, restarts, network, database, clientState>>

\* The writers are dropped without being finalized.
StopHandlerDropsWriters(c) ==
    /\ system = "stopping"
    /\ handlers[c].up
    /\ handlers[c].inbox = << >>
    /\ handlers' = [handlers EXCEPT ![c] = NoHandler]
    /\ UNCHANGED <<files, pending, lookup, system, restarts, network, database, clientState>>

\* AudioHandler::stopping, once AudioServer has dropped the last address of
\* the handler and the mailbox is empty.
StopHandler(c) ==
    /\ system = "stopping"
    /\ handlers[c].up
    /\ handlers[c].inbox = << >>
    /\ \E failing \in Failing(c) :
          LET s == FinalizeAll(State(c), c, failing) IN
          /\ files' = s.files
          /\ pending' = s.pending
    /\ handlers' = [handlers EXCEPT ![c] = NoHandler]
    /\ UNCHANGED <<lookup, system, restarts, network, database, clientState>>

-----------------------------------------------------------------------------
(* EventProcessor and the database *)

\* The futures of EventProcessor complete in any order; the foreign key
\* refuses the event of a device that is gone, and the event is dropped.
StoreEvent(e) ==
    /\ system # "down"
    /\ BagIn(e, pending)
    /\ pending' = pending (-) SetToBag({e})
    /\ \E ok \in DatabaseOutcomes :
          rows' = IF ok /\ e.device \in devices THEN rows (+) SetToBag({e}) ELSE rows
    /\ UNCHANGED <<devices, lookup, handlers, files, system, restarts, network, clientState>>

\* A user deletes a device; its events go with it (ON DELETE CASCADE).
DeleteDevice(c) ==
    /\ system # "down"
    /\ c \in devices
    /\ devices' = devices \ {c}
    /\ rows' = Restrict(rows, {e \in DOMAIN rows : e.device # c})
    /\ UNCHANGED <<pending, lookup, handlers, files, system, restarts, network, clientState>>

-----------------------------------------------------------------------------
(* Shutdown and restart *)

Signal ==
    /\ system = "up"
    /\ system' = "signalled"
    /\ UNCHANGED <<pending, lookup, handlers, files, restarts, network, database, clientState>>

\* The look-up is spawned and does not hold the mailbox.
StopServerDuringLookup ==
    /\ system = "signalled"
    /\ system' = "stopping"
    /\ UNCHANGED <<pending, lookup, handlers, files, restarts, network, database, clientState>>

\* Handler<Signal>: ctx.stop(), when no look-up holds the mailbox (.wait).
StopServer ==
    /\ system = "signalled"
    /\ lookup = NoClient
    /\ system' = "stopping"
    /\ UNCHANGED <<pending, lookup, handlers, files, restarts, network, database, clientState>>

\* The HTTP server has shut down and main() stops the system: the actors
\* still alive are dropped, and dropping a handler runs stopping().  What is in
\* a mailbox, or in pending, is never handled.
StopSystem ==
    /\ system \in {"signalled", "stopping"}
    /\ system' = "down"
    /\ \E failing \in SUBSET Open :
          /\ failing # {} => FALSE \in DiskOutcomes
          /\ files' = [id \in DOMAIN files |->
                          IF id \in Open \ failing THEN [files[id] EXCEPT !.final = TRUE]
                          ELSE files[id]]
          /\ pending' = pending (+) SetToBag({SoundEvent(id[1], id) : id \in Open \ failing})
    /\ handlers' = [c \in Clients |-> NoHandler]
    /\ lookup' = NoClient
    /\ UNCHANGED <<restarts, network, database, clientState>>

\* The backend is started again; files and database are what it finds.
Restart ==
    /\ system = "down"
    /\ restarts < MaxRestarts
    /\ restarts' = restarts + 1
    /\ system' = "up"
    /\ pending' = EmptyBag
    /\ UNCHANGED <<lookup, handlers, files, network, database, clientState>>

Client(c) ==
    \/ ClientSendsChunk(c)
    \/ ClientEndsRecording(c)
    \/ ClientAnswersHandshake(c)

Next ==
    \/ \E c \in Clients :
          \/ Client(c)
          \/ \E i \in 1 .. MaxDatagrams : Receive(c, i)
          \/ AnswerLookup(c)
          \/ Handle(c)
          \/ StopHandler(c)
          \/ DeleteDevice(c)
    \/ \E e \in BagToSet(pending) : StoreEvent(e)
    \/ Signal
    \/ StopServer
    \/ StopSystem
    \/ Restart

Spec == Init /\ [][Next]_vars

\* The actor system runs every message in a mailbox, and every future whose
\* query was answered, unless the system stops first.
Fairness ==
    /\ \A c \in Clients : WF_vars(Handle(c))
    /\ WF_vars(\E e \in BagToSet(pending) : StoreEvent(e))

FairSpec == Spec /\ Fairness

-----------------------------------------------------------------------------
(* Properties *)

Ids == Clients \X (0 .. MaxDatagrams)

Files == [chunks : Seq([seq : Nat, whole : BOOLEAN]), final : BOOLEAN]

IsMap(f, R) == DOMAIN f \subseteq Ids /\ \A x \in DOMAIN f : f[x] \in R

\* Besides the types: a handler that does not run has neither mailbox nor
\* writers, and AudioServer looks up a secret only while it lives itself and for
\* a client without a handler, so that no handler is replaced or left behind.
AudioTypeOK ==
    /\ received \in [Clients -> 0 .. MaxDatagrams]
    /\ deliveries \in 0 .. MaxDeliveries
    /\ handshakes \subseteq Clients
    /\ lookup \in Clients \cup {NoClient}
    /\ DOMAIN handlers = Clients
    /\ \A c \in Clients :
          /\ handlers[c].up \in BOOLEAN
          /\ handlers[c].inbox \in Seq(Wire!Datagrams)
          /\ IsMap(handlers[c].writers, Nat)
          /\ ~handlers[c].up => handlers[c] = NoHandler
          /\ lookup = c => system \in {"up", "signalled"} /\ ~handlers[c].up
    /\ IsMap(files, Files)
    /\ BagToSet(pending) \cup BagToSet(rows) \subseteq {SoundEvent(id[1], id) : id \in Ids}
    /\ devices \subseteq Registered
    /\ system \in {"up", "signalled", "stopping", "down"}
    /\ restarts \in 0 .. MaxRestarts

\* Whatever UDP repeats or reorders and however often the disk fails, the
\* whole chunks of a wav file are in the order they were recorded, each at
\* most once: AudioWriter::write skips what comes late.
InOrder(chunks) ==
    \A i, j \in 1 .. Len(chunks) :
        i < j /\ chunks[i].whole /\ chunks[j].whole => chunks[i].seq < chunks[j].seq

StoredInOrder == \A id \in DOMAIN files : InOrder(files[id].chunks)

\* A file has one writer at most, which is its owner's and has not finalized
\* it: "unexpected write after finalized" cannot be reached.
WriterHasFile ==
    \A c \in Clients : \A id \in DOMAIN handlers[c].writers :
        /\ id[1] = c
        /\ id \in DOMAIN files /\ ~files[id].final

\* Nothing of a client whose secret belongs to no device is ever stored.  A
\* device that is deleted after its look-up is still served by its handler: its
\* sounds are written, but the database keeps no event of it.
OnlyRegisteredStored ==
    /\ \A id \in DOMAIN files : id[1] \in Registered
    /\ \A e \in BagToSet(pending) : e.device \in Registered
    /\ \A e \in BagToSet(rows) : e.device \in devices

\* A recording is announced once while the backend runs: WavEnd, its
\* repetitions and the shutdown never produce two events for one wav file.  A
\* recording that a restart cuts in two is announced by both runs at most.
Copies(e, B) == IF BagIn(e, B) THEN B[e] ELSE 0

EventCount(id) ==
    Copies(SoundEvent(id[1], id), pending) + Copies(SoundEvent(id[1], id), rows)

OneEventPerRecording == \A id \in Ids : EventCount(id) <= 1 + restarts

\* A recording that was finalized is never touched again, until a backend that
\* was started anew meets the rest of it.
FinalStays ==
    \A id \in DOMAIN files : files[id].final => id \in DOMAIN files' /\ files'[id] = files[id]

RecordingKept == [][restarts = 0 => FinalStays]_vars

\* Once the system is down every wav file has been finalized, and its event
\* handed over, by finalize_as_new_event, whichever of the server, the handlers
\* and main() stopped first.  (hound writes the header of a writer that is just
\* dropped, but then no event is made.)
ClosedWhenDown == system = "down" => \A id \in DOMAIN files : files[id].final

\* A recording whose WavEnd reached its handler becomes an event of the
\* database, unless the device is deleted or the system stops.
EndQueued(c, n) ==
    /\ Recording(c, n) \in DOMAIN handlers[c].writers
    /\ \E i \in DOMAIN handlers[c].inbox : Wire!IsEndOf(handlers[c].inbox[i], n)

EndedRecordingStored ==
    \A c \in Clients : \A n \in 0 .. MaxDatagrams :
        EndQueued(c, n) ~>
            \/ BagIn(SoundEvent(c, Recording(c, n)), rows)
            \/ c \notin devices
            \/ system = "down"

\* A sound event comes with sound.
EventHasSound ==
    \A e \in BagToSet(pending) \cup BagToSet(rows) : files[e.wav].chunks # << >>
=============================================================================
