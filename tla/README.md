# Verification of BUG (Be Ur Guard)

TLA+ models of the BUG system, checked by TLC on small instances, and theorems
about them proved with TLAPS for every value of the constants. Paths are relative
to the repository.

## 1. The system and its parts

A *bug* is an STM32 board that notices when it is moved; a Raspberry Pi with a
microphone notices sound. Both report events to a backend, which stores them in
PostgreSQL and pushes them to a web frontend.

```
 bug/src            TCP   backend/src: EventServer -> EventHandler -+
 (firmware)        ---->                                            v
                                                        EventProcessor -> Database
 backend/           UDP   AudioServer -> AudioHandler(s) -----------^   |  ^
 audio-client      ---->      |                                         |  | HTTP routes
                              v  wav files                     WsManager|  |
                                                                        v  |
                                                     frontend (stores, sagas, web socket)
```

| part | state | operations | interacts by |
|---|---|---|---|
| noise gate, `audio-client/src/noise_gate.rs` | `Open`, `Closing(n)`, `Closed` | `process` | calls `record` / `end_of_transmission` of the sink |
| audio client, `audio-client/src/main.rs` | ring buffer, sample buffer, uuid, sequence number, `first_payload_ignored`; waker and terminate channels | audio callback, payload, handshake, interrupt | audio thread, actor and waker thread; UDP |
| audio server and handlers, `actor/audio_server.rs`, `actor/audio_handler.rs` | map address -> handler; per handler map uuid -> writer; wav directory | datagrams, look-up of a secret, signal | UDP, mailboxes, database futures |
| event server and handlers, `actor/event_*.rs`, `backend/event` | listener; per connection: device once authenticated | accept, decode, authenticate, respond, stop | TCP, database futures |
| event processor, `actor/event_processor.rs` | none of its own | `NewEvent` | two awaited database messages, then a broadcast |
| database actor, `actor/db/*`, `migrations/*` | tables | insert, select, delete | SQL, one connection per message |
| HTTP API and web sockets, `http/*`, `actor/ws_manager.rs` | list of sessions | seven routes in use, `/ws/event` | requests of the frontend; mutex |
| shutdown, `main.rs`, `signal.rs` | what has stopped | signals | actors stop in any order |
| TCP client, `bug/src/client_tcp.h`, `client_bug_event.h` | mbed `EventQueue`, `_connecting`, the socket, buffers by pointer | connect and send callbacks | TCP; queue with few slots |
| position tracker, `bug/src/tracker_position.h`, `noise_gate.h` | gate, velocity, position, current event | one sample | hands an event to the TCP client |
| wifi, `bug/src/wifi.h` | connection status, error counters, NTP time, its own `EventQueue` | error reports, reconnect, time sync | reports and status across two threads; atomics |
| event encoding, `bug/src/bug_event.h`, `backend/event`, `db/event.rs` | none | encode, decode, `NewEvent::from` | bytes; the clock wifi sets |
| frontend, `store/*`, `containers/*`, `api/*` | slices for devices, labels, events; status of each kind of request | fetch, create, delete, pushed events | HTTP answered in any order; web socket |
| calendar and rules, `util/day`, `util/rule` | none | pure functions | |
| UI components, theme, loggers, BSP driver | none of interest | | |

What is hard about it:

* **Unreliable delivery.** Sound travels by UDP: chunks, ends and specs are lost,
  repeated and reordered. Events travel by TCP, which has no message boundaries;
  the codec treats one read as one event.
* **Timeouts and retries.** The device gives up waiting for a response that is on
  its way, and uses the same connection again.
* **Repairs that cause failures.** A wifi module that broke is found out only by
  counting errors; resetting it breaks connections, which counts as errors.
* **Wakers.** The actor of the audio client sleeps until a thread that may be
  ending wakes it.
* **A clock set in mid-run** by another thread than the one that stamps events.
* **A queue at its limit.** `EventQueue::call` fails without a free slot, and the
  firmware ignores that.
* **State held across an await.** AudioServer, EventHandler and EventProcessor
  act on a device they looked up earlier and that may be deleted meanwhile.
* **Restart and stop in any order.** Recordings in progress meet a new process;
  actors that own open files stop before or after the ones that feed them.
* **Answers that overtake each other.** The sagas of the frontend use `takeEvery`
  and run any number of requests at once.

What makes each part correct: a gate never cuts a transmission short nor ends it
twice; the sink neither loses nor repeats samples and frames recordings so that the
server can tell late chunks from new ones; a wav file stays in recording order, is
finished once, belongs to a registered device and becomes one event; the firmware
keeps every event and every reconnect until they are done, and never touches a
deleted buffer; its wifi is repaired, and then left alone; events of a device form
one path in space and time, on the device and in the table; no row refers
to a deleted device; no stored event is missed by an open page.

## 2. Modules

| module | models | composed with |
|---|---|---|
| `GateContract` | what a noise gate promises (abstract) | |
| `NoiseGate` | `noise_gate.rs` | implements `GateContract` |
| `AudioStream` | the datagrams a client may send, abstractly | |
| `AudioClient` | `main.rs` of the client: audio thread, actor thread, sink | extends `NoiseGate`, implements `AudioStream` |
| `ClientShutdown` | `main()` of the client, its waker thread, the poll of the actor, the shutdown | extends `AudioClient` |
| `AudioServer` | `audio_server.rs`, `audio_handler.rs`, stopping | clients are instances of `AudioStream` |
| `EventDelivery` | `client_tcp.h`, `client_bug_event.h`, TCP, `event_server.rs`, `event_handler.rs`, `codec.rs` | device and backend in one module |
| `Wifi` | `wifi.h`, and what `client_tcp.h` reports to it | extends `EventDelivery` |
| `PositionTracker` | `tracker_position.h`, `noise_gate.h` | implements `GateContract` |
| `TimeStamps` | `sync_timestamp`, `bug_event.h`, `backend/event`, `NewEvent::from` | extends `PositionTracker` |
| `Backend` | HTTP routes, tables, EventProcessor, WsManager | |
| `Dashboard` | stores, sagas, containers of the frontend | extends `Backend` |
| `MC*` | definitions for the constants of a run | |
| `*Proofs` | theorems and their proofs | |

`PROJECT.json` maps every definition to the lines it stands for. Definitions whose
name ends in a fault (`WriteChunkUnordered`, `RetryDropsEvent`, ...) are not used
by any specification: each is a plausible slip in the code that follows it, kept to
show that the property it belongs to notices it.

### Correspondence to the code

**NoiseGate, AudioClient.** `gate` is `NoiseGate::state`, `call` what `process` told
the sink. A sample is an integer of a signed format; negating the least one wraps as
in a release build. `ring` and `todo` count samples: their values matter only at the
gate and are chosen there. The loop of `process` over a payload is one step per
sample; `todo > 0` keeps other handlers of the actor out, as in the code. `sink` has
the fields of `AudioSink`; a uuid is a number that is drawn once. `InputData` is the
audio thread; a push to a full ring buffer changes nothing.

**ClientShutdown.** `main()` and the actor share a thread, so `main` goes on only
while no poll is under way, and while it is in `waker_thread.join()` the actor is not
polled. A poll takes the datagrams, then payloads; without a whole payload it sends
its waker (`SendWaker`, which blocks on a full channel) or, with the receiver gone,
ends the stream (`EndPayloads`). The waker thread takes a waker, sleeps and wakes, or
takes the terminate message; `select!` may prefer the latter although a waker is
queued. `asleep` records that this waker was dropped while nothing else was to wake
the actor: the client then waits in `local_join` until a datagram happens to come.

**AudioServer.** One step per handler of an actor. A look-up or an insertion is cut
where the code awaits the database; during a look-up the server reads no datagram
(`.wait(ctx)`). `handlers[c].writers` maps a uuid to the last number written,
`files` is the directory. `DiskOutcomes` and `DatabaseOutcomes` let every operation
on a file and every query fail; a failed write leaves part of a chunk behind.
`Receive(c, i)` delivers any datagram sent so far when `Reordering` holds, and only
later ones otherwise; not receiving one is its loss. `Signal`, `StopServer`,
`StopHandler` and `StopSystem` run in every order the code allows.

**EventDelivery.** `queue`, `timer` and `current` are the `EventQueue`, with one slot
per callback that is due, delayed or running. Each of the two callbacks is cut where
it blocks. A connection keeps its unread pieces after the device has closed it.
`Read(c, k)` takes any number of pieces; what `EventCodec` does with more or less
than one event is modelled. `Break` and `BackendRestarts` cut connections, `Authenticate`
answers "found", "refused" or with a mailbox error. `SendFails` leaves nothing on the
wire; a `sendto()` that reports a failure although the event has left is, for both
sides, `Send` followed by `ResponseTimeout`, and counts as a late response. That it
fails after a part of an event has left is not modelled. `EventServerStops` is the signal
that stops EventServer; its listener is leaked, so connections made afterwards succeed
and are never read (`handler = "none"`) until the process is started again.

**Wifi.** The actions of `EventDelivery`, with `Connect` split into the turns of its
loop and `RETRY` joined by `report_error`. `radio` is whether the module works,
`status` what the driver last said; `calls` and `timers` are the `connect_callback`s in
the queue of WIFI. `report_error` is called from the thread of the TCP client alone;
its weak compare-exchange may fail at any time. `connect()` is cut after `reset()` and
after joining the access point. The driver is taken to report a status only while
`connect()` or `disconnect()` runs: should it report the loss of an access point by
itself, the TCP client would wait without reporting and nobody would reconnect.

**TimeStamps.** The tracker's clock counts from the start of the device in units of
which `Second` make a second. `SyncTimestamp` sets `ntp` between two samples. `frames`
holds the bytes of every event sent; `Decode` reads them by the field order and
widths of `backend/event`, `NewEventTimes` is `NewEvent::from` at any second of the
minute. `StampAssumption` has the device run before 2038, so that the time fits the
`int32_t` of `_ntp_secs`. Two things follow from the code and are no violation of any promise in it:
every stamp is late by the time the device had run when its clock was set, since
`_ntp_secs` is the time of the synchronisation and the whole uptime is added to it;
and an event of the first second before that is stored at the current second of the
minute of 1970, possibly with its end before its start. `StoredInTimeOrder` says what
holds in spite of it.

**PositionTracker.** One sample per step, with integer division rounding towards
zero as in C++. The sensor is an input. The time between samples varies.

**Backend, Dashboard.** A message to Database is one statement or transaction, hence
one step; EventProcessor takes three. `Respond` may lose the response after the work
was done, `Fail` fails before it. A `DELETE` cascades as the migrations declare. The
containers fetch when mounted unless the fetch is pending in the state they were
rendered with, which is why two in one commit may fetch the same list. From the
arrival of a response to the last `put` of its saga nothing else runs. `covered`,
`inserted`, `confirmed` and `drawn` are history variables.

## 3. Runs

Twelve runs; every property of a passing run has a mutant that breaks it.

| run | instance | shows |
|---|---|---|
| `audio_client` | chunks of 4, release of 1 sample, 3 bit samples with the least one, 6 datagrams; all threads, fairness | `ClientTypeOK`, `NoSampleStranded`, `SamplesConserved`, `Framed`, `ImplementsStream`, `ImplementsContract`, `StreamPolledAgain`, `InterruptEndsClient` |
| `server_hostile` | 2 clients, one unregistered; loss, repetition, reordering, failing disk and database, a restart | `AudioTypeOK`, `StoredInOrder`, `WriterHasFile`, `OnlyRegisteredStored` |
| `server_ordered` | 1 client, 7 datagrams, loss without reordering, every order of stopping, a restart, fairness | `OneEventPerRecording`, `ClosedWhenDown`, `RecordingKept`, `EndedRecordingStored` |
| `server_late_chunk` | 1 client, reordering | **violated:** `RecordingKept` |
| `server_first_chunk` | 1 client, nothing fails | **violated:** `EventHasSound` |
| `delivery_queue` | 2 events in 2 pieces, 5 slots, a break or a stopped server, a timeout | `DeliveryTypeOK`, `ReconnectPending`, `NothingForgotten`, `FreedOnce`, `BoundedConnects`, `NeverOverflows` |
| `delivery_live` | `Wifi`: 2 events, threshold of 3 errors, a failure of wifi, network or backend and all that follows from it, no late response, fairness | `AckMeansAccepted`, `WifiBeingRepaired`, `EveryEventSent`, `RepairsEnd` |
| `delivery_stale_ack` | 2 events, a response later than the timeout | **violated:** `AckMeansAccepted` |
| `delivery_overflow` | 2 events, 2 slots, one failure, fairness | **violated:** `ConnectsAgain` |
| `position_tracker` | `TimeStamps`: 1 axis, accelerations up to 3 on both sides of the threshold, samples 1 or 2 units apart, the clock set at any time or never | `TrackerTypeOK`, `EventWhileOpen`, `EventsChain`, `MotionsPlausible`, `WireRoundTrip`, `StoredInTimeOrder`, `GapsKept`, `ImplementsContract` |
| `dashboard` | 2 devices, 2 labels, 1 event, 4 requests, failing queries and lost responses | `DashboardTypeOK`, `Referential`, `NoEventMissed`, `ShownWasStored`, `DeviceLabelsResolve`, `PendingIsAwaited` |
| `dashboard_deleted` | the same | **violated:** `DeletedForever` |

The five violations are disagreements between the code and what a line of the
repository says; `PROJECT.json` quotes the lines:

1. a chunk that UDP delivers after the `WavEnd` of its recording opens a new writer
   and truncates the finished file;
2. the writer starts at sequence number 0 and accepts only greater ones, the client
   numbers from 0: the first chunk of every recording is dropped, and a recording of
   one chunk is stored as an event with an empty file;
3. after a response timeout the next event is sent on the old connection and takes
   the late response for its own, so it is lost;
4. with the event queue full, the reconnect is dropped while `_connecting` stays
   raised: the event left in the queue finds the socket disconnected, calls for no
   connect, and is queued again for ever (with 5 slots and otherwise the same constants
   TLC finds no violation);
5. after a device was deleted the events collected by it stay in the store, where the
   calendar counts them, and an older listing brings the device back.

### Bounds, and why they are enough

* `MaxDatagrams`: 6 allow a spec, two recordings with their ends and a handshake; in
  `AudioServer` 7 allow recordings of two and three chunks. `MaxDeliveries` lets
  each datagram be repeated once on average. Chunks are one sample long there: the
  size of a chunk plays no part on the server.
* `RingCapacity` is one more than a chunk, so that it fills while a payload is
  processed. `SizeModulus` stands for the width of the size field.
* `QueueCapacity`: 5 is the least number at which `NeverOverflows` says something
  for two events; 2 is the overflow case. `Fragments = 2` is the least at which an
  event can be torn and two can be glued together.
* `MaxBreaks`, `MaxTimeouts`: one failure of each kind, with every recovery it calls
  for. In `Wifi` one failure already leads to several
  resets and broken connections; one event with two failures passes as well.
* `ErrorThreshold` is that of the code. With a threshold of 1 every reset would cause
  the error that asks for the next one. `MaxErrors` lets the compare-exchange fail
  once; `MaxCalls = 1` stops the connect loop from reporting while a callback waits,
  timers may still add one. `MaxUnserved`: one connection to a stopped server shows
  all there is.
* `MaxRequests = 4` lets two containers fetch the same list while a third request
  is made, or a listing, a creation and a deletion overlap.
* `MaxTime` bounds the tracker to two motions and the pause between them: three
  seconds of four units, so that events lie before, across and after the setting of
  the clock and the turn of a second. A byte has three bits: four of them still hold
  every coordinate with its sign.

Deadlock is not checked where the bounds end all activity (`CHECK_DEADLOCK FALSE`).

### Fairness

* `AudioServer`: weak fairness of `Handle` and `StoreEvent`; actix runs every message
  of a mailbox and polls every future that is ready. Nothing is assumed of the
  network, the client or the stopping of the system.
* `ClientShutdown`: weak fairness of the actor, of the waker thread and of `main()`;
  strong fairness of `Stops`, whose timer every poll looks at, however many datagrams
  keep the actor busy. Nothing is assumed of the microphone, the server, the user, or
  of what `select!` prefers: `InterruptEndsClient` names the waker it dropped as the
  one way not to end.
* `EventDelivery`: weak fairness of the callbacks of the device, which one thread
  runs in a loop (`dispatch_forever`), of `Connect`, whose loop retries until it
  succeeds, of `recv()` returning (it has a timeout), and of the actors. A backend
  whose EventServer was stopped is started again; a SIGHUP, which stops EventServer but
  neither HTTP nor the process, does not see to that by itself. Failures are bounded,
  not fair.
* `Wifi`: the same, but `Connect` is fair only while the wifi works, and nothing is
  assumed of the wifi except that its thread runs and its timers fire.

## 4. Proofs

Eight modules, proved for every value of the constants allowed by the `ASSUME`s of
the component.

* **NoiseGateProofs.** The enum and countdown are in range; the gate implements
  `GateContract` by the mapping from the countdown to the number of samples since the
  last loud one. `ThresholdComparesMagnitudes` and `DegenerateThresholdNeverCloses`
  say what the wrapping threshold test computes.
* **AudioStreamProofs.** `StreamFramed`: chunk numbers are consecutive and nothing
  follows the end of a recording. `Framing` is not inductive: it says nothing of the
  next datagram. `StreamInv` adds that the cursor (uuid, number) is ahead of all that
  was sent (`CursorAhead`) and that the number before it was sent (`CursorReached`).
* **AudioClientProofs.** Type correctness, i.e. the unchecked index of `record()`;
  no sample held back in silence; refinement of `AudioStream`. `ClientFramed` is
  `StreamFramed` carried over by the refinement. `ClientInv` adds that
  `first_payload_ignored` is set once a transmission has ended and that no payload is
  processed after `finished()`: without them `NoSampleStranded` is not inductive.
  Of the threads around the actor: every step of the threaded client is a step of
  `AudioClient` or none, so what was proved of the handlers holds with all threads
  (`ShutdownFramed`). `StreamPolledAgain` needs two more facts: no poll is under way
  while `main()` joins the waker thread, and a waker is dropped only with that thread.
  `SamplesConserved` is about the number of samples in all datagrams sent. `SamplesIn`
  defines that number as a recursive function over the positions of the sequence, of
  which nothing can be proved by induction here. `Counted(s, n)` says instead that the
  equation of that function has a solution and that every solution ends at `n`
  (`Totals`): then `SamplesIn` is `n` (`CountedIs`), and one datagram more is one step
  of the solution (`CountedAppend`). A chunk adds its size, a spec or an end adds
  nothing, and a flush empties the buffer into the chunk it sends
  (`ConservedInv`). The gate contract and all invariants of the actor hold in the
  threaded client as well (`ShutdownSafe`, `ShutdownRefines`).
* **AudioServerProofs.** For any number of clients and datagrams, with loss,
  repetition, reordering, failing disk and database, deletions and restarts: types,
  `StoredInOrder`, `WriterHasFile`, `OnlyRegisteredStored`. They rest on `ServerInv`:
  the mailbox of a handler holds only datagrams of its client, and no whole chunk of an
  open file is ahead of the number of its writer (`WritersFit`), without which a chunk
  that is accepted could still be out of order. That no event of a deleted device is in
  the table is inductive by itself (`RowsOfDevices`): the insertion looks at the key and
  the deletion cascades, while the handler, which looked the device up long ago, goes on.
  `ClosedWhenDown` is proved for a disk that does not fail (`DiskOutcomes = {TRUE}`;
  where finalizing fails there is no event whatever the code does) and needs
  `Lifecycle`: a look-up is made only for a client without a handler, none is under
  way once AudioServer stopped, and no handler outlives the system. The first two are
  part of `AudioTypeOK`: they are what `.wait(ctx)` is for.
  `OneEventPerRecording` and the action property `RecordingKept` are proved for a
  network that does not reorder (`Reordering = FALSE`; with reordering
  `server_late_chunk` shows `RecordingKept` to be false) and any number of restarts. A
  recording that is in progress at a restart goes on under the same uuid, so it may be
  announced once more by the new process, and its first file is truncated: the
  properties say exactly that, at most one event more per restart and finished files
  kept as long as there was none. `OrderInv` is the reason they hold: a recording that
  was finalized before any restart, or announced more often than there were restarts,
  is over (`ClosedIsOver`), i.e. nothing of it is left in the client, on the network or
  in the mailbox; and what is being written was announced at most once per restart
  (`OpenUnannounced`). That in turn needs the framing proved in
  `AudioStreamProofs`, used here for every client by `INSTANCE`.
  `ClientsAreStreams` joins the two halves of the sound path: each client in
  `AudioServer` behaves as `AudioStream`, which is what `ClientImplementsStream` and
  `ShutdownRefines` show of the program on the other side.
* **PositionTrackerProofs.** Types, `EventWhileOpen`, `EventsChain` and the gate
  contract. `EventsChain` speaks of neighbours only; `ChainLinked` ties the last event
  sent to the position and to the event being recorded.
  Behind the codec: `StoredInTimeOrder`, `GapsKept` and `WireRoundTrip`, for every
  width of a byte, number of axes and unit of time. `StampInv` says of all events sent
  what `EventsChain` says of neighbours (`InTime`), and that each buffer is the encoding
  of its event by a clock that was unset or the one now set (`Stamped`). The rest is
  arithmetic: the lemmas `Little4Value`, `Little8Value`, `WordsConcat` and `Fields` say
  which number `Decode` finds at each offset, `SecsBound` and `NsecsBound` that seconds
  and nanoseconds fit their fields. `WireIsLossless` is conditional on coordinates that
  fit an `int32_t` (`CoordinatesFit`): the integers of the model do not wrap, those of
  the tracker would. `StampedIsTracker` carries the results about the tracker over.
  `TrackerMotionsPlausible` bounds every motion by what the readings of its own time
  can cause: velocity by acceleration times time, distance by acceleration times the
  square of the time. `RangeInv` is inductive because the velocity is set back when a
  motion starts, because C++ division rounds towards zero, never away from it
  (`QuotientBound`), and because the sums of squares of the parts of a time are below
  the square of the whole. The same invariant says when the integers of the model are
  those of the program: `VelocityFits` and `WireIsLosslessInRange`, which replaces
  the condition `CoordinatesFit` by one on the constants. For the values of the code
  (4000 milli-g on an axis once the bias is subtracted, milliseconds, a scale of
  100000) the first holds for almost 9 minutes and the second for 231 seconds of the
  strongest acceleration the sensor reports, without a change of direction. The
  time of these two theorems counts from the start of the device; `MotionsPlausible`
  bounds the velocity of a motion by the time of that motion alone.
* **EventDeliveryProofs.** `ReconnectPending`, `NothingForgotten`, `FreedOnce` for any
  number of events, slots and failures. `DeviceInv` is their conjunction with the
  types of the device's side and `HeldProduced` (only events of the tracker are held);
  each is needed by the others: an event is queued again only because its buffer was
  not deleted. `BoundedConnects` needs the account `ConnectsCounted` of the
  connects that are queued, delayed and running against `_connecting`; with it and the
  cardinality of the events held, `QueueNeverOverflows` shows that three slots more
  than there are events are enough, and `EnoughSlotsForgetNothing` drops the condition
  of `NothingForgotten`. `AcksAreOwn` is `AckMeansAccepted` for events in one piece and
  responses in time (`Fragments = 1`, `MaxTimeouts = 0`, the instance of `delivery_live`;
  with a late response `delivery_stale_ack` shows it to be false). `AnswerIsOwn` is what it needs:
  the connection of the socket is quiet, or carries the event in hand or its answer.
* **WifiProofs.** `WifiBeingRepaired`, strengthened by the fact that the time is asked
  for only over a wifi that is up; and all of `EventDeliveryProofs` over a wifi that
  breaks and is reset at any time: a step of `Wifi` is a step of `EventDelivery`, or one
  that the event queue does not see and that at most breaks a connection.
* **DashboardProofs.** All invariants of `Dashboard`, for any devices, labels, events
  and requests. `Referential` is inductive as it stands: each handler checks the key in
  the transaction that writes the row, and the tab reaches the tables only through its
  requests. `PendingIsAwaited` needs the types of the requests (`TabInv`). For
  `DeviceLabelsResolve` a label id must mean the same device in the tables, in every
  request under way and in the stores (`Agreement`), which holds because ids are drawn
  once. `NoEventMissed` and `ShownWasStored` need `EventInv`, which follows an event
  from the insertion through the outbox to the store.

Only model-checked, because they are out of the prover's reach: the properties that
need fairness, `EndedRecordingStored`, `EveryEventSent`, `RepairsEnd` and
`InterruptEndsClient`. Every invariant and every action property of a passing run is
stated by a theorem, with the conditions named above.

## 5. Not modelled

* `util/day` and `util/rule` of the frontend: pure functions of dates and rules with
  no state, apart from everything else modelled here.
* The payload of samples, the byte layout of datagrams, rules of labels: data no
  property tells apart. Of the events of `bug_event.h` the visitor for Luminosity,
  which nothing calls.
* The drivers of the wifi module and of the sensor, the NTP client, mbed's event queue
  and actix themselves: external, modelled by how the code uses them.
* `events_labels` and `composed_events`: no code writes them; the matching of labels
  is a stub. `GET /v1/events/{id}` has no caller.
* Layout, theme and icons of the frontend, loggers, configuration, the vendor's board
  support package, database set-up.

## 6. Plan

Done, in this order: noise gate and its contract; stream and audio client; audio
server; event delivery; position tracker; backend and dashboard; the threads and the
shutdown of the audio client; the stop of EventServer; wifi; time stamps and encoding.

Next:

1. `Dashboard`: labels of events, a second tab.
2. `Calendar`, `Rules`: pure operators checked against reference definitions over a
   bounded range of dates and rules.
