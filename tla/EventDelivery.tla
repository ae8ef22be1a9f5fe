--------------------------- MODULE EventDelivery ---------------------------
(***************************************************************************)
(* Position and luminosity events on their way from a device to the        *)
(* database: TCPClient and BugEventClient of the firmware, the TCP         *)
(* connections, the EventHandler actor behind each connection, EventCodec  *)
(* and EventProcessor.                                                     *)
(*                                                                         *)
(* The firmware runs the callbacks of one mbed EventQueue on one thread.   *)
(* A callback is cut where it blocks: connect_socket_callback in its loop, *)
(* send_callback in recv().  The queue has a limited number of slots; the  *)
(* callback that runs keeps its own until it returns, and the result of    *)
(* EventQueue::call, which tells that there was no slot, is not looked at. *)
(*                                                                         *)
(* TCP keeps the order of what is sent on a connection but no boundaries:  *)
(* an event travels as Fragments pieces and the server reads any number of *)
(* pieces at once.  A connection the device has closed may still be read.  *)
(*                                                                         *)
(* EventServer may stop before the process does.  Its listener is leaked:  *)
(* the operating system still takes connections, which nobody serves.      *)
(***************************************************************************)
EXTENDS Naturals, Sequences, FiniteSets, Bags

CONSTANTS
    Events,         \* events the tracker produces
    QueueCapacity,  \* slots of the EventQueue
    Fragments,      \* pieces an event may arrive in
    AuthOutcomes,   \* answers to the look-up of the secret
    StoreOutcomes,  \* whether the insertion of an event may fail
    MaxBreaks,      \* bound: failures of the network, the backend or the database
    MaxTimeouts,    \* bound: responses that come after recv() has given up
    MaxUnserved     \* bound: connections from which nobody takes anything

ASSUME DeliveryAssumption ==
    /\ QueueCapacity \in Nat
    /\ Fragments \in Nat \ {0}
    /\ AuthOutcomes \subseteq {"found", "refused", "mailbox"}
    /\ StoreOutcomes \subseteq BOOLEAN
    /\ MaxBreaks \in Nat /\ MaxTimeouts \in Nat /\ MaxUnserved \in Nat

VARIABLES
    produced,   \* events given to BugEventClient::send
    queue,      \* callbacks that are due, in order
    timer,      \* whether the connect of the constructor is still to come
    current,    \* the callback that runs, or Idle
    waiting,    \* whether send_callback is in recv()
    connecting, \* TCPClient::_connecting
    freed,      \* events whose buffer was deleted: sent, for the device
    overflowed, \* history: EventQueue::call failed
    conn,       \* the connection of the socket, 0 if it is closed
    links,      \* all connections made, with their server side
    pending,    \* events given to EventProcessor and not yet stored
    rows,       \* events of the database
    accepted,   \* history: events ever given to EventProcessor
    listening,  \* whether EventServer takes connections
    breaks, timeouts   \* failures so far

device == <<produced, queue, timer, current, waiting, connecting, freed, overflowed, conn>>
backend == <<pending, rows, accepted, listening>>
faults == <<breaks, timeouts>>
vars == <<device, links, backend, faults>>

Idle == [cb |-> "idle"]
ConnectCb == [cb |-> "connect"]
SendCb(e) == [cb |-> "send", ev |-> e]

NoEvent == << >>

\* A new connection: what is on its way in each direction, and the EventHandler
\* that EventServer creates for it.
NewLink == [up |-> TRUE, wire |-> << >>, acks |-> 0,
            handler |-> IF listening THEN "new" ELSE "none", asking |-> NoEvent]

Unserved == {c \in DOMAIN links : links[c].handler = "none"}

Pieces(e) == [i \in 1 .. Fragments |-> <<e, i>>]

-----------------------------------------------------------------------------
(* EventQueue *)

Slots(q) == Len(q) + (IF timer THEN 1 ELSE 0) + (IF current # Idle THEN 1 ELSE 0)

Full(q) == Slots(q) >= QueueCapacity

Call(q, cb) == IF Full(q) THEN q ELSE Append(q, cb)

-----------------------------------------------------------------------------
(* The device *)

\* TCPClient::connected.
Connected == conn # 0 /\ links[conn].up

Init ==
    /\ produced = {}
    /\ queue = << >>
    /\ timer = TRUE
    /\ current = Idle
    /\ waiting = FALSE
    /\ connecting = FALSE
    /\ freed = {}
    /\ overflowed = FALSE
    /\ conn = 0
    /\ links = << >>
    /\ pending = EmptyBag
    /\ rows = EmptyBag
    /\ accepted = {}
    /\ listening = TRUE
    /\ breaks = 0
    /\ timeouts = 0

\* BugEventClient::send, called from the thread of the tracker.
Produce(e) ==
    /\ e \notin produced
    /\ produced' = produced \cup {e}
    /\ queue' = Call(queue, SendCb(e))
    /\ overflowed' = (overflowed \/ Full(queue))
    /\ UNCHANGED <<timer, current, waiting, connecting, freed, conn, links, backend, faults>>

\* The 3 s of the constructor are over.
TimerFires ==
    /\ timer
    /\ timer' = FALSE
    /\ queue' = Append(queue, ConnectCb)
    /\ UNCHANGED <<produced, current, waiting, connecting, freed, overflowed, conn, links,
                   backend, faults>>

\* dispatch_forever takes the next callback.  connect_socket_callback starts
\* by closing the socket.
Dispatch ==
    /\ current = Idle
    /\ queue # << >>
    /\ current' = Head(queue)
    /\ queue' = Tail(queue)
    /\ IF Head(queue) = ConnectCb
       THEN /\ links' = IF conn = 0 THEN links ELSE [links EXCEPT ![conn].up = FALSE]
            /\ conn' = 0
       ELSE UNCHANGED <<links, conn>>
    /\ UNCHANGED <<produced, timer, waiting, connecting, freed, overflowed, backend, faults>>

\* The flag is not cleared.
ConnectKeepsFlag ==
    /\ current = ConnectCb
    /\ listening \/ Cardinality(Unserved) < MaxUnserved
    /\ links' = Append(links, NewLink)
    /\ conn' = Len(links) + 1
    /\ current' = Idle
    /\ UNCHANGED <<produced, queue, timer, waiting, connecting, freed, overflowed, backend,
                   faults>>

\* The loop of connect_socket_callback succeeds, after any number of failures.
Connect ==
    /\ current = ConnectCb
    /\ listening \/ Cardinality(Unserved) < MaxUnserved
    /\ links' = Append(links, NewLink)
    /\ conn' = Len(links) + 1
    /\ connecting' = FALSE
    /\ current' = Idle
    /\ UNCHANGED <<produced, queue, timer, waiting, freed, overflowed, backend, faults>>

\* The results of connected() and sendto() are not looked at.
SendUnchecked ==
    /\ current.cb = "send"
    /\ ~waiting
    /\ links' = IF Connected THEN [links EXCEPT ![conn].wire = @ \o Pieces(current.ev)]
                ELSE links
    /\ waiting' = TRUE
    /\ UNCHANGED <<produced, queue, timer, current, connecting, freed, overflowed, conn,
                   backend, faults>>

\* connected() and sendto() succeed.
Send ==
    /\ current.cb = "send"
    /\ ~waiting
    /\ Connected
    /\ links' = [links EXCEPT ![conn].wire = @ \o Pieces(current.ev)]
    /\ waiting' = TRUE
    /\ UNCHANGED <<produced, queue, timer, current, connecting, freed, overflowed, conn,
                   backend, faults>>

\* After the buffer is deleted the code runs on into RETRY.
ResponseFallsThrough ==
    /\ waiting
    /\ Connected /\ links[conn].acks > 0
    /\ links' = [links EXCEPT ![conn].acks = @ - 1]
    /\ freed' = freed \cup {current.ev}
    /\ queue' = Call(queue, current)
    /\ waiting' = FALSE
    /\ current' = Idle
    /\ UNCHANGED <<produced, timer, connecting, overflowed, conn, backend, faults>>

\* handle_response() reads BUG_SERVER_RESPONSE_OK and the buffer is deleted.
Response ==
    /\ waiting
    /\ Connected /\ links[conn].acks > 0
    /\ links' = [links EXCEPT ![conn].acks = @ - 1]
    /\ freed' = freed \cup {current.ev}
    /\ waiting' = FALSE
    /\ current' = Idle
    /\ UNCHANGED <<produced, queue, timer, connecting, overflowed, conn, backend, faults>>

\* A connect is queued whether or not one is already on its way.
RetryAlwaysConnects ==
    LET q == Call(queue, ConnectCb) IN
    /\ queue' = Call(q, current)
    /\ overflowed' = (overflowed \/ Full(queue) \/ Full(q))
    /\ connecting' = TRUE
    /\ waiting' = FALSE
    /\ current' = Idle
    /\ UNCHANGED <<produced, timer, freed, conn, links, backend>>

\* The event is not queued again.
RetryDropsEvent ==
    LET q == IF connecting THEN queue ELSE Call(queue, ConnectCb) IN
    /\ queue' = q
    /\ overflowed' = (overflowed \/ (~connecting /\ Full(queue)))
    /\ connecting' = TRUE
    /\ waiting' = FALSE
    /\ current' = Idle
    /\ UNCHANGED <<produced, timer, freed, conn, links, backend>>

\* The label RETRY of send_callback.
Retry ==
    LET q == IF connecting THEN queue ELSE Call(queue, ConnectCb) IN
    /\ queue' = Call(q, current)
    /\ overflowed' = (overflowed \/ (~connecting /\ Full(queue)) \/ Full(q))
    /\ connecting' = TRUE
    /\ waiting' = FALSE
    /\ current' = Idle
    /\ UNCHANGED <<produced, timer, freed, conn, links, backend>>

\* The socket is closed or its connection broken: connected() is false, or
\* sendto() or recv() reports it.
LinkDown ==
    /\ current.cb = "send"
    /\ ~Connected
    /\ Retry
    /\ UNCHANGED faults

\* sendto() fails although the connection lives on, with nothing sent.  If it
\* reports a failure although the event has left, the callback does what it
\* does after Send and ResponseTimeout.
SendFails ==
    /\ current.cb = "send"
    /\ ~waiting
    /\ Connected
    /\ breaks < MaxBreaks
    /\ breaks' = breaks + 1
    /\ Retry
    /\ UNCHANGED timeouts

\* Whether the server will still answer what it was sent.
AnswerComing ==
    links[conn].handler # "none" /\ (links[conn].wire # << >> \/ links[conn].asking # NoEvent)

\* recv() gives up: the response is late, or there will be none.
ResponseTimeout ==
    /\ waiting
    /\ Connected /\ links[conn].acks = 0
    /\ AnswerComing => timeouts < MaxTimeouts
    /\ timeouts' = IF AnswerComing THEN timeouts + 1 ELSE timeouts
    /\ Retry
    /\ UNCHANGED breaks

-----------------------------------------------------------------------------
(* Failures *)

\* The connection breaks; what is on its way may still be read by the server.
Break ==
    /\ Connected
    /\ breaks < MaxBreaks
    /\ breaks' = breaks + 1
    /\ links' = [links EXCEPT ![conn].up = FALSE]
    /\ UNCHANGED <<device, backend, timeouts>>

\* A signal reaches EventServer; handlers, database and process live on.
EventServerStops ==
    /\ listening
    /\ breaks < MaxBreaks
    /\ breaks' = breaks + 1
    /\ listening' = FALSE
    /\ UNCHANGED <<device, links, pending, rows, accepted, timeouts>>

\* The backend is stopped and started: events not yet stored are gone.
BackendRestarts ==
    /\ listening => breaks < MaxBreaks
    /\ breaks' = IF listening THEN breaks + 1 ELSE breaks
    /\ listening' = TRUE
    /\ links' = [c \in DOMAIN links |->
                    [links[c] EXCEPT !.up = FALSE, !.handler = "gone", !.asking = NoEvent]]
    /\ pending' = EmptyBag
    /\ UNCHANGED <<device, rows, accepted, timeouts>>

-----------------------------------------------------------------------------
(* EventHandler *)

\* EventCodec::decode: the whole buffer is taken for one event and cleared.
Decodes(buf) ==
    Len(buf) >= Fragments /\ \A i \in 1 .. Fragments : buf[i] = <<buf[1][1], i>>

\* inner_handle() for a known device: the event goes to EventProcessor and the
\* response is written before it is stored.
Accept(e) ==
    /\ pending' = pending (+) SetToBag({e})
    /\ accepted' = accepted \cup {e}
    /\ UNCHANGED <<rows, listening>>

\* Bytes arrive at an EventHandler.
Read(c, k) ==
    /\ links[c].handler \in {"new", "known"}
    /\ links[c].asking = NoEvent
    /\ k \in 1 .. Len(links[c].wire)
    /\ LET buf == SubSeq(links[c].wire, 1, k)
           read == [links[c] EXCEPT !.wire = SubSeq(@, k + 1, Len(@))]
           answered == [read EXCEPT !.acks = @ + 1]
       IN  IF ~Decodes(buf)
           THEN /\ links' = [links EXCEPT ![c] = answered]
                /\ UNCHANGED backend
           ELSE IF links[c].handler = "new"
           THEN /\ links' = [links EXCEPT ![c] = [read EXCEPT !.asking = <<buf[1][1]>>]]
                /\ UNCHANGED backend
           ELSE /\ links' = [links EXCEPT ![c] = answered]
                /\ Accept(buf[1][1])
    /\ UNCHANGED <<device, faults>>

\* Counts an answer other than "found" as a failure.
Answers(answer) ==
    /\ answer # "found" => breaks < MaxBreaks
    /\ breaks' = IF answer = "found" THEN breaks ELSE breaks + 1

\* The response is sent without a look at the answer.
AuthenticateAcksAll(c) ==
    /\ links[c].asking # NoEvent
    /\ \E answer \in AuthOutcomes :
          /\ Answers(answer)
          /\ links' = [links EXCEPT ![c].asking = NoEvent, ![c].acks = @ + 1,
                            ![c].handler = IF answer = "found" THEN "known" ELSE @]
          /\ IF answer = "found" THEN Accept(links[c].asking[1]) ELSE UNCHANGED backend
    /\ UNCHANGED <<device, timeouts>>

\* authenticate(), then inner_handle() with the event that was read before the
\* look-up.  A secret that is not found, or a failing query, stops the handler
\* and closes the connection; a mailbox error is only reported.
Authenticate(c) ==
    /\ links[c].asking # NoEvent
    /\ \E answer \in AuthOutcomes :
          /\ Answers(answer)
          /\ \/ /\ answer = "found"
                /\ links' = [links EXCEPT ![c].asking = NoEvent,
                                            ![c].handler = "known", ![c].acks = @ + 1]
                /\ Accept(links[c].asking[1])
             \/ /\ answer = "refused"
                /\ links' = [links EXCEPT ![c].asking = NoEvent,
                                            ![c].handler = "gone", ![c].up = FALSE]
                /\ UNCHANGED backend
             \/ /\ answer = "mailbox"
                /\ links' = [links EXCEPT ![c].asking = NoEvent]
                /\ UNCHANGED backend
    /\ UNCHANGED <<device, timeouts>>

\* EventProcessor: the insertion of an event; if it fails the event is dropped.
Store(e) ==
    /\ BagIn(e, pending)
    /\ pending' = pending (-) SetToBag({e})
    /\ \E ok \in StoreOutcomes : rows' = IF ok THEN rows (+) SetToBag({e}) ELSE rows
    /\ UNCHANGED <<accepted, listening, device, links, faults>>

-----------------------------------------------------------------------------

Reads == \E c \in DOMAIN links : \E k \in 1 .. Len(links[c].wire) : Read(c, k)

Authenticates == \E c \in DOMAIN links : Authenticate(c)

Next ==
    \/ \E e \in Events : Produce(e) \/ Store(e)
    \/ TimerFires
    \/ Dispatch
    \/ Connect
    \/ Send
    \/ Response
    \/ LinkDown
    \/ SendFails
    \/ ResponseTimeout
    \/ Break
    \/ EventServerStops
    \/ BackendRestarts
    \/ Reads
    \/ Authenticates

Spec == Init /\ [][Next]_vars

\* The thread of the event queue and the actors keep running, the network
\* comes back (Connect), recv() returns with a response or with a timeout, and
\* a backend whose EventServer was stopped is started again.
Fairness ==
    /\ WF_vars(TimerFires)
    /\ WF_vars(Dispatch)
    /\ WF_vars(Connect)
    /\ WF_vars(Send)
    /\ WF_vars(Response)
    /\ WF_vars(LinkDown)
    /\ WF_vars(ResponseTimeout)
    /\ WF_vars(Reads)
    /\ WF_vars(Authenticates)
    /\ WF_vars(~listening /\ BackendRestarts)

FairSpec == Spec /\ Fairness

-----------------------------------------------------------------------------
(* Properties *)

Callbacks == {ConnectCb} \cup {SendCb(e) : e \in Events}

Links == [up : BOOLEAN, wire : Seq(Events \X (1 .. Fragments)), acks : Nat,
          handler : {"none", "new", "known", "gone"},
          asking : {NoEvent} \cup {<<e>> : e \in Events}]

DeliveryTypeOK ==
    /\ produced \subseteq Events
    /\ queue \in Seq(Callbacks)
    /\ current \in Callbacks \cup {Idle}
    /\ timer \in BOOLEAN /\ waiting \in BOOLEAN
    /\ connecting \in BOOLEAN /\ overflowed \in BOOLEAN /\ listening \in BOOLEAN
    /\ freed \subseteq produced
    /\ conn \in 0 .. Len(links)
    /\ waiting => current.cb = "send" /\ conn # 0
    /\ links \in Seq(Links)
    /\ accepted \subseteq Events

Queued(q, cb) == \E i \in 1 .. Len(q) : q[i] = cb

\* A callback that was called and has not returned.
Held(cb) == Queued(queue, cb) \/ current = cb

\* Unless the event queue overflowed, a raised _connecting means that a connect
\* is on its way: without one, every later failure would leave the reconnect to
\* a callback that does not exist.
ReconnectPending == ~overflowed /\ connecting => Held(ConnectCb)

\* Unless the event queue overflowed, an event is held by the queue until its
\* buffer is deleted, through any number of retries.
NothingForgotten ==
    ~overflowed => \A e \in produced : Held(SendCb(e)) \/ e \in freed

\* An event is never queued twice, and is not queued any more once its buffer
\* was deleted: send_callback never sees, or deletes, a deleted buffer.
NoSendTwice(q) ==
    \A i, j \in 1 .. Len(q) : i # j /\ q[i] = q[j] => q[i] = ConnectCb

FreedOnce ==
    /\ NoSendTwice(queue)
    /\ current.cb = "send" => ~Queued(queue, current)
    /\ \A e \in freed : ~Held(SendCb(e))

\* However many events fail, at most two connects are under way: the one of
\* the constructor and one for _connecting.
ConnectsAt(q) == {i \in 1 .. Len(q) : q[i] = ConnectCb}

Connects == Cardinality(ConnectsAt(queue))
            + (IF timer THEN 1 ELSE 0) + (IF current = ConnectCb THEN 1 ELSE 0)

BoundedConnects == Connects <= 2

\* With a slot for every event, the two connects and the callback that is
\* queued again while it runs, the event queue never overflows.
NeverOverflows == QueueCapacity >= Cardinality(Events) + 3 => ~overflowed

\* An event whose buffer the device deletes was given to EventProcessor.
AckMeansAccepted == freed \subseteq accepted

\* Every event is delivered in the end, when the failures end.
EveryEventSent == \A e \in Events : e \in produced ~> e \in freed

\* "socket disconnected, connect again" (client_tcp.h:97): an event that finds
\* the socket disconnected is followed by a connect that succeeds.
ConnectsAgain == current.cb = "send" /\ ~Connected ~> Connected
=============================================================================
