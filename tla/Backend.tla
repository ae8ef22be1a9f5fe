------------------------------ MODULE Backend ------------------------------
(***************************************************************************)
(* The web half of the backend: the HTTP routes with the Database actor    *)
(* behind them, EventProcessor, and WsManager with the web socket of one   *)
(* browser tab.                                                            *)
(*                                                                         *)
(* Each message to Database is one SQL statement or one transaction on a   *)
(* connection of its own, hence one step; EventProcessor awaits Database   *)
(* twice, hence three steps per event.  The uuid that the database will    *)
(* draw for a new row is part of the request.                              *)
(*                                                                         *)
(* No code inserts into events_labels (match_event_labels is a stub), so   *)
(* the labels of a stored event are always empty and the table is left out.*)
(* With it goes the second query of a list of events, which reads their    *)
(* labels outside any transaction.                                         *)
(***************************************************************************)
EXTENDS Naturals, Sequences, FiniteSets

CONSTANTS
    Devices,    \* ids of devices
    Existing,   \* the devices that exist at the start
    LabelIds,   \* ids of labels
    Names,      \* names of labels
    Events,     \* ids of events
    DeviceOf,   \* the device an event was reported by
    Failures    \* ways a request or a query may fail: "query", "response"

ASSUME BackendAssumption ==
    /\ Existing \subseteq Devices
    /\ DeviceOf \in [Events -> Devices]
    /\ Failures \subseteq {"query", "response"}

VARIABLES
    devices,      \* table devices
    credentials,  \* table device_credentials: the device of each row
    labels,       \* table labels
    events,       \* table events
    inserted,     \* history: events ever inserted
    requests,     \* HTTP requests of the tab that are under way
    jobs,         \* the future of EventProcessor for each event
    socket,       \* the web socket: "connecting", "open" or "closed"
    outbox,       \* events written to the socket and not yet received
    covered       \* history: a listing was made with the socket registered

tables == <<devices, credentials, labels, events, inserted>>
push == <<jobs, socket, outbox>>
backendVars == <<tables, requests, push, covered>>

Label == [id : LabelIds, name : Names, device : Devices]

-----------------------------------------------------------------------------
(* Requests *)

Request(op, arg) == [op |-> op, arg |-> arg, state |-> "sent", status |-> 0, data |-> {}]

Sent(i, op) == requests[i].op = op /\ requests[i].state = "sent"

Answered(r, code, data) == [r EXCEPT !.state = "answered", !.status = code, !.data = data]

\* The response to request i.  A response may be lost after the work was done.
Respond(i, status, data) ==
    \E code \in {status} \cup (IF "response" \in Failures THEN {500} ELSE {}) :
        requests' = [requests EXCEPT ![i] = Answered(@, code, IF code = 200 THEN data ELSE {})]

\* An error of the pool or of the database: nothing was changed.
Fail(i) ==
    /\ "query" \in Failures
    /\ requests' = [requests EXCEPT ![i] = Answered(@, 500, {})]
    /\ UNCHANGED tables

-----------------------------------------------------------------------------
(* Database and the routes that send to it *)

\* The tables hold what earlier use may have left in them.
BackendInit ==
    /\ devices = Existing
    /\ credentials = Existing
    /\ labels \in {{}} \cup {{l} : l \in {k \in Label : k.device \in Existing}}
    /\ events \in SUBSET {e \in Events : DeviceOf[e] \in Existing}
    /\ inserted = events
    /\ requests = << >>
    /\ jobs = [e \in Events |-> IF e \in events THEN "done" ELSE "none"]
    /\ socket = "connecting"
    /\ outbox = << >>
    /\ covered = FALSE

\* The second insertion fails and the first one is kept.
InsertDeviceInParts(i) ==
    /\ Sent(i, "createDevice")
    /\ devices' = devices \cup {requests[i].arg}
    /\ \/ /\ credentials' = credentials \cup {requests[i].arg}
          /\ Respond(i, 200, {requests[i].arg})
       \/ /\ UNCHANGED credentials
          /\ Respond(i, 500, {})
    /\ UNCHANGED <<labels, events, inserted, push, covered>>

\* POST /v1/devices: device and credential in one transaction.
InsertDevice(i) ==
    /\ Sent(i, "createDevice")
    /\ \/ /\ devices' = devices \cup {requests[i].arg}
          /\ credentials' = credentials \cup {requests[i].arg}
          /\ UNCHANGED <<labels, events, inserted>>
          /\ Respond(i, 200, {requests[i].arg})
       \/ Fail(i)
    /\ UNCHANGED <<push, covered>>

\* DELETE /v1/devices/{id}; what refers to the device goes with it.
DeleteDevice(i) ==
    /\ Sent(i, "deleteDevice")
    /\ LET d == requests[i].arg IN
       \/ /\ d \in devices
          /\ devices' = devices \ {d}
          /\ credentials' = credentials \ {d}
          /\ labels' = {l \in labels : l.device # d}
          /\ events' = {e \in events : DeviceOf[e] # d}
          /\ UNCHANGED inserted
          /\ Respond(i, 200, {})
       \/ /\ d \notin devices
          /\ UNCHANGED tables
          /\ Respond(i, 404, {})
       \/ Fail(i)
    /\ UNCHANGED <<push, covered>>

\* GET /v1/devices.
ListDevices(i) ==
    /\ Sent(i, "fetchDevices")
    /\ \/ Respond(i, 200, devices) /\ UNCHANGED tables
       \/ Fail(i)
    /\ UNCHANGED <<push, covered>>

\* The foreign key is not declared.
InsertLabelUnchecked(i) ==
    /\ Sent(i, "createLabel")
    /\ labels' = labels \cup {requests[i].arg.label}
    /\ Respond(i, 200, {requests[i].arg.label})
    /\ UNCHANGED <<devices, credentials, events, inserted, push, covered>>

\* POST /v1/labels: the foreign key and UNIQUE(event_kind, name, device_id).
InsertLabel(i) ==
    /\ Sent(i, "createLabel")
    /\ LET l == requests[i].arg.label
           fits == /\ l.device \in devices
                   /\ \A k \in labels : k.device # l.device \/ k.name # l.name
       IN  \/ /\ fits
              /\ labels' = labels \cup {l}
              /\ UNCHANGED <<devices, credentials, events, inserted>>
              /\ Respond(i, 200, {l})
           \/ ~fits /\ UNCHANGED tables /\ Respond(i, 500, {})
           \/ Fail(i)
    /\ UNCHANGED <<push, covered>>

\* DELETE /v1/labels/{id}.
DeleteLabel(i) ==
    /\ Sent(i, "deleteLabel")
    /\ LET gone == {l \in labels : l.id = requests[i].arg.id} IN
       \/ /\ gone # {}
          /\ labels' = labels \ gone
          /\ UNCHANGED <<devices, credentials, events, inserted>>
          /\ Respond(i, 200, {})
       \/ gone = {} /\ UNCHANGED tables /\ Respond(i, 404, {})
       \/ Fail(i)
    /\ UNCHANGED <<push, covered>>

\* GET /v1/labels.
ListLabels(i) ==
    /\ Sent(i, "fetchLabels")
    /\ \/ Respond(i, 200, labels) /\ UNCHANGED tables
       \/ Fail(i)
    /\ UNCHANGED <<push, covered>>

\* GET /v1/events.
ListEvents(i) ==
    /\ Sent(i, "fetchEvents")
    /\ \/ Respond(i, 200, events) /\ UNCHANGED tables
       \/ Fail(i)
    /\ covered' = (covered \/ (socket = "open" /\ requests'[i].status = 200))
    /\ UNCHANGED push

DeviceRoutes(i) == InsertDevice(i) \/ DeleteDevice(i) \/ ListDevices(i)
LabelRoutes(i) == InsertLabel(i) \/ DeleteLabel(i) \/ ListLabels(i)
EventRoutes(i) == ListEvents(i)

Serve(i) == DeviceRoutes(i) \/ LabelRoutes(i) \/ EventRoutes(i)

-----------------------------------------------------------------------------
(* EventProcessor *)

\* A NewEvent of a handler that has looked its device up.  The device may be
\* deleted before the next step.
NewEvent(e) ==
    /\ jobs[e] = "none"
    /\ DeviceOf[e] \in credentials
    /\ jobs' = [jobs EXCEPT ![e] = "select"]
    /\ UNCHANGED <<tables, requests, socket, outbox, covered>>

\* The labels are read first; without them the event is given up.
SelectLabels(e) ==
    /\ jobs[e] = "select"
    /\ \/ jobs' = [jobs EXCEPT ![e] = "insert"]
       \/ "query" \in Failures /\ jobs' = [jobs EXCEPT ![e] = "dropped"]
    /\ UNCHANGED <<tables, requests, socket, outbox, covered>>

\* The result of the insertion is not looked at.
InsertEventUnchecked(e) ==
    /\ jobs[e] = "insert"
    /\ events' = IF DeviceOf[e] \in devices THEN events \cup {e} ELSE events
    /\ inserted' = IF DeviceOf[e] \in devices THEN inserted \cup {e} ELSE inserted
    /\ jobs' = [jobs EXCEPT ![e] = "send"]
    /\ UNCHANGED <<devices, credentials, labels, requests, socket, outbox, covered>>

\* The insertion, refused by the foreign key if the device is gone.
InsertEvent(e) ==
    /\ jobs[e] = "insert"
    /\ \/ /\ DeviceOf[e] \in devices
          /\ events' = events \cup {e}
          /\ inserted' = inserted \cup {e}
          /\ jobs' = [jobs EXCEPT ![e] = "send"]
       \/ /\ DeviceOf[e] \notin devices \/ "query" \in Failures
          /\ jobs' = [jobs EXCEPT ![e] = "dropped"]
          /\ UNCHANGED <<events, inserted>>
    /\ UNCHANGED <<devices, credentials, labels, requests, socket, outbox, covered>>

\* WsManager::send_event to every registered session.
SendEvent(e) ==
    /\ jobs[e] = "send"
    /\ jobs' = [jobs EXCEPT ![e] = "done"]
    /\ outbox' = IF socket = "open" THEN Append(outbox, e) ELSE outbox
    /\ UNCHANGED <<tables, requests, socket, covered>>

\* GET /ws/event: the session is started and registered.
Register ==
    /\ socket = "connecting"
    /\ socket' = "open"
    /\ UNCHANGED <<tables, requests, jobs, outbox, covered>>

\* The connection is lost; the address stays in the list of WsManager, where
\* messages to it go nowhere.
Disconnect ==
    /\ socket = "open"
    /\ socket' = "closed"
    /\ outbox' = << >>
    /\ UNCHANGED <<tables, requests, jobs, covered>>

Process(e) == NewEvent(e) \/ SelectLabels(e) \/ InsertEvent(e) \/ SendEvent(e)

BackendNext ==
    \/ \E i \in 1 .. Len(requests) : Serve(i)
    \/ \E e \in Events : Process(e)
    \/ Register
    \/ Disconnect

-----------------------------------------------------------------------------
(* Properties *)

\* The foreign keys: whatever deletions fall between the steps of a creation
\* or of EventProcessor, no row refers to a device that is gone, and every
\* device can authenticate.
Referential ==
    /\ credentials = devices
    /\ \A l \in labels : l.device \in devices
    /\ \A e \in events : DeviceOf[e] \in devices
=============================================================================
