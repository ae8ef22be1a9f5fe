----------------------------- MODULE Dashboard -----------------------------
(***************************************************************************)
(* The frontend in one browser tab: the redux stores of devices, labels and*)
(* events, the sagas that call the API, and the web socket for new events, *)
(* composed with the backend.                                              *)
(*                                                                         *)
(* The sagas are started with takeEvery, so any number of requests is under*)
(* way at a time, served and answered in any order.  From the arrival of a *)
(* response to the last put of its saga nothing else runs.                 *)
(*                                                                         *)
(* createEntityAdapter: addOne and addMany leave an entity that is already *)
(* there alone, updateMany and removeOne ignore one that is not.           *)
(***************************************************************************)
EXTENDS Backend, Functions, SequencesExt

CONSTANTS
    MaxRequests   \* bound: requests of one tab

ASSUME DashboardAssumption == MaxRequests \in Nat

VARIABLES
    deviceStore,  \* slice device: the label ids of each device
    labelStore,   \* slice label: the device of each label
    eventStore,   \* slice event: the label ids of each event
    status,       \* the status of each kind of request
    attached,     \* whether the event saga listens to the web socket
    made,         \* requests made so far
    drawn,        \* history: ids already given to a creation
    confirmed     \* history: devices whose deletion was confirmed to the user

stores == <<deviceStore, labelStore, eventStore>>
tab == <<stores, status, attached, made, drawn, confirmed>>
vars == <<backendVars, tab>>

Fetches == {"fetchDevices", "fetchLabels", "fetchEvents"}
Ops == Fetches \cup {"createDevice", "deleteDevice", "createLabel", "deleteLabel"}

EmptyStore == << >>

-----------------------------------------------------------------------------
(* Entity adapters *)

AddMany(store, more) ==
    [id \in DOMAIN store \cup DOMAIN more |-> IF id \in DOMAIN store THEN store[id] ELSE more[id]]

RemoveOne(store, id) == Restrict(store, DOMAIN store \ {id})

AddLabels(store, id, ids) ==
    IF id \in DOMAIN store THEN [store EXCEPT ![id] = @ \cup ids] ELSE store

\* Entities as a response brings them: processStrategy starts without labels.
Fresh(ids) == [id \in ids |-> {}]

\* The schema takes the device of a label from the wrong column.
ByIdKeepsId(ls) == [id \in {l.id : l \in ls} |-> id]

\* The labels of a response, by id.
ById(ls) == [id \in {l.id : l \in ls} |-> (CHOOSE l \in ls : l.id = id).device]

-----------------------------------------------------------------------------
(* Dispatching a request *)

Room(n) == made + n <= MaxRequests

\* The reducers set the status to pending, and a saga calls the API for each.
DispatchAll(reqs) ==
    /\ requests' = requests \o reqs
    /\ made' = made + Len(reqs)
    /\ status' = [op \in Ops |->
           IF \E k \in 1 .. Len(reqs) : reqs[k].op = op THEN "pending" ELSE status[op]]

Dispatch(op, arg) == DispatchAll(<<Request(op, arg)>>)

\* Containers are mounted in one commit and fetch what they show, unless it is
\* pending in the state they were all rendered with: two of them may fetch the
\* same.  The containers of events inject the event saga.  The page of a device
\* fetches what the table of devices does.
Containers == {"calendar", "accordion", "table"}

\* What a container c fetches if it is among those mounted.
Fetched(mounted, c, op) ==
    IF c \in mounted /\ status[op] # "pending" THEN <<Request(op, "all")>> ELSE << >>

Mount(mounted) ==
    LET reqs == Fetched(mounted, "calendar", "fetchEvents")
                \o Fetched(mounted, "accordion", "fetchEvents")
                \o Fetched(mounted, "accordion", "fetchDevices")
                \o Fetched(mounted, "table", "fetchDevices")
                \o Fetched(mounted, "table", "fetchLabels")
    IN  /\ Room(Len(reqs))
        /\ DispatchAll(reqs)
        /\ attached' = (attached \/ mounted \cap {"calendar", "accordion"} # {})
        /\ UNCHANGED <<tables, push, covered, stores, drawn, confirmed>>

\* A form is locked while its own request is pending; it stays open while a
\* list is fetched again.
Unlocked(op) == status[op] # "pending"

\* The rows with a button.  An event without its device cannot be drawn.
ShownDevices == DOMAIN deviceStore
ShownEvents == {e \in DOMAIN eventStore : DeviceOf[e] \in DOMAIN deviceStore}
ShownLabels(d) == deviceStore[d] \cap DOMAIN labelStore

CreateDevice(d) ==
    /\ Room(1) /\ Unlocked("createDevice")
    /\ d \in Devices \ (Existing \cup drawn)
    /\ drawn' = drawn \cup {d}
    /\ Dispatch("createDevice", d)
    /\ UNCHANGED <<tables, push, covered, stores, attached, confirmed>>

RemoveDevice(d) ==
    /\ Room(1) /\ Unlocked("deleteDevice")
    /\ d \in ShownDevices
    /\ Dispatch("deleteDevice", d)
    /\ UNCHANGED <<tables, push, covered, stores, attached, drawn, confirmed>>

\* A label is made from an event that is shown with its device.  The form keeps
\* the event it was opened with; should the device be deleted meanwhile, the
\* request would be refused by the foreign key, like a query that fails.
CreateLabel(e, id, name) ==
    /\ Room(1) /\ Unlocked("createLabel")
    /\ e \in ShownEvents
    /\ id \in LabelIds \ drawn
    /\ drawn' = drawn \cup {id}
    /\ Dispatch("createLabel",
           [event |-> e, label |-> [id |-> id, name |-> name, device |-> DeviceOf[e]]])
    /\ UNCHANGED <<tables, push, covered, stores, attached, confirmed>>

\* A label is deleted from the page of its device; table and form are replaced
\* by a skeleton while devices or labels are fetched.
RemoveLabel(d, id) ==
    /\ Room(1)
    /\ \A op \in {"deleteLabel", "fetchDevices", "fetchLabels"} : Unlocked(op)
    /\ d \in ShownDevices
    /\ id \in ShownLabels(d)
    /\ Dispatch("deleteLabel", [id |-> id, device |-> d])
    /\ UNCHANGED <<tables, push, covered, stores, attached, drawn, confirmed>>

-----------------------------------------------------------------------------
(* Responses *)

\* Request i was answered and is handled now.
Handled(i, op, outcome) ==
    /\ requests[i].op = op
    /\ requests[i].state = "answered"
    /\ (outcome = "resolved") = (requests[i].status = 200)
    /\ requests' = RemoveAt(requests, i)
    /\ status' = [status EXCEPT ![op] = outcome]
    /\ UNCHANGED <<tables, push, covered, attached, made, drawn>>

\* A failure leaves the form locked.
RejectedStaysPending(i, op) ==
    /\ requests[i].op = op /\ requests[i].state = "answered"
    /\ requests[i].status # 200
    /\ requests' = RemoveAt(requests, i)
    /\ UNCHANGED <<tables, push, covered, status, attached, made, drawn, stores, confirmed>>

Rejected(i, op) ==
    /\ Handled(i, op, "rejected")
    /\ UNCHANGED <<stores, confirmed>>

DevicesFetched(i) ==
    /\ Handled(i, "fetchDevices", "resolved")
    /\ deviceStore' = AddMany(deviceStore, Fresh(requests[i].data))
    /\ UNCHANGED <<labelStore, eventStore, confirmed>>

\* The list replaces what the socket has brought (setAll).
EventsFetchedSetAll(i) ==
    /\ Handled(i, "fetchEvents", "resolved")
    /\ eventStore' = Fresh(requests[i].data)
    /\ UNCHANGED <<deviceStore, labelStore, confirmed>>

EventsFetched(i) ==
    /\ Handled(i, "fetchEvents", "resolved")
    /\ eventStore' = AddMany(eventStore, Fresh(requests[i].data))
    /\ UNCHANGED <<deviceStore, labelStore, confirmed>>

\* fetchSuccess, then addDevicesLabels with the labels grouped by device.
LabelsFetched(i) ==
    /\ Handled(i, "fetchLabels", "resolved")
    /\ labelStore' = AddMany(labelStore, ById(requests[i].data))
    /\ deviceStore' = [d \in DOMAIN deviceStore |->
           deviceStore[d] \cup {l.id : l \in {k \in requests[i].data : k.device = d}}]
    /\ UNCHANGED <<eventStore, confirmed>>

DeviceCreated(i) ==
    /\ Handled(i, "createDevice", "resolved")
    /\ deviceStore' = AddMany(deviceStore, Fresh(requests[i].data))
    /\ UNCHANGED <<labelStore, eventStore, confirmed>>

DeviceDeleted(i) ==
    /\ Handled(i, "deleteDevice", "resolved")
    /\ deviceStore' = RemoveOne(deviceStore, requests[i].arg)
    /\ confirmed' = confirmed \cup {requests[i].arg}
    /\ UNCHANGED <<labelStore, eventStore>>

\* createSuccess, addDevicesLabels, addEventsLabels.
LabelCreated(i) ==
    /\ Handled(i, "createLabel", "resolved")
    /\ LET l == requests[i].arg.label IN
       /\ labelStore' = AddMany(labelStore, ById(requests[i].data))
       /\ deviceStore' = AddLabels(deviceStore, l.device, {l.id})
       /\ eventStore' = AddLabels(eventStore, requests[i].arg.event, {l.id})
    /\ UNCHANGED confirmed

\* The label stays listed with its device.
LabelDeletedAlone(i) ==
    /\ Handled(i, "deleteLabel", "resolved")
    /\ labelStore' = RemoveOne(labelStore, requests[i].arg.id)
    /\ UNCHANGED <<deviceStore, eventStore, confirmed>>

\* deleteDevicesLabels, then deleteSuccess.
LabelDeleted(i) ==
    /\ Handled(i, "deleteLabel", "resolved")
    /\ LET a == requests[i].arg IN
       /\ labelStore' = RemoveOne(labelStore, a.id)
       /\ deviceStore' = IF a.device \in DOMAIN deviceStore
                         THEN [deviceStore EXCEPT ![a.device] = @ \ {a.id}]
                         ELSE deviceStore
    /\ UNCHANGED <<eventStore, confirmed>>

Answer(i) ==
    \/ DevicesFetched(i) \/ EventsFetched(i) \/ LabelsFetched(i)
    \/ DeviceCreated(i) \/ DeviceDeleted(i)
    \/ LabelCreated(i) \/ LabelDeleted(i)
    \/ \E op \in Ops : Rejected(i, op)

-----------------------------------------------------------------------------
(* The web socket *)

\* onmessage and addEvent; a message before the saga listens is lost.
ReceiveEvent ==
    /\ outbox # << >>
    /\ outbox' = Tail(outbox)
    /\ eventStore' = IF attached THEN AddMany(eventStore, Fresh({Head(outbox)}))
                     ELSE eventStore
    /\ UNCHANGED <<tables, requests, jobs, socket, covered, deviceStore, labelStore,
                   status, attached, made, drawn, confirmed>>

-----------------------------------------------------------------------------

Init ==
    /\ BackendInit
    /\ deviceStore = EmptyStore
    /\ labelStore = EmptyStore
    /\ eventStore = EmptyStore
    /\ status = [op \in Ops |-> "idle"]
    /\ attached = FALSE
    /\ made = 0
    /\ drawn = {l.id : l \in labels}
    /\ confirmed = {}

User ==
    \/ \E mounted \in SUBSET Containers \ {{}} : Mount(mounted)
    \/ \E d \in Devices :
          \/ CreateDevice(d)
          \/ RemoveDevice(d)
          \/ \E id \in LabelIds : RemoveLabel(d, id)
    \/ \E e \in Events, id \in LabelIds, name \in Names : CreateLabel(e, id, name)

Next ==
    \/ User
    \/ \E i \in 1 .. Len(requests) : Answer(i)
    \/ ReceiveEvent
    \/ BackendNext /\ UNCHANGED tab

Spec == Init /\ [][Next]_vars

-----------------------------------------------------------------------------
(* Properties *)

IsStore(f, K, V) == DOMAIN f \subseteq K /\ \A x \in DOMAIN f : f[x] \in V

DashboardTypeOK ==
    /\ devices \subseteq Devices /\ credentials \subseteq Devices
    /\ labels \subseteq Label
    /\ events \subseteq inserted /\ inserted \subseteq Events
    /\ Len(requests) <= made /\ made <= MaxRequests
    /\ jobs \in [Events -> {"none", "select", "insert", "send", "done", "dropped"}]
    /\ socket \in {"connecting", "open", "closed"}
    /\ outbox \in Seq(Events)
    /\ IsStore(deviceStore, Devices, SUBSET LabelIds)
    /\ IsStore(labelStore, LabelIds, Devices)
    /\ IsStore(eventStore, Events, SUBSET LabelIds)
    /\ status \in [Ops -> {"idle", "pending", "resolved", "rejected"}]
    /\ confirmed \subseteq Devices

\* Once the events were listed with the socket registered, and while it is
\* open, no stored event is missed: it is shown, or it is on its way in the
\* socket, in a response, or in EventProcessor between insertion and send.
OnItsWay(e) ==
    \/ jobs[e] = "send"
    \/ \E k \in 1 .. Len(outbox) : outbox[k] = e
    \/ \E i \in 1 .. Len(requests) :
          requests[i].op = "fetchEvents" /\ e \in requests[i].data

NoEventMissed ==
    covered /\ socket = "open" =>
        \A e \in events : e \in DOMAIN eventStore \/ OnItsWay(e)

\* Only what the database accepted is ever shown, and an event is pushed once:
\* an event refused by the foreign key is not broadcast.
ShownWasStored ==
    /\ DOMAIN eventStore \subseteq inserted
    /\ \A k, m \in 1 .. Len(outbox) : k # m => outbox[k] # outbox[m]

\* The labels listed with a device are in the label store, through deletions
\* and fetches that overtake each other: LabelTable reads each of them.
DeviceLabelsResolve ==
    \A d \in DOMAIN deviceStore : \A id \in deviceStore[d] :
        id \in DOMAIN labelStore /\ labelStore[id] = d

\* A list or a form that waits for a response has a request under way: however
\* requests of one kind fail and overtake each other, no spinner and no locked
\* form is left behind once the last of them was answered.
PendingIsAwaited ==
    \A op \in Ops : status[op] = "pending" =>
        \E i \in 1 .. Len(requests) : requests[i].op = op

\* DeleteDevice.tsx: "will be deleted forever as well as events collected by
\* it".  What was confirmed as deleted is not shown any more.
DeletedForever ==
    \A d \in confirmed :
        /\ d \notin DOMAIN deviceStore
        /\ \A e \in DOMAIN eventStore : DeviceOf[e] # d
=============================================================================
