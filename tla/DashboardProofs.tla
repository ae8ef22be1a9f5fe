-------------------------- MODULE DashboardProofs --------------------------
(***************************************************************************)
(* The tables behind the dashboard, and the stores of the tab, for any     *)
(* number of devices, labels, events and requests.                         *)
(***************************************************************************)
EXTENDS Dashboard, SequenceTheorems, TLAPS

\* The Database handlers start from tables that are consistent.
LEMMA InitReferential == Init => Referential
<1> SUFFICES ASSUME Init PROVE Referential
  OBVIOUS
<1>1. devices = Existing /\ credentials = Existing
  BY DEF Init, BackendInit
<1>2. \A l \in labels : l.device \in devices
  BY <1>1 DEF Init, BackendInit
<1>3. \A e \in events : DeviceOf[e] \in devices
  BY <1>1 DEF Init, BackendInit
<1> QED
  BY <1>1, <1>2, <1>3 DEF Referential

\* What a handler that changes no table cannot break.
LEMMA TablesKept == Referential /\ UNCHANGED tables => Referential'
  BY DEF Referential, tables

\* The HTTP routes keep the foreign keys, whatever the requests ask for.
LEMMA ServeReferential ==
    ASSUME Referential, NEW i, Serve(i) PROVE Referential'
<1>1. CASE InsertDevice(i)
  BY <1>1, TablesKept DEF InsertDevice, Fail, Referential
<1>2. CASE DeleteDevice(i)
  BY <1>2, TablesKept DEF DeleteDevice, Fail, Referential
<1>3. CASE ListDevices(i)
  BY <1>3, TablesKept DEF ListDevices, Fail
<1>4. CASE InsertLabel(i)
  BY <1>4, TablesKept DEF InsertLabel, Fail, Referential
<1>5. CASE DeleteLabel(i)
  BY <1>5, TablesKept DEF DeleteLabel, Fail, Referential
<1>6. CASE ListLabels(i)
  BY <1>6, TablesKept DEF ListLabels, Fail
<1>7. CASE ListEvents(i)
  BY <1>7, TablesKept DEF ListEvents, Fail
<1> QED
  BY <1>1, <1>2, <1>3, <1>4, <1>5, <1>6, <1>7 DEF Serve, DeviceRoutes, LabelRoutes, EventRoutes

\* EventProcessor keeps them although the device may be deleted between the
\* look-up of its secret and the insertion.
LEMMA ProcessReferential ==
    ASSUME Referential, NEW e, Process(e) PROVE Referential'
<1>1. CASE NewEvent(e)
  BY <1>1, TablesKept DEF NewEvent
<1>2. CASE SelectLabels(e)
  BY <1>2, TablesKept DEF SelectLabels
<1>3. CASE InsertEvent(e)
  BY <1>3 DEF InsertEvent, Referential
<1>4. CASE SendEvent(e)
  BY <1>4, TablesKept DEF SendEvent
<1> QED
  BY <1>1, <1>2, <1>3, <1>4 DEF Process

\* The tab reaches the tables only through its requests.
LEMMA TabKeepsTables ==
    User \/ ReceiveEvent \/ (\E i \in 1 .. Len(requests) : Answer(i))
        => UNCHANGED tables
<1>1. User => UNCHANGED tables
  BY DEF User, Mount, CreateDevice, RemoveDevice, RemoveLabel, CreateLabel
<1>2. ReceiveEvent => UNCHANGED tables
  BY DEF ReceiveEvent
<1>3. ASSUME NEW i \in 1 .. Len(requests), Answer(i) PROVE UNCHANGED tables
  BY <1>3 DEF Answer, DevicesFetched, EventsFetched, LabelsFetched, DeviceCreated,
              DeviceDeleted, LabelCreated, LabelDeleted, Rejected, Handled
<1> QED
  BY <1>1, <1>2, <1>3

LEMMA NextReferential == Referential /\ [Next]_vars => Referential'
<1> SUFFICES ASSUME Referential, [Next]_vars PROVE Referential'
  OBVIOUS
<1>1. CASE User \/ ReceiveEvent \/ \E i \in 1 .. Len(requests) : Answer(i)
  BY <1>1, TabKeepsTables, TablesKept
<1>2. CASE \E i \in 1 .. Len(requests) : Serve(i)
  BY <1>2, ServeReferential
<1>3. CASE \E e \in Events : Process(e)
  BY <1>3, ProcessReferential
<1>4. CASE Register \/ Disconnect
  BY <1>4, TablesKept DEF Register, Disconnect
<1>5. CASE UNCHANGED vars
  BY <1>5, TablesKept DEF vars, backendVars
<1> QED
  BY <1>1, <1>2, <1>3, <1>4, <1>5 DEF Next, BackendNext

\* For every set of devices, labels and events and any number of requests: no
\* row of the database refers to a deleted device, and every device can be
\* authenticated, whatever InsertDevice, DeleteDevice and EventProcessor do in
\* between.
THEOREM DatabaseReferential == Spec => []Referential
  BY InitReferential, NextReferential, PTL DEF Spec
-----------------------------------------------------------------------------
(* The inductive invariant *)

\* What the requests of each kind ask for and are answered with.
ArgsOf(op) ==
    IF op \in Fetches THEN {"all"}
    ELSE IF op = "createLabel" THEN [event : Events, label : Label]
    ELSE IF op = "deleteLabel" THEN [id : LabelIds, device : Devices]
    ELSE Devices

DataOf(op) ==
    IF op \in {"fetchDevices", "createDevice"} THEN Devices
    ELSE IF op \in {"fetchLabels", "createLabel"} THEN Label
    ELSE IF op = "fetchEvents" THEN Events
    ELSE {}

RequestsOf(op) ==
    [op : {op}, arg : ArgsOf(op), state : {"sent", "answered"}, status : Nat,
     data : SUBSET DataOf(op)]

RequestSet == UNION {RequestsOf(op) : op \in Ops}

\* The request r is under way.
Under(r) == \E i \in 1 .. Len(requests) : requests[i] = r

\* A request brings data only with a success, and a list of events is only asked
\* for by a container that has started the event saga.
RequestOK(r) ==
    /\ r \in RequestSet
    /\ r.state = "sent" \/ r.status # 200 => r.data = {}
    /\ r.op = "createLabel" /\ r.status = 200 => r.data = {r.arg.label}
    /\ r.op = "fetchEvents" => attached /\ r.data \subseteq inserted

RequestsOK ==
    /\ requests \in Seq(RequestSet)
    /\ \A r : Under(r) => RequestOK(r)
    /\ made \in Nat /\ Len(requests) <= made /\ made <= MaxRequests

RowsOK ==
    /\ devices \subseteq Devices /\ credentials \subseteq Devices
    /\ labels \subseteq Label
    /\ events \subseteq inserted /\ inserted \subseteq Events

PushOK ==
    /\ jobs \in [Events -> {"none", "select", "insert", "send", "done", "dropped"}]
    /\ socket \in {"connecting", "open", "closed"}
    /\ outbox \in Seq(Events)

StoresOK ==
    /\ IsStore(deviceStore, Devices, SUBSET LabelIds)
    /\ IsStore(labelStore, LabelIds, Devices)
    /\ IsStore(eventStore, Events, SUBSET LabelIds)
    /\ status \in [Ops -> {"idle", "pending", "resolved", "rejected"}]
    /\ confirmed \subseteq Devices

TabInv == RequestsOK /\ RowsOK /\ PushOK /\ StoresOK

\* Where an event is: stored before it is sent, sent before it is shown.
EventInv ==
    /\ \A e \in Events : jobs[e] = "send" => e \in inserted
    /\ \A k \in 1 .. Len(outbox) : outbox[k] \in inserted /\ jobs[outbox[k]] = "done"
    /\ ShownWasStored
    /\ covered => attached /\ socket # "connecting"
    /\ NoEventMissed

\* A label id belongs to the device d, as the request r says, or as the tables,
\* the stores or some request say.
Says(r, id, d) ==
    \/ /\ r.op \in {"fetchLabels", "createLabel"}
       /\ \E l \in r.data : l.id = id /\ l.device = d
    \/ r.op = "createLabel" /\ r.arg.label.id = id /\ r.arg.label.device = d
    \/ r.op = "deleteLabel" /\ r.arg.id = id /\ r.arg.device = d

Belongs(id, d) ==
    \/ \E l \in labels : l.id = id /\ l.device = d
    \/ \E r : Under(r) /\ Says(r, id, d)
    \/ id \in DOMAIN labelStore /\ labelStore[id] = d

\* They all agree, because an id is drawn once.
Agreement ==
    /\ \A id \in LabelIds : \A d, e \in Devices : Belongs(id, d) /\ Belongs(id, e) => d = e
    /\ \A id \in LabelIds : \A d \in Devices : Belongs(id, d) => id \in drawn

LabelInv == Agreement /\ DeviceLabelsResolve

-----------------------------------------------------------------------------
(* Requests under way *)

LEMMA RequestFacts ==
    ASSUME NEW r \in RequestSet
    PROVE  /\ r.op \in Ops /\ r.arg \in ArgsOf(r.op) /\ r.state \in {"sent", "answered"}
           /\ r.status \in Nat /\ r.data \subseteq DataOf(r.op) /\ r \in RequestsOf(r.op)
  <1>1. PICK op \in Ops : r \in RequestsOf(op)
    BY DEF RequestSet
  <1> QED BY <1>1 DEF RequestsOf

LEMMA RequestIntro ==
    ASSUME NEW op \in Ops, NEW r \in RequestsOf(op)
    PROVE  r \in RequestSet
  BY DEF RequestSet

\* A request as a saga makes it.
LEMMA NewRequest ==
    ASSUME NEW op \in Ops, NEW a \in ArgsOf(op), NEW r, r = Request(op, a)
    PROVE  /\ r \in RequestSet /\ r.op = op /\ r.arg = a /\ r.state = "sent" /\ r.data = {}
           /\ r.status = 0
  <1>1. r \in RequestsOf(op)
    BY DEF RequestsOf, Request
  <1>2. r.op = op /\ r.arg = a /\ r.state = "sent" /\ r.data = {} /\ r.status = 0
    BY DEF Request
  <1> QED BY <1>1, <1>2, RequestIntro

\* A request with its response.
LEMMA AnsweredFacts ==
    ASSUME NEW q \in RequestSet, NEW code \in Nat, NEW D \in SUBSET DataOf(q.op),
           NEW r, r = Answered(q, code, D)
    PROVE  /\ r \in RequestSet /\ r.op = q.op /\ r.arg = q.arg /\ r.state = "answered"
           /\ r.status = code /\ r.data = D
  <1>1. q.op \in Ops /\ q \in RequestsOf(q.op)
    BY RequestFacts
  <1> DEFINE op == q.op
             A == ArgsOf(op)
             T == SUBSET DataOf(op)
  <1>2. q \in [op : {op}, arg : A, state : {"sent", "answered"}, status : Nat, data : T]
    BY <1>1 DEF RequestsOf
  <1>3. D \in T
    OBVIOUS
  <1> HIDE DEF A, T, op
  <1>4. /\ r \in [op : {op}, arg : A, state : {"sent", "answered"}, status : Nat, data : T]
        /\ r.op = q.op /\ r.arg = q.arg /\ r.state = "answered" /\ r.status = code /\ r.data = D
    BY <1>2, <1>3 DEF Answered
  <1>5. r \in RequestsOf(op) /\ op \in Ops
    BY <1>1, <1>4 DEF RequestsOf, A, T, op
  <1> QED BY <1>4, <1>5, RequestIntro

\* Requests are added at the end.
LEMMA FlightAdded ==
    ASSUME requests \in Seq(RequestSet), NEW reqs \in Seq(RequestSet),
           requests' = requests \o reqs
    PROVE  /\ requests' \in Seq(RequestSet) /\ Len(requests') = Len(requests) + Len(reqs)
           /\ \A r : Under(r) => Under(r)'
           /\ \A k \in 1 .. Len(reqs) : Under(reqs[k])'
           /\ \A r : Under(r)' => Under(r) \/ \E k \in 1 .. Len(reqs) : reqs[k] = r
  <1>1. /\ requests' \in Seq(RequestSet) /\ Len(requests') = Len(requests) + Len(reqs)
        /\ Len(requests) \in Nat /\ Len(reqs) \in Nat
        /\ \A i \in 1 .. Len(requests) + Len(reqs) :
              requests'[i] = IF i <= Len(requests) THEN requests[i] ELSE reqs[i - Len(requests)]
    BY ConcatProperties, LenProperties
  <1>2. \A i \in 1 .. Len(requests) : i \in 1 .. Len(requests') /\ requests'[i] = requests[i]
    BY <1>1
  <1>3. \A k \in 1 .. Len(reqs) : /\ Len(requests) + k \in 1 .. Len(requests')
                                  /\ requests'[Len(requests) + k] = reqs[k]
    BY <1>1
  <1>4. ASSUME NEW i \in 1 .. Len(requests')
        PROVE  \/ i \in 1 .. Len(requests) /\ requests'[i] = requests[i]
               \/ i - Len(requests) \in 1 .. Len(reqs) /\ requests'[i] = reqs[i - Len(requests)]
    BY <1>1
  <1>5. ASSUME NEW r, Under(r) PROVE Under(r)'
    BY <1>2, <1>5 DEF Under
  <1>6. ASSUME NEW k \in 1 .. Len(reqs) PROVE Under(reqs[k])'
    BY <1>3 DEF Under
  <1>7. ASSUME NEW r, Under(r)' PROVE Under(r) \/ \E k \in 1 .. Len(reqs) : reqs[k] = r
    <2>1. PICK i \in 1 .. Len(requests') : requests'[i] = r
      BY <1>7 DEF Under
    <2>2. CASE i \in 1 .. Len(requests) /\ requests'[i] = requests[i]
      BY <2>1, <2>2 DEF Under
    <2>3. CASE i - Len(requests) \in 1 .. Len(reqs) /\ requests'[i] = reqs[i - Len(requests)]
      BY <2>1, <2>3
    <2> QED BY <1>4, <2>2, <2>3
  <1> QED BY <1>1, <1>5, <1>6, <1>7

\* One request changes.
LEMMA FlightChanged ==
    ASSUME requests \in Seq(RequestSet), NEW i \in 1 .. Len(requests), NEW q \in RequestSet,
           requests' = [requests EXCEPT ![i] = q]
    PROVE  /\ requests' \in Seq(RequestSet) /\ Len(requests') = Len(requests)
           /\ Under(q)'
           /\ \A r : Under(r)' => Under(r) \/ r = q
           /\ \A r : Under(r) => Under(r)' \/ r = requests[i]
  <1>1. /\ requests' \in Seq(RequestSet) /\ Len(requests') = Len(requests)
        /\ requests'[i] = q /\ \A j \in 1 .. Len(requests) : j # i => requests'[j] = requests[j]
    <2>1. DOMAIN requests = 1 .. Len(requests)
      BY LenProperties
    <2> QED BY <2>1, ExceptSeq
  <1> QED BY <1>1 DEF Under

\* One request is removed.
LEMMA FlightRemoved ==
    ASSUME requests \in Seq(RequestSet), NEW i \in 1 .. Len(requests),
           requests' = RemoveAt(requests, i)
    PROVE  /\ requests' \in Seq(RequestSet) /\ Len(requests') = Len(requests) - 1
           /\ \A r : Under(r)' => Under(r)
           /\ \A r : Under(r) => Under(r)' \/ r = requests[i]
  <1> DEFINE n == Len(requests)
             a == SubSeq(requests, 1, i - 1)
             b == SubSeq(requests, i + 1, n)
  <1>1. n \in Nat /\ i \in 1 .. n /\ requests \in Seq(RequestSet)
    BY LenProperties
  <1>2. /\ a \in Seq(RequestSet) /\ Len(a) = i - 1
        /\ \A j \in 1 .. i - 1 : a[j] = requests[j]
    BY <1>1, SubSeqProperties
  <1>3. /\ b \in Seq(RequestSet) /\ Len(b) = n - i
        /\ \A j \in 1 .. n - i : b[j] = requests[i + j]
    <2>1. CASE i < n
      BY <1>1, <2>1, SubSeqProperties
    <2>2. CASE i = n
      BY <1>1, <2>2, SubSeqProperties
    <2> QED BY <1>1, <2>1, <2>2
  <1>4. requests' = a \o b
    BY DEF RemoveAt
  <1> HIDE DEF a, b, n
  <1>5. /\ requests' \in Seq(RequestSet) /\ Len(requests') = n - 1
        /\ \A j \in 1 .. n - 1 : requests'[j] = IF j <= i - 1 THEN a[j] ELSE b[j - (i - 1)]
    BY <1>1, <1>2, <1>3, <1>4, ConcatProperties
  <1>6. ASSUME NEW j \in 1 .. n - 1
        PROVE  \E k \in 1 .. n : requests'[j] = requests[k]
    <2>1. CASE j <= i - 1
      BY <1>1, <1>2, <1>5, <2>1
    <2>2. CASE j > i - 1
      <3>1. requests'[j] = b[j - (i - 1)] /\ j - (i - 1) \in 1 .. n - i
        BY <1>1, <1>5, <2>2
      <3>2. b[j - (i - 1)] = requests[i + (j - (i - 1))] /\ i + (j - (i - 1)) = j + 1
        BY <1>1, <1>3, <3>1
      <3> QED BY <1>1, <3>1, <3>2
    <2> QED BY <1>1, <2>1, <2>2
  <1>7. ASSUME NEW k \in 1 .. n, k # i
        PROVE  \E j \in 1 .. n - 1 : requests'[j] = requests[k]
    <2>1. CASE k < i
      <3>1. k \in 1 .. n - 1 /\ requests'[k] = a[k] /\ a[k] = requests[k]
        BY <1>1, <1>2, <1>5, <2>1
      <3> QED BY <3>1
    <2>2. CASE k > i
      <3>1. k - 1 \in 1 .. n - 1 /\ ~(k - 1 <= i - 1) /\ (k - 1) - (i - 1) = k - i
            /\ k - i \in 1 .. n - i /\ i + (k - i) = k
        BY <1>1, <2>2
      <3>2. requests'[k - 1] = b[k - i]
        BY <1>5, <3>1
      <3>3. b[k - i] = requests[k]
        BY <1>3, <3>1
      <3> QED BY <3>1, <3>2, <3>3
    <2> QED BY <1>1, <1>7, <2>1, <2>2
  <1>8. n = Len(requests) /\ n - 1 = Len(requests')
    BY <1>5 DEF n
  <1>9. \A r : Under(r)' => Under(r)
    BY <1>6, <1>8 DEF Under
  <1>10. \A r : Under(r) => Under(r)' \/ r = requests[i]
    <2> SUFFICES ASSUME NEW r, NEW k \in 1 .. n, k # i, requests[k] = r PROVE Under(r)'
      BY <1>8 DEF Under
    <2> QED BY <1>7, <1>8 DEF Under
  <1> QED BY <1>5, <1>8, <1>9, <1>10

-----------------------------------------------------------------------------
(* What the steps do to the requests *)

\* A new request: of a fresh label, or about one that is known.
NewOK(r) ==
    /\ r \in RequestSet /\ r.state = "sent" /\ r.data = {} /\ r.status = 0
    /\ r.op = "fetchEvents" => attached'
    /\ r.op = "createLabel" => r.arg.label.id \in drawn' /\ r.arg.label.id \notin drawn
    /\ r.op = "deleteLabel" => r.arg.id \in DOMAIN labelStore /\ labelStore[r.arg.id] = r.arg.device

\* The user dispatches reqs.
Made(reqs) ==
    /\ reqs \in Seq(RequestSet)
    /\ \A k \in 1 .. Len(reqs) : NewOK(reqs[k])
    /\ Len(reqs) = 1 \/ \A k \in 1 .. Len(reqs) : reqs[k].op \in Fetches
    /\ made + Len(reqs) <= MaxRequests
    /\ DispatchAll(reqs)
    /\ UNCHANGED <<tables, push, covered, stores, confirmed>>
    /\ attached => attached'
    /\ drawn \subseteq drawn'

LEMMA OneMade ==
    ASSUME NEW r, NewOK(r), made + 1 <= MaxRequests, DispatchAll(<<r>>),
           UNCHANGED <<tables, push, covered, stores, confirmed>>,
           attached => attached', drawn \subseteq drawn'
    PROVE  \E reqs : Made(reqs)
  <1>1. r \in RequestSet
    BY DEF NewOK
  <1>2. <<r>> \in Seq(RequestSet) /\ Len(<<r>>) = 1 /\ \A k \in 1 .. 1 : <<r>>[k] = r
    BY <1>1
  <1>3. Made(<<r>>)
    BY <1>2 DEF Made
  <1> QED BY <1>3

LEMMA MountMakes ==
    ASSUME TabInv, NEW mounted, Mount(mounted)
    PROVE  \E reqs : Made(reqs)
  <1> DEFINE Good == {op \in Fetches : op = "fetchEvents" => attached'}
             N == {Request(op, "all") : op \in Good}
             F(c, op) == Fetched(mounted, c, op)
             reqs == F("calendar", "fetchEvents") \o F("accordion", "fetchEvents")
                     \o F("accordion", "fetchDevices") \o F("table", "fetchDevices")
                     \o F("table", "fetchLabels")
  <1>1. /\ Room(Len(reqs)) /\ DispatchAll(reqs)
        /\ attached' = (attached \/ mounted \cap {"calendar", "accordion"} # {})
        /\ UNCHANGED <<tables, push, covered, stores, drawn, confirmed>>
    BY DEF Mount
  <1>2. ASSUME NEW c, NEW op \in Fetches, op = "fetchEvents" => c \in {"calendar", "accordion"}
        PROVE  F(c, op) \in Seq(N)
    <2>1. CASE c \in mounted /\ status[op] # "pending"
      <3>1. op \in Good
        BY <1>1, <1>2, <2>1
      <3>2. Request(op, "all") \in N
        BY <3>1
      <3> HIDE DEF N
      <3> QED BY <2>1, <3>2 DEF Fetched
    <2>2. CASE ~(c \in mounted /\ status[op] # "pending")
      BY <2>2, EmptySeq DEF Fetched
    <2> QED BY <2>1, <2>2
  <1>3. ASSUME NEW r \in N PROVE NewOK(r) /\ r.op \in Fetches
    <2>1. PICK op \in Fetches : r = Request(op, "all") /\ (op = "fetchEvents" => attached')
      OBVIOUS
    <2>2. op \in Ops /\ "all" \in ArgsOf(op)
      BY DEF Ops, ArgsOf
    <2>3. r \in RequestSet /\ r.op = op /\ r.state = "sent" /\ r.data = {} /\ r.status = 0
      BY <2>1, <2>2, NewRequest
    <2> QED BY <2>1, <2>3 DEF NewOK, Fetches
  <1> HIDE DEF N, F
  <1>4. reqs \in Seq(N)
    <2>1. /\ F("calendar", "fetchEvents") \in Seq(N) /\ F("accordion", "fetchEvents") \in Seq(N)
          /\ F("accordion", "fetchDevices") \in Seq(N) /\ F("table", "fetchDevices") \in Seq(N)
          /\ F("table", "fetchLabels") \in Seq(N)
      BY <1>2 DEF Fetches
    <2> QED BY <2>1, ConcatProperties
  <1> HIDE DEF reqs
  <1>5. Len(reqs) \in Nat /\ \A k \in 1 .. Len(reqs) : reqs[k] \in N
    BY <1>4, LenProperties, ElementOfSeq
  <1>6. N \subseteq RequestSet
    BY <1>3 DEF NewOK
  <1>7. reqs \in Seq(RequestSet)
    BY <1>4, <1>6, SeqMonotonic
  <1>8. Made(reqs)
    BY <1>1, <1>3, <1>5, <1>7 DEF Made, Room
  <1> QED BY <1>8

LEMMA UserMakes ==
    ASSUME TabInv, LabelInv, User
    PROVE  \E reqs : Made(reqs)
  <1>1. ASSUME NEW d \in Devices, CreateDevice(d) PROVE \E reqs : Made(reqs)
    <2> DEFINE r == Request("createDevice", d)
    <2>1. "createDevice" \in Ops /\ d \in ArgsOf("createDevice")
      BY DEF Ops, Fetches, ArgsOf
    <2>2. r \in RequestSet /\ r.op = "createDevice" /\ r.state = "sent" /\ r.data = {} /\ r.status = 0
      BY <2>1, NewRequest
    <2>3. DispatchAll(<<r>>)
      BY <1>1 DEF CreateDevice, Dispatch
    <2> HIDE DEF r
    <2>4. NewOK(r)
      BY <2>2 DEF NewOK
    <2> QED BY <1>1, <2>3, <2>4, OneMade DEF CreateDevice, Room
  <1>2. ASSUME NEW d \in Devices, RemoveDevice(d) PROVE \E reqs : Made(reqs)
    <2> DEFINE r == Request("deleteDevice", d)
    <2>1. "deleteDevice" \in Ops /\ d \in ArgsOf("deleteDevice")
      BY DEF Ops, Fetches, ArgsOf
    <2>2. r \in RequestSet /\ r.op = "deleteDevice" /\ r.state = "sent" /\ r.data = {} /\ r.status = 0
      BY <2>1, NewRequest
    <2>3. DispatchAll(<<r>>)
      BY <1>2 DEF RemoveDevice, Dispatch
    <2> HIDE DEF r
    <2>4. NewOK(r)
      BY <2>2 DEF NewOK
    <2> QED BY <1>2, <2>3, <2>4, OneMade DEF RemoveDevice, Room
  <1>3. ASSUME NEW d \in Devices, NEW id \in LabelIds, RemoveLabel(d, id)
        PROVE  \E reqs : Made(reqs)
    <2> DEFINE a == [id |-> id, device |-> d]
               r == Request("deleteLabel", a)
    <2>1. "deleteLabel" \in Ops /\ a \in ArgsOf("deleteLabel")
      BY DEF Ops, Fetches, ArgsOf
    <2>2. /\ r \in RequestSet /\ r.op = "deleteLabel" /\ r.state = "sent" /\ r.data = {} /\ r.status = 0
          /\ r.arg = a
      BY <2>1, NewRequest
    <2>3. DispatchAll(<<r>>)
      BY <1>3 DEF RemoveLabel, Dispatch
    <2>4. id \in DOMAIN labelStore /\ labelStore[id] = d
      BY <1>3 DEF RemoveLabel, ShownDevices, ShownLabels, LabelInv, DeviceLabelsResolve
    <2> HIDE DEF r
    <2>5. NewOK(r)
      BY <2>2, <2>4 DEF NewOK
    <2> QED BY <1>3, <2>3, <2>5, OneMade DEF RemoveLabel, Room
  <1>4. ASSUME NEW e \in Events, NEW id \in LabelIds, NEW name \in Names, CreateLabel(e, id, name)
        PROVE  \E reqs : Made(reqs)
    <2> DEFINE l == [id |-> id, name |-> name, device |-> DeviceOf[e]]
               a == [event |-> e, label |-> l]
               r == Request("createLabel", a)
    <2>1. l \in Label /\ l.id = id
      BY BackendAssumption DEF Label
    <2>2. DispatchAll(<<r>>)
      BY <1>4 DEF CreateLabel, Dispatch
    <2> HIDE DEF l
    <2>3. "createLabel" \in Ops /\ a \in ArgsOf("createLabel") /\ a.label = l
      BY <2>1 DEF Ops, Fetches, ArgsOf
    <2> HIDE DEF a
    <2>4. /\ r \in RequestSet /\ r.op = "createLabel" /\ r.state = "sent" /\ r.data = {} /\ r.status = 0
          /\ r.arg = a
      BY <2>3, NewRequest
    <2> HIDE DEF r
    <2>5. NewOK(r)
      BY <1>4, <2>1, <2>3, <2>4 DEF NewOK, CreateLabel
    <2>6. drawn \subseteq drawn' /\ attached' = attached /\ made + 1 <= MaxRequests
          /\ UNCHANGED <<tables, push, covered, stores, confirmed>>
      BY <1>4 DEF CreateLabel, Room
    <2> QED BY <2>2, <2>5, <2>6, OneMade
  <1> QED BY <1>1, <1>2, <1>3, <1>4, MountMakes DEF User

\* The backend answers request i with q, which brings D if all went well.
Reply(i, q, D) ==
    /\ requests' = [requests EXCEPT ![i] = q]
    /\ requests[i].state = "sent" /\ requests[i] \in RequestSet
    /\ q.op = requests[i].op /\ q.arg = requests[i].arg /\ q.state = "answered"
    /\ q \in RequestSet
    /\ q.data = IF q.status = 200 THEN D ELSE {}

\* The route of request i has come to an end: with D, or without a result.
Responds(i, D) ==
    Fail(i) \/ \E code \in {200, 404, 500} : Respond(i, code, IF code = 200 THEN D ELSE {})

\* It answers with the status code and the data E.
AnswersWith(i, op, D, code, E) ==
    /\ code \in Nat /\ E \in SUBSET DataOf(op)
    /\ E = IF code = 200 THEN D ELSE {}
    /\ requests' = [requests EXCEPT ![i] = Answered(requests[i], code, E)]

LEMMA AnswerReplies ==
    ASSUME TabInv, NEW i \in 1 .. Len(requests), NEW op \in Ops, Sent(i, op),
           NEW D, NEW code, NEW E, AnswersWith(i, op, D, code, E)
    PROVE  \E q : Reply(i, q, D)
  <1> DEFINE r == requests[i]
  <1>1. r \in RequestSet /\ r.op = op /\ r.state = "sent"
    BY ElementOfSeq DEF TabInv, RequestsOK, Sent
  <1> DEFINE q == Answered(r, code, E)
  <1>2. /\ q \in RequestSet /\ q.op = r.op /\ q.arg = r.arg /\ q.state = "answered"
        /\ q.status = code /\ q.data = E
    BY <1>1, AnsweredFacts DEF AnswersWith
  <1> HIDE DEF q
  <1>3. Reply(i, q, D)
    BY <1>1, <1>2 DEF Reply, AnswersWith, q
  <1> QED BY <1>3

LEMMA RespondReplies ==
    ASSUME TabInv, NEW i \in 1 .. Len(requests), NEW op \in Ops, Sent(i, op),
           NEW D \in SUBSET DataOf(op), Responds(i, D)
    PROVE  \E q : Reply(i, q, D)
  <1>1. i \in DOMAIN requests
    BY LenProperties DEF TabInv, RequestsOK
  <1>2. CASE Fail(i)
    <2> DEFINE E == IF 500 = 200 THEN D ELSE {}
    <2>1. requests' = [requests EXCEPT ![i] = Answered(requests[i], 500, E)]
      BY <1>1, <1>2 DEF Fail
    <2>2. E \in SUBSET DataOf(op) /\ E = (IF 500 = 200 THEN D ELSE {}) /\ 500 \in Nat
      OBVIOUS
    <2> HIDE DEF E
    <2>3. AnswersWith(i, op, D, 500, E)
      BY <2>1, <2>2 DEF AnswersWith
    <2> QED BY <2>3, AnswerReplies
  <1>3. ASSUME NEW c \in {200, 404, 500}, Respond(i, c, IF c = 200 THEN D ELSE {})
        PROVE  \E q : Reply(i, q, D)
    <2> DEFINE B == IF c = 200 THEN D ELSE {}
    <2>1. PICK code \in {c} \cup (IF "response" \in Failures THEN {500} ELSE {}) :
            requests' = [requests EXCEPT ![i] = Answered(requests[i], code, IF code = 200 THEN B ELSE {})]
      BY <1>1, <1>3 DEF Respond
    <2>2. code \in {200, 404, 500} /\ (code = 200 => c = 200)
      OBVIOUS
    <2> DEFINE E == IF code = 200 THEN B ELSE {}
    <2>3. E = (IF code = 200 THEN D ELSE {})
      BY <2>2
    <2>4. E \in SUBSET DataOf(op) /\ code \in Nat
      BY <2>2, <2>3
    <2>5. requests' = [requests EXCEPT ![i] = Answered(requests[i], code, E)]
      BY <2>1
    <2> HIDE DEF E, B
    <2>6. AnswersWith(i, op, D, code, E)
      BY <2>3, <2>4, <2>5 DEF AnswersWith
    <2> QED BY <2>6, AnswerReplies
  <1> QED BY <1>2, <1>3 DEF Responds

\* The backend has served request i with the answer q.
Served(i, q) ==
    /\ Reply(i, q, q.data)
    /\ q.op = "createLabel" /\ q.status = 200 => q.data = {q.arg.label}
    /\ q.op = "fetchLabels" => q.data \subseteq labels
    /\ q.op = "fetchEvents" => q.data \subseteq events /\ (q.status = 200 => q.data = events)
    /\ covered' <=> covered \/ (q.op = "fetchEvents" /\ socket = "open" /\ q.status = 200)
    /\ UNCHANGED <<push, inserted>>
    /\ events' \subseteq events
    /\ \A l \in labels' : l \in labels \/ (q.op = "createLabel" /\ l = q.arg.label)
    /\ RowsOK'

LEMMA ServeFacts ==
    ASSUME TabInv, NEW i \in 1 .. Len(requests), Serve(i)
    PROVE  \E q : Served(i, q)
  <1> DEFINE r == requests[i]
  <1>0. r \in RequestSet /\ r.arg \in ArgsOf(r.op) /\ RowsOK
    BY ElementOfSeq, RequestFacts DEF TabInv, RequestsOK
  <1>1. CASE InsertDevice(i)
    <2>1. Sent(i, "createDevice") /\ r.op = "createDevice" /\ "createDevice" \in Ops
      BY <1>1 DEF InsertDevice, Sent, Ops
    <2>2. r.arg \in Devices /\ {r.arg} \in SUBSET DataOf("createDevice")
      BY <1>0, <2>1 DEF ArgsOf, DataOf, Fetches
    <2>3. Responds(i, {r.arg})
      BY <1>1 DEF InsertDevice, Responds
    <2>4. PICK q : Reply(i, q, {r.arg})
      BY <2>1, <2>2, <2>3, RespondReplies
    <2>5. RowsOK' /\ UNCHANGED <<labels, events, inserted, push, covered>>
      BY <1>0, <1>1, <2>2 DEF InsertDevice, Fail, tables, RowsOK
    <2> QED BY <2>1, <2>4, <2>5 DEF Served, Reply
  <1>2. CASE DeleteDevice(i)
    <2>1. Sent(i, "deleteDevice") /\ r.op = "deleteDevice" /\ "deleteDevice" \in Ops
      BY <1>2 DEF DeleteDevice, Sent, Ops
    <2>2. {} \in SUBSET DataOf("deleteDevice")
      OBVIOUS
    <2>3. Responds(i, {})
      BY <1>2 DEF DeleteDevice, Responds
    <2>4. PICK q : Reply(i, q, {})
      BY <2>1, <2>2, <2>3, RespondReplies
    <2>5. /\ RowsOK' /\ UNCHANGED <<inserted, push, covered>>
          /\ labels' \subseteq labels /\ events' \subseteq events
      BY <1>0, <1>2 DEF DeleteDevice, Fail, tables, RowsOK
    <2> QED BY <2>1, <2>4, <2>5 DEF Served, Reply
  <1>3. CASE ListDevices(i)
    <2>1. Sent(i, "fetchDevices") /\ r.op = "fetchDevices" /\ "fetchDevices" \in Ops
      BY <1>3 DEF ListDevices, Sent, Ops, Fetches
    <2>2. devices \in SUBSET DataOf("fetchDevices")
      BY <1>0 DEF DataOf, RowsOK
    <2>3. Responds(i, devices)
      BY <1>3 DEF ListDevices, Responds
    <2>4. PICK q : Reply(i, q, devices)
      BY <2>1, <2>2, <2>3, RespondReplies
    <2>5. RowsOK' /\ UNCHANGED <<labels, events, inserted, push, covered>>
      BY <1>0, <1>3 DEF ListDevices, Fail, tables, RowsOK
    <2> QED BY <2>1, <2>4, <2>5 DEF Served, Reply
  <1>4. CASE InsertLabel(i)
    <2> DEFINE l == r.arg.label
    <2>1. Sent(i, "createLabel") /\ r.op = "createLabel" /\ "createLabel" \in Ops
      BY <1>4 DEF InsertLabel, Sent, Ops
    <2>2. l \in Label /\ {l} \in SUBSET DataOf("createLabel")
      BY <1>0, <2>1 DEF ArgsOf, DataOf, Fetches
    <2>3. Responds(i, {l})
      BY <1>4 DEF InsertLabel, Responds
    <2>4. PICK q : Reply(i, q, {l})
      BY <2>1, <2>2, <2>3, RespondReplies
    <2>5. /\ RowsOK' /\ UNCHANGED <<events, inserted, push, covered>>
          /\ labels' \subseteq labels \cup {l}
      BY <1>0, <1>4, <2>2 DEF InsertLabel, Fail, tables, RowsOK
    <2>6. q.op = "createLabel" /\ q.arg.label = l /\ Reply(i, q, q.data)
          /\ (q.status = 200 => q.data = {l})
      BY <2>1, <2>4 DEF Reply
    <2>7. \A m \in labels' : m \in labels \/ m = q.arg.label
      BY <2>5, <2>6
    <2> QED BY <2>5, <2>6, <2>7 DEF Served
  <1>5. CASE DeleteLabel(i)
    <2>1. Sent(i, "deleteLabel") /\ r.op = "deleteLabel" /\ "deleteLabel" \in Ops
      BY <1>5 DEF DeleteLabel, Sent, Ops
    <2>2. {} \in SUBSET DataOf("deleteLabel")
      OBVIOUS
    <2>3. Responds(i, {})
      BY <1>5 DEF DeleteLabel, Responds
    <2>4. PICK q : Reply(i, q, {})
      BY <2>1, <2>2, <2>3, RespondReplies
    <2>5. /\ RowsOK' /\ UNCHANGED <<events, inserted, push, covered>> /\ labels' \subseteq labels
      BY <1>0, <1>5 DEF DeleteLabel, Fail, tables, RowsOK
    <2> QED BY <2>1, <2>4, <2>5 DEF Served, Reply
  <1>6. CASE ListLabels(i)
    <2>1. Sent(i, "fetchLabels") /\ r.op = "fetchLabels" /\ "fetchLabels" \in Ops
      BY <1>6 DEF ListLabels, Sent, Ops, Fetches
    <2>2. labels \in SUBSET DataOf("fetchLabels")
      BY <1>0 DEF DataOf, RowsOK
    <2>3. Responds(i, labels)
      BY <1>6 DEF ListLabels, Responds
    <2>4. PICK q : Reply(i, q, labels)
      BY <2>1, <2>2, <2>3, RespondReplies
    <2>5. RowsOK' /\ UNCHANGED <<labels, events, inserted, push, covered>>
      BY <1>0, <1>6 DEF ListLabels, Fail, tables, RowsOK
    <2> QED BY <2>1, <2>4, <2>5 DEF Served, Reply
  <1>7. CASE ListEvents(i)
    <2>1. Sent(i, "fetchEvents") /\ r.op = "fetchEvents" /\ "fetchEvents" \in Ops
      BY <1>7 DEF ListEvents, Sent, Ops, Fetches
    <2>2. events \in SUBSET DataOf("fetchEvents")
      BY <1>0 DEF DataOf, RowsOK
    <2>3. Responds(i, events)
      BY <1>7 DEF ListEvents, Responds
    <2>4. PICK q : Reply(i, q, events)
      BY <2>1, <2>2, <2>3, RespondReplies
    <2>5. RowsOK' /\ UNCHANGED <<labels, events, inserted, push>>
      BY <1>0, <1>7 DEF ListEvents, Fail, tables, RowsOK
    <2>6. requests'[i] = q
      BY <2>4, LenProperties DEF Reply, TabInv, RequestsOK
    <2>7. covered' <=> covered \/ (socket = "open" /\ q.status = 200)
      BY <1>7, <2>6 DEF ListEvents
    <2> QED BY <2>1, <2>4, <2>5, <2>7 DEF Served, Reply
  <1> QED BY <1>1, <1>2, <1>3, <1>4, <1>5, <1>6, <1>7 DEF Serve, DeviceRoutes, LabelRoutes, EventRoutes

-----------------------------------------------------------------------------
(* Types *)

\* An answer to request i is taken from the list, and settles its status.
LEMMA AnswerFacts ==
    ASSUME TabInv, NEW i \in 1 .. Len(requests), Answer(i)
    PROVE  \E outcome \in {"resolved", "rejected"} : Handled(i, requests[i].op, outcome)
  <1>1. \E op : \E outcome \in {"resolved", "rejected"} : Handled(i, op, outcome)
    BY DEF Answer, DevicesFetched, EventsFetched, LabelsFetched, DeviceCreated,
           DeviceDeleted, LabelCreated, LabelDeleted, Rejected
  <1> QED BY <1>1 DEF Handled

\* The request at position i is under way, with what the invariant says of it.
LEMMA TakenFacts ==
    ASSUME TabInv, NEW i \in 1 .. Len(requests), NEW r, r = requests[i]
    PROVE  /\ Under(r) /\ RequestOK(r) /\ r.op \in Ops /\ r.arg \in ArgsOf(r.op)
           /\ r.data \subseteq DataOf(r.op)
  <1>1. Under(r)
    BY DEF Under
  <1>2. RequestOK(r)
    BY <1>1 DEF TabInv, RequestsOK
  <1> QED BY <1>1, <1>2, RequestFacts DEF RequestOK

LEMMA RequestOKKept ==
    ASSUME NEW r, RequestOK(r), attached => attached', inserted \subseteq inserted'
    PROVE  RequestOK(r)'
  BY DEF RequestOK

LEMMA RequestsOKInit == Init => RequestsOK
  <1> SUFFICES ASSUME Init PROVE RequestsOK
    OBVIOUS
  <1>1. requests = << >> /\ made = 0
    BY DEF Init, BackendInit
  <1>2. requests \in Seq(RequestSet) /\ Len(requests) = 0
    BY <1>1, EmptySeq
  <1>3. \A r : ~Under(r)
    BY <1>2 DEF Under
  <1> QED BY <1>1, <1>2, <1>3, DashboardAssumption DEF RequestsOK

LEMMA UserRequests ==
    ASSUME TabInv, NEW reqs, Made(reqs) PROVE RequestsOK'
  <1>1. /\ reqs \in Seq(RequestSet) /\ requests' = requests \o reqs /\ made' = made + Len(reqs)
        /\ \A k \in 1 .. Len(reqs) : NewOK(reqs[k])
        /\ made + Len(reqs) <= MaxRequests /\ (attached => attached') /\ inserted' = inserted
    BY DEF Made, DispatchAll, tables
  <1>2. requests \in Seq(RequestSet) /\ made \in Nat /\ Len(requests) <= made
    BY DEF TabInv, RequestsOK
  <1>3. /\ requests' \in Seq(RequestSet) /\ Len(requests') = Len(requests) + Len(reqs)
        /\ \A r : Under(r)' => Under(r) \/ \E k \in 1 .. Len(reqs) : reqs[k] = r
    BY <1>1, <1>2, FlightAdded
  <1>4. ASSUME NEW r, Under(r)' PROVE RequestOK(r)'
    <2>1. CASE Under(r)
      BY <1>1, <2>1, RequestOKKept DEF TabInv, RequestsOK
    <2>2. CASE NewOK(r)
      BY <2>2 DEF NewOK, RequestOK
    <2> QED BY <1>1, <1>3, <1>4, <2>1, <2>2
  <1>5. Len(requests) \in Nat /\ Len(reqs) \in Nat
    BY <1>1, <1>2, LenProperties
  <1> QED BY <1>1, <1>2, <1>3, <1>4, <1>5 DEF RequestsOK

LEMMA AnswerRequests ==
    ASSUME TabInv, NEW i \in 1 .. Len(requests), Answer(i) PROVE RequestsOK'
  <1>1. requests' = RemoveAt(requests, i) /\ UNCHANGED <<tables, attached, made>>
    BY AnswerFacts DEF Handled
  <1>2. requests \in Seq(RequestSet) /\ made \in Nat /\ Len(requests) <= made /\ made <= MaxRequests
    BY DEF TabInv, RequestsOK
  <1>3. /\ requests' \in Seq(RequestSet) /\ Len(requests') = Len(requests) - 1
        /\ \A r : Under(r)' => Under(r)
    BY <1>1, <1>2, FlightRemoved
  <1>4. ASSUME NEW r, Under(r)' PROVE RequestOK(r)'
    BY <1>1, <1>3, <1>4, RequestOKKept DEF TabInv, RequestsOK, tables
  <1>5. Len(requests) \in Nat
    BY <1>2, LenProperties
  <1> QED BY <1>1, <1>2, <1>3, <1>4, <1>5 DEF RequestsOK

LEMMA ServeRequests ==
    ASSUME TabInv, NEW i \in 1 .. Len(requests), NEW q, Served(i, q), UNCHANGED tab
    PROVE  RequestsOK'
  <1>1. /\ Reply(i, q, q.data) /\ inserted' = inserted /\ attached' = attached /\ made' = made
        /\ events \subseteq inserted
    BY DEF Served, tab, TabInv, RowsOK
  <1>2. q \in RequestSet /\ requests \in Seq(RequestSet) /\ requests' = [requests EXCEPT ![i] = q]
    BY <1>1 DEF TabInv, RequestsOK, Reply
  <1>3. /\ requests' \in Seq(RequestSet) /\ Len(requests') = Len(requests)
        /\ \A r : Under(r)' => Under(r) \/ r = q
    BY <1>2, FlightChanged
  <1>4. RequestOK(requests[i])
    BY TakenFacts
  <1>5. RequestOK(q)'
    BY <1>1, <1>4 DEF RequestOK, Served, Reply
  <1>6. ASSUME NEW r, Under(r)' PROVE RequestOK(r)'
    BY <1>1, <1>3, <1>5, <1>6, RequestOKKept DEF TabInv, RequestsOK
  <1> QED BY <1>1, <1>3, <1>6 DEF RequestsOK, TabInv

\* The other steps leave the requests alone.
LEMMA OtherRequests ==
    ASSUME TabInv, UNCHANGED <<requests, made, attached>>, inserted \subseteq inserted'
    PROVE  RequestsOK'
  <1>1. \A r : Under(r)' => Under(r)
    BY DEF Under
  <1>2. ASSUME NEW r, Under(r)' PROVE RequestOK(r)'
    BY <1>1, <1>2, RequestOKKept DEF TabInv, RequestsOK
  <1> QED BY <1>2 DEF RequestsOK, TabInv

\* The entity adapters keep the shape of a store.
LEMMA AddManyStore ==
    ASSUME NEW f, NEW g, NEW h, h = AddMany(f, g), NEW K, NEW V, IsStore(f, K, V), IsStore(g, K, V)
    PROVE  IsStore(h, K, V)
  <1>1. /\ DOMAIN h = DOMAIN f \cup DOMAIN g
        /\ \A x \in DOMAIN f : h[x] = f[x]
        /\ \A x \in DOMAIN g \ DOMAIN f : h[x] = g[x]
    BY DEF AddMany
  <1> QED BY <1>1 DEF IsStore

LEMMA FreshStore ==
    ASSUME NEW ids, NEW K, ids \subseteq K, NEW V
    PROVE  IsStore(Fresh(ids), K, SUBSET V)
  BY DEF Fresh, IsStore

LEMMA RemoveOneStore ==
    ASSUME NEW f, NEW x, NEW h, h = RemoveOne(f, x), NEW K, NEW V, IsStore(f, K, V)
    PROVE  IsStore(h, K, V)
  <1>1. DOMAIN h = DOMAIN f \ {x} /\ \A y \in DOMAIN h : h[y] = f[y]
    BY DEF RemoveOne, Restrict
  <1> QED BY <1>1 DEF IsStore

LEMMA AddLabelsStore ==
    ASSUME NEW f, NEW x, NEW ids, NEW h, h = AddLabels(f, x, ids), NEW K, NEW V, IsStore(f, K, SUBSET V),
           ids \subseteq V
    PROVE  IsStore(h, K, SUBSET V)
  <1>1. /\ DOMAIN h = DOMAIN f
        /\ \A y \in DOMAIN f : h[y] = IF y = x THEN f[y] \cup ids ELSE f[y]
    BY DEF AddLabels
  <1> QED BY <1>1 DEF IsStore

LEMMA ByIdStore ==
    ASSUME NEW ls, ls \subseteq Label
    PROVE  IsStore(ById(ls), LabelIds, Devices)
  <1> DEFINE h == ById(ls)
  <1>1. /\ DOMAIN h = {l.id : l \in ls}
        /\ \A x \in DOMAIN h : \E l \in ls : l.id = x /\ l.device = h[x]
    BY DEF ById
  <1> HIDE DEF h
  <1>2. \A l \in ls : l.id \in LabelIds /\ l.device \in Devices
    BY DEF Label
  <1>3. IsStore(h, LabelIds, Devices)
    BY <1>1, <1>2 DEF IsStore
  <1> QED BY <1>3 DEF h

LEMMA InitTypes == Init => RowsOK /\ PushOK /\ StoresOK
  <1> SUFFICES ASSUME Init PROVE RowsOK /\ PushOK /\ StoresOK
    OBVIOUS
  <1>1. RowsOK
    BY BackendAssumption DEF Init, BackendInit, RowsOK
  <1>2. PushOK
    <2>1. outbox \in Seq(Events)
      BY EmptySeq DEF Init, BackendInit
    <2> QED BY <2>1 DEF Init, BackendInit, PushOK
  <1>3. ASSUME NEW K, NEW V PROVE IsStore(EmptyStore, K, V)
    BY DEF IsStore, EmptyStore
  <1>4. StoresOK
    BY <1>3 DEF Init, StoresOK
  <1> QED BY <1>1, <1>2, <1>4

LEMMA TabInvInit == Init => TabInv
  BY InitTypes, RequestsOKInit DEF TabInv

\* The status of a kind of request.
LEMMA StatusDispatched ==
    ASSUME StoresOK, NEW reqs, DispatchAll(reqs)
    PROVE  status' \in [Ops -> {"idle", "pending", "resolved", "rejected"}]
  BY DEF StoresOK, DispatchAll

LEMMA StatusSettled ==
    ASSUME StoresOK, NEW i, NEW op, NEW outcome \in {"resolved", "rejected"}, Handled(i, op, outcome)
    PROVE  status' \in [Ops -> {"idle", "pending", "resolved", "rejected"}]
  BY DEF StoresOK, Handled

\* Each response keeps the stores in shape.
LEMMA AnswerStores ==
    ASSUME TabInv, NEW i \in 1 .. Len(requests), Answer(i)
    PROVE  StoresOK'
  <1> DEFINE r == requests[i]
  <1>1. r.arg \in ArgsOf(r.op) /\ r.data \subseteq DataOf(r.op) /\ StoresOK
    BY TakenFacts DEF TabInv
  <1>2. status' \in [Ops -> {"idle", "pending", "resolved", "rejected"}]
    BY <1>1, AnswerFacts, StatusSettled
  <1>3. /\ IsStore(deviceStore, Devices, SUBSET LabelIds)
        /\ IsStore(labelStore, LabelIds, Devices)
        /\ IsStore(eventStore, Events, SUBSET LabelIds)
        /\ confirmed \subseteq Devices
    BY <1>1 DEF StoresOK
  <1> SUFFICES /\ IsStore(deviceStore', Devices, SUBSET LabelIds)
               /\ IsStore(labelStore', LabelIds, Devices)
               /\ IsStore(eventStore', Events, SUBSET LabelIds)
               /\ confirmed' \subseteq Devices
    BY <1>2 DEF StoresOK, IsStore
  <1>4. ASSUME DevicesFetched(i) \/ DeviceCreated(i) PROVE IsStore(deviceStore', Devices, SUBSET LabelIds)
    <2>1. r.data \subseteq Devices /\ deviceStore' = AddMany(deviceStore, Fresh(r.data))
      BY <1>1, <1>4 DEF DevicesFetched, DeviceCreated, Handled, DataOf
    <2>2. IsStore(Fresh(r.data), Devices, SUBSET LabelIds)
      BY <2>1, FreshStore
    <2> QED BY <1>3, <2>1, <2>2, AddManyStore
  <1>5. ASSUME EventsFetched(i) PROVE IsStore(eventStore', Events, SUBSET LabelIds)
    <2>1. r.data \subseteq Events /\ eventStore' = AddMany(eventStore, Fresh(r.data))
      BY <1>1, <1>5 DEF EventsFetched, Handled, DataOf
    <2>2. IsStore(Fresh(r.data), Events, SUBSET LabelIds)
      BY <2>1, FreshStore
    <2> QED BY <1>3, <2>1, <2>2, AddManyStore
  <1>6. ASSUME LabelsFetched(i) \/ LabelCreated(i)
        PROVE  r.data \subseteq Label /\ IsStore(labelStore', LabelIds, Devices)
    <2>1. r.data \subseteq Label /\ labelStore' = AddMany(labelStore, ById(r.data))
      BY <1>1, <1>6 DEF LabelsFetched, LabelCreated, Handled, DataOf
    <2>2. IsStore(ById(r.data), LabelIds, Devices)
      BY <2>1, ByIdStore
    <2> QED BY <1>3, <2>1, <2>2, AddManyStore
  <1>7. ASSUME LabelsFetched(i) PROVE IsStore(deviceStore', Devices, SUBSET LabelIds)
    <2> DEFINE ids(d) == {l.id : l \in {k \in r.data : k.device = d}}
    <2>1. r.data \subseteq Label
      BY <1>6, <1>7
    <2>2. ASSUME NEW d PROVE ids(d) \subseteq LabelIds
      BY <2>1 DEF Label
    <2>3. deviceStore' = [d \in DOMAIN deviceStore |-> deviceStore[d] \cup ids(d)]
      BY <1>7 DEF LabelsFetched
    <2> HIDE DEF ids
    <2> QED BY <1>3, <2>2, <2>3 DEF IsStore
  <1>8. ASSUME LabelCreated(i)
        PROVE  /\ IsStore(deviceStore', Devices, SUBSET LabelIds)
               /\ IsStore(eventStore', Events, SUBSET LabelIds)
    <2> DEFINE l == r.arg.label
    <2>1. l.id \in LabelIds
      BY <1>1, <1>8 DEF LabelCreated, Handled, ArgsOf, Fetches, Label
    <2>2. /\ deviceStore' = AddLabels(deviceStore, l.device, {l.id})
          /\ eventStore' = AddLabels(eventStore, r.arg.event, {l.id})
          /\ {l.id} \subseteq LabelIds
      BY <1>8, <2>1 DEF LabelCreated
    <2> HIDE DEF l
    <2> QED BY <1>3, <2>2, AddLabelsStore
  <1>9. ASSUME DeviceDeleted(i)
        PROVE  IsStore(deviceStore', Devices, SUBSET LabelIds) /\ confirmed' \subseteq Devices
    <2>1. /\ r.arg \in Devices /\ deviceStore' = RemoveOne(deviceStore, r.arg)
          /\ confirmed' = confirmed \cup {r.arg}
      BY <1>1, <1>9 DEF DeviceDeleted, Handled, ArgsOf, Fetches
    <2> QED BY <1>3, <2>1, RemoveOneStore
  <1>10. ASSUME LabelDeleted(i)
         PROVE  /\ IsStore(deviceStore', Devices, SUBSET LabelIds)
                /\ IsStore(labelStore', LabelIds, Devices)
    <2> DEFINE a == r.arg
    <2>1. /\ labelStore' = RemoveOne(labelStore, a.id)
          /\ deviceStore' = IF a.device \in DOMAIN deviceStore
                            THEN [deviceStore EXCEPT ![a.device] = @ \ {a.id}]
                            ELSE deviceStore
      BY <1>10 DEF LabelDeleted
    <2> HIDE DEF a
    <2>2. IsStore(deviceStore', Devices, SUBSET LabelIds)
      BY <1>3, <2>1 DEF IsStore
    <2> QED BY <1>3, <2>1, <2>2, RemoveOneStore
  <1> QED
    BY <1>3, <1>4, <1>5, <1>6, <1>7, <1>8, <1>9, <1>10
       DEF Answer, DevicesFetched, EventsFetched, LabelsFetched, DeviceCreated, DeviceDeleted,
           LabelCreated, LabelDeleted, Rejected, stores

\* An event that arrives is stored under its id.
LEMMA ReceiveTypes ==
    ASSUME TabInv, ReceiveEvent PROVE PushOK' /\ StoresOK'
  <1>1. /\ outbox # << >> /\ outbox \in Seq(Events) /\ outbox' = Tail(outbox)
        /\ UNCHANGED <<jobs, socket, deviceStore, labelStore, status, confirmed>>
        /\ eventStore' = (IF attached THEN AddMany(eventStore, Fresh({Head(outbox)})) ELSE eventStore)
        /\ PushOK /\ StoresOK
    BY DEF ReceiveEvent, TabInv, PushOK
  <1>2. Tail(outbox) \in Seq(Events) /\ Head(outbox) \in Events
    BY <1>1, HeadTailProperties
  <1>3. PushOK'
    BY <1>1, <1>2 DEF PushOK
  <1>4. IsStore(Fresh({Head(outbox)}), Events, SUBSET LabelIds)
    BY <1>2, FreshStore
  <1>5. IsStore(eventStore, Events, SUBSET LabelIds)
    BY <1>1 DEF StoresOK
  <1>6. IsStore(eventStore', Events, SUBSET LabelIds)
    BY <1>1, <1>4, <1>5, AddManyStore
  <1>7. StoresOK'
    BY <1>1, <1>6 DEF StoresOK, IsStore
  <1> QED BY <1>3, <1>7

\* EventProcessor moves an event from one step to the next.
LEMMA ProcessTypes ==
    ASSUME RowsOK, PushOK, NEW e \in Events, Process(e)
    PROVE  RowsOK' /\ PushOK' /\ inserted \subseteq inserted' /\ requests' = requests
  <1>1. CASE NewEvent(e)
    BY <1>1 DEF NewEvent, tables, RowsOK, PushOK
  <1>2. CASE SelectLabels(e)
    BY <1>2 DEF SelectLabels, tables, RowsOK, PushOK
  <1>3. CASE InsertEvent(e)
    BY <1>3 DEF InsertEvent, RowsOK, PushOK
  <1>4. CASE SendEvent(e)
    <2>1. outbox' \in Seq(Events)
      BY <1>4, AppendProperties DEF SendEvent, PushOK
    <2> QED BY <1>4, <2>1 DEF SendEvent, tables, RowsOK, PushOK
  <1> QED BY <1>1, <1>2, <1>3, <1>4 DEF Process

LEMMA SocketTypes ==
    ASSUME RowsOK, PushOK, Register \/ Disconnect
    PROVE  RowsOK' /\ PushOK' /\ UNCHANGED <<inserted, requests>>
  BY EmptySeq DEF Register, Disconnect, RowsOK, PushOK, tables

\* The types that a step leaves alone.
LEMMA RowsKept == RowsOK /\ UNCHANGED tables => RowsOK'
  BY DEF RowsOK, tables

LEMMA PushKept == PushOK /\ UNCHANGED push => PushOK'
  BY DEF PushOK, push

LEMMA StoresKept == StoresOK /\ UNCHANGED <<stores, status, confirmed>> => StoresOK'
  BY DEF StoresOK, stores, IsStore

LEMMA TabInvNext == TabInv /\ LabelInv /\ [Next]_vars => TabInv'
  <1> SUFFICES ASSUME TabInv, LabelInv, [Next]_vars PROVE TabInv'
    OBVIOUS
  <1> USE DEF TabInv
  <1>1. CASE User
    <2>1. PICK reqs : Made(reqs)
      BY <1>1, UserMakes
    <2>2. UNCHANGED <<tables, push, stores, confirmed>> /\ DispatchAll(reqs)
      BY <2>1 DEF Made
    <2>3. StoresOK'
      BY <2>2, StatusDispatched DEF StoresOK, stores, IsStore
    <2> QED BY <2>1, <2>2, <2>3, UserRequests, RowsKept, PushKept
  <1>2. ASSUME NEW i \in 1 .. Len(requests), Answer(i) PROVE TabInv'
    <2>1. UNCHANGED <<tables, push>>
      BY <1>2, AnswerFacts DEF Handled
    <2> QED BY <1>2, <2>1, AnswerRequests, AnswerStores, RowsKept, PushKept
  <1>3. CASE ReceiveEvent
    <2>1. UNCHANGED <<tables, requests, made, attached, inserted>>
      BY <1>3 DEF ReceiveEvent, tables
    <2>2. inserted \subseteq inserted'
      BY <2>1
    <2> QED BY <1>3, <2>1, <2>2, ReceiveTypes, OtherRequests, RowsKept
  <1>4. ASSUME NEW i \in 1 .. Len(requests), Serve(i), UNCHANGED tab PROVE TabInv'
    <2>1. PICK q : Served(i, q)
      BY <1>4, ServeFacts
    <2>2. RowsOK' /\ UNCHANGED push
      BY <2>1 DEF Served
    <2>3. StoresOK'
      BY <1>4, StoresKept DEF tab
    <2> QED BY <1>4, <2>1, <2>2, <2>3, ServeRequests, PushKept
  <1>5. ASSUME NEW e \in Events, Process(e), UNCHANGED tab PROVE TabInv'
    <2>1. RowsOK' /\ PushOK' /\ inserted \subseteq inserted' /\ requests' = requests
      BY <1>5, ProcessTypes
    <2>2. StoresOK' /\ UNCHANGED <<made, attached>>
      BY <1>5, StoresKept DEF tab
    <2> QED BY <2>1, <2>2, OtherRequests
  <1>6. CASE (Register \/ Disconnect) /\ UNCHANGED tab
    <2>1. RowsOK' /\ PushOK' /\ inserted \subseteq inserted' /\ requests' = requests
      BY <1>6, SocketTypes
    <2>2. StoresOK' /\ UNCHANGED <<made, attached>>
      BY <1>6, StoresKept DEF tab
    <2> QED BY <2>1, <2>2, OtherRequests
  <1>7. CASE UNCHANGED vars
    <2>1. inserted \subseteq inserted' /\ UNCHANGED <<tables, push, requests, tab>>
      BY <1>7 DEF vars, backendVars, tables
    <2>2. StoresOK' /\ UNCHANGED <<made, attached>>
      BY <2>1, StoresKept DEF tab
    <2> QED BY <2>1, <2>2, OtherRequests, RowsKept, PushKept
  <1> QED BY <1>1, <1>2, <1>3, <1>4, <1>5, <1>6, <1>7 DEF Next, BackendNext

-----------------------------------------------------------------------------
(* What waits has a request under way *)

LEMMA AwaitedUnder ==
    PendingIsAwaited <=> \A op \in Ops : status[op] = "pending" => \E r : Under(r) /\ r.op = op
  BY DEF PendingIsAwaited, Under

LEMMA AwaitedInit == Init => PendingIsAwaited
  BY DEF Init, PendingIsAwaited

LEMMA UserAwaited ==
    ASSUME TabInv, PendingIsAwaited, NEW reqs, Made(reqs) PROVE PendingIsAwaited'
  <1>1. /\ reqs \in Seq(RequestSet) /\ requests' = requests \o reqs /\ requests \in Seq(RequestSet)
        /\ status' = [op \in Ops |->
             IF \E k \in 1 .. Len(reqs) : reqs[k].op = op THEN "pending" ELSE status[op]]
    BY DEF Made, DispatchAll, TabInv, RequestsOK
  <1>2. /\ \A r : Under(r) => Under(r)'
        /\ \A k \in 1 .. Len(reqs) : Under(reqs[k])'
    BY <1>1, FlightAdded
  <1>3. ASSUME NEW op \in Ops, status'[op] = "pending"
        PROVE  \E r : Under(r)' /\ r.op = op
    <2>1. CASE \E k \in 1 .. Len(reqs) : reqs[k].op = op
      BY <1>2, <2>1
    <2>2. CASE status[op] = "pending"
      BY <1>2, <2>2, AwaitedUnder
    <2> QED BY <1>1, <1>3, <2>1, <2>2
  <1> QED BY <1>3, AwaitedUnder DEF PendingIsAwaited, Under

LEMMA AnswerAwaited ==
    ASSUME TabInv, PendingIsAwaited, NEW i \in 1 .. Len(requests), Answer(i) PROVE PendingIsAwaited'
  <1> DEFINE r == requests[i]
  <1>1. PICK outcome \in {"resolved", "rejected"} : Handled(i, r.op, outcome)
    BY AnswerFacts
  <1>2. /\ requests' = RemoveAt(requests, i) /\ requests \in Seq(RequestSet)
        /\ status' = [status EXCEPT ![r.op] = outcome]
        /\ DOMAIN status = Ops
    BY <1>1 DEF Handled, TabInv, RequestsOK, StoresOK
  <1>3. \A s : Under(s) => Under(s)' \/ s = r
    BY <1>2, FlightRemoved
  <1>4. ASSUME NEW op \in Ops, status'[op] = "pending"
        PROVE  \E s : Under(s)' /\ s.op = op
    <2>1. op # r.op /\ status[op] = "pending"
      BY <1>2, <1>4
    <2>2. PICK s : Under(s) /\ s.op = op
      BY <2>1, AwaitedUnder
    <2> QED BY <1>3, <2>1, <2>2
  <1> QED BY <1>4 DEF PendingIsAwaited, Under

LEMMA ServeAwaited ==
    ASSUME TabInv, PendingIsAwaited, NEW i \in 1 .. Len(requests), NEW q, Served(i, q), UNCHANGED tab
    PROVE  PendingIsAwaited'
  <1>1. /\ q \in RequestSet /\ requests' = [requests EXCEPT ![i] = q] /\ q.op = requests[i].op
        /\ requests \in Seq(RequestSet) /\ status' = status
    BY DEF Served, Reply, TabInv, RequestsOK, tab
  <1>2. Under(q)' /\ \A r : Under(r) => Under(r)' \/ r = requests[i]
    BY <1>1, FlightChanged
  <1>3. ASSUME NEW op \in Ops, status[op] = "pending"
        PROVE  \E s : Under(s)' /\ s.op = op
    <2>1. PICK s : Under(s) /\ s.op = op
      BY <1>3, AwaitedUnder
    <2> QED BY <1>1, <1>2, <2>1
  <1> QED BY <1>1, <1>3 DEF PendingIsAwaited, Under

LEMMA AwaitedNext == TabInv /\ LabelInv /\ PendingIsAwaited /\ [Next]_vars => PendingIsAwaited'
  <1> SUFFICES ASSUME TabInv, LabelInv, PendingIsAwaited, [Next]_vars PROVE PendingIsAwaited'
    OBVIOUS
  <1>0. UNCHANGED <<requests, status>> => PendingIsAwaited'
    BY DEF PendingIsAwaited
  <1>1. CASE User
    BY <1>1, UserMakes, UserAwaited
  <1>2. ASSUME NEW i \in 1 .. Len(requests), Answer(i) PROVE PendingIsAwaited'
    BY <1>2, AnswerAwaited
  <1>3. CASE ReceiveEvent
    BY <1>0, <1>3 DEF ReceiveEvent
  <1>4. ASSUME NEW i \in 1 .. Len(requests), Serve(i), UNCHANGED tab PROVE PendingIsAwaited'
    BY <1>4, ServeFacts, ServeAwaited
  <1>5. ASSUME NEW e \in Events, Process(e), UNCHANGED tab PROVE PendingIsAwaited'
    BY <1>0, <1>5, ProcessTypes DEF tab, TabInv
  <1>6. CASE (Register \/ Disconnect) /\ UNCHANGED tab
    BY <1>0, <1>6, SocketTypes DEF tab, TabInv
  <1>7. CASE UNCHANGED vars
    BY <1>0, <1>7 DEF vars, backendVars, tab
  <1> QED BY <1>1, <1>2, <1>3, <1>4, <1>5, <1>6, <1>7 DEF Next, BackendNext

-----------------------------------------------------------------------------
(* Labels *)

LEMMA LabelInit == Init => LabelInv
  <1> SUFFICES ASSUME Init PROVE LabelInv
    OBVIOUS
  <1>1. /\ labels \in {{}} \cup {{l} : l \in {k \in Label : k.device \in Existing}}
        /\ requests = << >> /\ labelStore = EmptyStore /\ deviceStore = EmptyStore
        /\ drawn = {l.id : l \in labels}
    BY DEF Init, BackendInit
  <1>2. Len(requests) = 0 /\ DOMAIN labelStore = {} /\ DOMAIN deviceStore = {}
    BY <1>1 DEF EmptyStore
  <1>3. \A id, d : Belongs(id, d) => \E l \in labels : l.id = id /\ l.device = d
    BY <1>2 DEF Belongs, Under
  <1>4. \A l, m \in labels : l = m
    BY <1>1
  <1> QED BY <1>1, <1>2, <1>3, <1>4 DEF LabelInv, Agreement, DeviceLabelsResolve

\* A step that tells nothing new.
LEMMA NothingNew ==
    ASSUME Agreement, \A id \in LabelIds : \A d \in Devices : Belongs(id, d)' => Belongs(id, d),
           drawn \subseteq drawn'
    PROVE  Agreement'
  BY DEF Agreement

LEMMA StoresResolve ==
    DeviceLabelsResolve /\ UNCHANGED <<deviceStore, labelStore>> => DeviceLabelsResolve'
  BY DEF DeviceLabelsResolve

LEMMA NothingChanged ==
    ASSUME LabelInv, UNCHANGED <<labels, requests, labelStore, deviceStore, drawn>>
    PROVE  LabelInv'
  <1>1. \A id, d : Belongs(id, d)' => Belongs(id, d)
    BY DEF Belongs, Under
  <1> QED BY <1>1, NothingNew, StoresResolve DEF LabelInv

\* A new label has a fresh id, and a label to be deleted is one of the store.
LEMMA UserLabels ==
    ASSUME TabInv, LabelInv, NEW reqs, Made(reqs) PROVE LabelInv'
  <1>1. /\ reqs \in Seq(RequestSet) /\ requests' = requests \o reqs /\ requests \in Seq(RequestSet)
        /\ \A k \in 1 .. Len(reqs) : NewOK(reqs[k])
        /\ Len(reqs) = 1 \/ \A k \in 1 .. Len(reqs) : reqs[k].op \in Fetches
        /\ UNCHANGED <<labels, labelStore, deviceStore>> /\ drawn \subseteq drawn'
    BY DEF Made, DispatchAll, TabInv, RequestsOK, tables, stores
  <1>2. \A r : Under(r)' => Under(r) \/ \E k \in 1 .. Len(reqs) : reqs[k] = r
    BY <1>1, FlightAdded
  <1> DEFINE New(r) == r.op = "createLabel" /\ r = reqs[1] /\ NewOK(r)
  <1>3. ASSUME NEW id \in LabelIds, NEW d \in Devices, Belongs(id, d)'
        PROVE  \/ Belongs(id, d)
               \/ \E r : New(r) /\ r.arg.label.id = id /\ r.arg.label.device = d
    <2>1. CASE \E r : Under(r)' /\ Says(r, id, d)
      <3>1. PICK r : Under(r)' /\ Says(r, id, d)
        BY <2>1
      <3>2. CASE Under(r)
        BY <3>1, <3>2 DEF Belongs
      <3>3. CASE \E k \in 1 .. Len(reqs) : reqs[k] = r
        <4>1. NewOK(r) /\ r.data = {} /\ (r = reqs[1] \/ r.op \in Fetches)
          BY <1>1, <3>3 DEF NewOK
        <4>2. CASE r.op = "createLabel"
          BY <3>1, <4>1, <4>2 DEF Says, Fetches
        <4>3. CASE r.op = "deleteLabel"
          BY <3>1, <4>1, <4>3 DEF Says, NewOK, Belongs
        <4> QED BY <3>1, <4>1, <4>2, <4>3 DEF Says
      <3> QED BY <1>2, <3>1, <3>2, <3>3
    <2>2. CASE ~\E r : Under(r)' /\ Says(r, id, d)
      BY <1>1, <1>3, <2>2 DEF Belongs
    <2> QED BY <2>1, <2>2
  <1>4. ASSUME NEW r, New(r) PROVE r.arg.label.id \in drawn' /\ r.arg.label.id \notin drawn
    BY <1>4 DEF NewOK
  <1>5. \A r, s : New(r) /\ New(s) => r = s
    OBVIOUS
  <1> HIDE DEF New
  <1>6. ASSUME NEW id \in LabelIds, NEW d \in Devices, Belongs(id, d)' PROVE id \in drawn'
    BY <1>1, <1>3, <1>4, <1>6 DEF LabelInv, Agreement
  <1>7. ASSUME NEW id \in LabelIds, NEW d \in Devices, NEW e \in Devices,
               Belongs(id, d)', Belongs(id, e)'
        PROVE  d = e
    <2>1. CASE id \in drawn
      <3>1. Belongs(id, d) /\ Belongs(id, e)
        BY <1>3, <1>4, <1>7, <2>1
      <3> QED BY <3>1 DEF LabelInv, Agreement
    <2>2. CASE id \notin drawn
      <3>1. ~Belongs(id, d) /\ ~Belongs(id, e)
        BY <2>2 DEF LabelInv, Agreement
      <3>2. PICK r : New(r) /\ r.arg.label.device = d
        BY <1>3, <1>7, <3>1
      <3>3. PICK s : New(s) /\ s.arg.label.device = e
        BY <1>3, <1>7, <3>1
      <3> QED BY <1>5, <3>2, <3>3
    <2> QED BY <2>1, <2>2
  <1>8. Agreement'
    BY <1>6, <1>7 DEF Agreement
  <1> QED BY <1>1, <1>8, StoresResolve DEF LabelInv

\* The routes tell what the request asked for or what the table holds.
LEMMA ServeLabels ==
    ASSUME TabInv, LabelInv, NEW i \in 1 .. Len(requests), NEW q, Served(i, q), UNCHANGED tab
    PROVE  LabelInv'
  <1> DEFINE r == requests[i]
  <1>1. /\ q \in RequestSet /\ requests' = [requests EXCEPT ![i] = q] /\ q.op = r.op /\ q.arg = r.arg
        /\ requests \in Seq(RequestSet) /\ UNCHANGED <<labelStore, deviceStore, drawn>>
        /\ q.op = "createLabel" => q.data \subseteq {q.arg.label}
        /\ q.op = "fetchLabels" => q.data \subseteq labels
        /\ \A l \in labels' : l \in labels \/ (q.op = "createLabel" /\ l = q.arg.label)
    BY DEF Served, Reply, TabInv, RequestsOK, tab, stores
  <1>2. \A s : Under(s)' => Under(s) \/ s = q
    BY <1>1, FlightChanged
  <1>3. Under(r)
    BY TakenFacts
  <1>4. ASSUME NEW id, NEW d, Belongs(id, d)' PROVE Belongs(id, d)
    <2>1. ASSUME q.op = "createLabel", q.arg.label.id = id, q.arg.label.device = d
          PROVE  Belongs(id, d)
      <3>1. Says(r, id, d)
        BY <1>1, <2>1 DEF Says
      <3> QED BY <1>3, <3>1 DEF Belongs
    <2>2. ASSUME Says(q, id, d) PROVE Belongs(id, d)
      <3>1. CASE q.op = "deleteLabel"
        <4>1. Says(r, id, d)
          BY <1>1, <2>2, <3>1 DEF Says
        <4> QED BY <1>3, <4>1 DEF Belongs
      <3>2. CASE q.op = "createLabel"
        BY <1>1, <2>1, <2>2, <3>2 DEF Says
      <3>3. CASE q.op = "fetchLabels"
        BY <1>1, <2>2, <3>3 DEF Says, Belongs
      <3> QED BY <2>2, <3>1, <3>2, <3>3 DEF Says
    <2>3. CASE \E l \in labels' : l.id = id /\ l.device = d
      BY <1>1, <2>1, <2>3 DEF Belongs
    <2>4. CASE \E s : Under(s)' /\ Says(s, id, d)
      BY <1>2, <2>2, <2>4 DEF Belongs
    <2>5. CASE id \in DOMAIN labelStore /\ labelStore[id] = d
      BY <2>5 DEF Belongs
    <2> QED BY <1>1, <1>4, <2>3, <2>4, <2>5 DEF Belongs
  <1> QED BY <1>1, <1>4, NothingNew, StoresResolve DEF LabelInv

\* What the store says of a label after a response was said before.
LEMMA AnswerTells ==
    ASSUME TabInv, NEW i \in 1 .. Len(requests), Answer(i), NEW id \in DOMAIN labelStore'
    PROVE  Belongs(id, labelStore'[id])
  <1> DEFINE r == requests[i]
  <1>0. Under(r)
    BY TakenFacts
  <1>1. CASE labelStore' = labelStore
    BY <1>1 DEF Belongs
  <1>2. CASE LabelsFetched(i) \/ LabelCreated(i)
    <2> DEFINE more == ById(r.data)
    <2>1. /\ labelStore' = AddMany(labelStore, more)
          /\ r.op \in {"fetchLabels", "createLabel"}
      BY <1>2 DEF LabelsFetched, LabelCreated, Handled
    <2>2. \A x \in DOMAIN more : \E l \in r.data : l.id = x /\ l.device = more[x]
      BY DEF ById
    <2> HIDE DEF more
    <2>3. /\ DOMAIN labelStore' = DOMAIN labelStore \cup DOMAIN more
          /\ \A x \in DOMAIN labelStore : labelStore'[x] = labelStore[x]
          /\ \A x \in DOMAIN more \ DOMAIN labelStore : labelStore'[x] = more[x]
      BY <2>1 DEF AddMany
    <2>4. CASE id \in DOMAIN labelStore
      BY <2>3, <2>4 DEF Belongs
    <2>5. CASE id \notin DOMAIN labelStore
      <3>1. id \in DOMAIN more /\ labelStore'[id] = more[id]
        BY <2>3, <2>5
      <3>2. Says(r, id, labelStore'[id])
        BY <2>1, <2>2, <3>1 DEF Says
      <3> QED BY <1>0, <3>2 DEF Belongs
    <2> QED BY <2>4, <2>5
  <1>3. CASE LabelDeleted(i)
    <2>1. labelStore' = RemoveOne(labelStore, r.arg.id)
      BY <1>3 DEF LabelDeleted
    <2>2. DOMAIN labelStore' \subseteq DOMAIN labelStore /\ labelStore'[id] = labelStore[id]
      BY <2>1 DEF RemoveOne, Restrict
    <2> QED BY <2>2 DEF Belongs
  <1> QED
    BY <1>1, <1>2, <1>3
       DEF Answer, DevicesFetched, EventsFetched, DeviceCreated, DeviceDeleted, Rejected, stores

\* Answered labels come from a request, and deleted ones leave both stores.
LEMMA AnswerAgreement ==
    ASSUME TabInv, LabelInv, NEW i \in 1 .. Len(requests), Answer(i) PROVE Agreement'
  <1> DEFINE r == requests[i]
  <1>1. /\ requests' = RemoveAt(requests, i) /\ requests \in Seq(RequestSet)
        /\ UNCHANGED <<labels, drawn>>
    BY AnswerFacts DEF Handled, TabInv, RequestsOK, tables
  <1>2. Under(r) /\ \A s : Under(s)' => Under(s)
    BY <1>1, FlightRemoved, TakenFacts
  <1>3. \A id \in DOMAIN labelStore' : Belongs(id, labelStore'[id])
    BY AnswerTells
  <1>4. ASSUME NEW id, NEW d, Belongs(id, d)' PROVE Belongs(id, d)
    <2>1. CASE \E l \in labels' : l.id = id /\ l.device = d
      BY <1>1, <2>1 DEF Belongs
    <2>2. CASE \E s : Under(s)' /\ Says(s, id, d)
      BY <1>2, <2>2 DEF Belongs
    <2>3. CASE id \in DOMAIN labelStore' /\ labelStore'[id] = d
      BY <1>3, <2>3
    <2> QED BY <1>4, <2>1, <2>2, <2>3 DEF Belongs
  <1> QED BY <1>1, <1>4, NothingNew DEF LabelInv

\* What a response lists with a device is what the store has of the label.
LEMMA AnswerResolves ==
    ASSUME TabInv, LabelInv, NEW i \in 1 .. Len(requests), Answer(i) PROVE DeviceLabelsResolve'
  <1> DEFINE r == requests[i]
  <1>0. /\ Agreement /\ DeviceLabelsResolve
        /\ IsStore(deviceStore, Devices, SUBSET LabelIds) /\ IsStore(labelStore, LabelIds, Devices)
    BY DEF LabelInv, TabInv, StoresOK
  <1>1. /\ Under(r) /\ RequestOK(r) /\ r.arg \in ArgsOf(r.op) /\ r.data \subseteq DataOf(r.op)
    BY TakenFacts
  <1>2. ASSUME NEW d \in DOMAIN deviceStore, NEW id \in deviceStore[d]
        PROVE  id \in DOMAIN labelStore /\ labelStore[id] = d
    BY <1>0 DEF DeviceLabelsResolve
  <1>3. CASE EventsFetched(i) \/ \E op \in Ops : Rejected(i, op)
    BY <1>0, <1>3, StoresResolve DEF EventsFetched, Rejected, stores
  <1>4. CASE DevicesFetched(i) \/ DeviceCreated(i)
    <2>1. deviceStore' = AddMany(deviceStore, Fresh(r.data)) /\ labelStore' = labelStore
      BY <1>4 DEF DevicesFetched, DeviceCreated
    <2>2. \A d \in DOMAIN deviceStore' :
             (d \in DOMAIN deviceStore /\ deviceStore'[d] = deviceStore[d]) \/ deviceStore'[d] = {}
      BY <2>1 DEF AddMany, Fresh
    <2> QED BY <1>2, <2>1, <2>2 DEF DeviceLabelsResolve
  <1>5. CASE DeviceDeleted(i)
    <2>1. deviceStore' = RemoveOne(deviceStore, r.arg) /\ labelStore' = labelStore
      BY <1>5 DEF DeviceDeleted
    <2>2. \A d \in DOMAIN deviceStore' :
             d \in DOMAIN deviceStore /\ deviceStore'[d] = deviceStore[d]
      BY <2>1 DEF RemoveOne, Restrict
    <2> QED BY <1>2, <2>1, <2>2 DEF DeviceLabelsResolve
  \* Labels that were answered are in the store, with the device they name.
  <1>6. ASSUME LabelsFetched(i) \/ LabelCreated(i)
        PROVE  /\ \A id \in DOMAIN labelStore :
                     id \in DOMAIN labelStore' /\ labelStore'[id] = labelStore[id]
               /\ \A l \in r.data : l.id \in DOMAIN labelStore' /\ labelStore'[l.id] = l.device
    <2> DEFINE more == ById(r.data)
    <2>1. /\ labelStore' = AddMany(labelStore, more)
          /\ r.op \in {"fetchLabels", "createLabel"}
      BY <1>6 DEF LabelsFetched, LabelCreated, Handled
    <2>2. DOMAIN more = {l.id : l \in r.data}
      BY DEF ById
    <2> HIDE DEF more
    <2>3. /\ DOMAIN labelStore' = DOMAIN labelStore \cup DOMAIN more
          /\ \A x \in DOMAIN labelStore : labelStore'[x] = labelStore[x]
      BY <2>1 DEF AddMany
    <2>4. ASSUME NEW l \in r.data
          PROVE  l.id \in DOMAIN labelStore' /\ labelStore'[l.id] = l.device
      <3>1. l \in Label
        BY <1>1, <2>1 DEF DataOf
      <3>2. l.id \in DOMAIN labelStore' /\ l.id \in LabelIds /\ l.device \in Devices
        BY <2>2, <2>3, <3>1 DEF Label
      <3>3. Belongs(l.id, l.device)
        BY <1>1, <2>1 DEF Belongs, Says
      <3>4. Belongs(l.id, labelStore'[l.id])
        BY <3>2, AnswerTells
      <3>5. labelStore'[l.id] \in Devices
        BY <3>2, AnswerStores DEF StoresOK, IsStore
      <3> QED BY <1>0, <3>2, <3>3, <3>4, <3>5 DEF Agreement
    <2> QED BY <2>3, <2>4
  <1>7. CASE LabelsFetched(i)
    <2>1. deviceStore' = [d \in DOMAIN deviceStore |->
             deviceStore[d] \cup {l.id : l \in {k \in r.data : k.device = d}}]
      BY <1>7 DEF LabelsFetched
    <2>2. ASSUME NEW d \in DOMAIN deviceStore', NEW id \in deviceStore'[d]
          PROVE  id \in DOMAIN labelStore' /\ labelStore'[id] = d
      <3>1. d \in DOMAIN deviceStore
        BY <2>1
      <3>2. CASE id \in deviceStore[d]
        BY <1>2, <1>6, <1>7, <3>1, <3>2
      <3>3. CASE \E l \in r.data : l.device = d /\ l.id = id
        BY <1>6, <1>7, <3>3
      <3> QED BY <2>1, <2>2, <3>1, <3>2, <3>3
    <2> QED BY <2>2 DEF DeviceLabelsResolve
  <1>8. CASE LabelCreated(i)
    <2> DEFINE l == r.arg.label
    <2>1. deviceStore' = AddLabels(deviceStore, l.device, {l.id}) /\ r.data = {l}
      BY <1>1, <1>8 DEF LabelCreated, Handled, RequestOK
    <2> HIDE DEF l
    <2>2. /\ DOMAIN deviceStore' = DOMAIN deviceStore
          /\ \A d \in DOMAIN deviceStore :
                deviceStore'[d] = IF d = l.device THEN deviceStore[d] \cup {l.id} ELSE deviceStore[d]
      BY <2>1 DEF AddLabels
    <2>3. l.id \in DOMAIN labelStore' /\ labelStore'[l.id] = l.device
      BY <1>6, <1>8, <2>1
    <2> QED BY <1>2, <1>6, <1>8, <2>2, <2>3 DEF DeviceLabelsResolve
  <1>9. CASE LabelDeleted(i)
    <2> DEFINE a == r.arg
    <2>1. /\ labelStore' = RemoveOne(labelStore, a.id)
          /\ deviceStore' = IF a.device \in DOMAIN deviceStore
                            THEN [deviceStore EXCEPT ![a.device] = @ \ {a.id}]
                            ELSE deviceStore
          /\ r.op = "deleteLabel"
      BY <1>9 DEF LabelDeleted, Handled
    <2>2. a.id \in LabelIds /\ a.device \in Devices /\ Belongs(a.id, a.device)
      BY <1>1, <2>1 DEF Belongs, Says, ArgsOf, Fetches
    <2> HIDE DEF a
    <2>3. /\ DOMAIN labelStore' = DOMAIN labelStore \ {a.id}
          /\ \A x \in DOMAIN labelStore' : labelStore'[x] = labelStore[x]
      BY <2>1 DEF RemoveOne, Restrict
    <2>4. ASSUME NEW d \in DOMAIN deviceStore', NEW id \in deviceStore'[d]
          PROVE  id \in DOMAIN labelStore' /\ labelStore'[id] = d
      <3>1. d \in DOMAIN deviceStore /\ id \in deviceStore[d] /\ (d = a.device => id # a.id)
        BY <2>1, <2>4
      <3>2. id \in DOMAIN labelStore /\ labelStore[id] = d /\ d \in Devices
        BY <1>0, <1>2, <3>1 DEF IsStore
      <3>3. id # a.id
        <4>1. Belongs(id, d)
          BY <3>2 DEF Belongs
        <4> QED BY <1>0, <2>2, <3>1, <3>2, <4>1 DEF Agreement
      <3> QED BY <2>3, <3>2, <3>3
    <2> QED BY <2>4 DEF DeviceLabelsResolve
  <1> QED BY <1>3, <1>4, <1>5, <1>7, <1>8, <1>9 DEF Answer

LEMMA LabelNext == TabInv /\ LabelInv /\ [Next]_vars => LabelInv'
  <1> SUFFICES ASSUME TabInv, LabelInv, [Next]_vars PROVE LabelInv'
    OBVIOUS
  <1>1. CASE User
    BY <1>1, UserMakes, UserLabels
  <1>2. ASSUME NEW i \in 1 .. Len(requests), Answer(i) PROVE LabelInv'
    BY <1>2, AnswerAgreement, AnswerResolves DEF LabelInv
  <1>3. CASE ReceiveEvent
    BY <1>3, NothingChanged DEF ReceiveEvent, tables
  <1>4. ASSUME NEW i \in 1 .. Len(requests), Serve(i), UNCHANGED tab PROVE LabelInv'
    BY <1>4, ServeFacts, ServeLabels
  <1>5. ASSUME NEW e \in Events, Process(e), UNCHANGED tab PROVE LabelInv'
    <2>1. UNCHANGED <<labels, requests>>
      BY <1>5 DEF Process, NewEvent, SelectLabels, InsertEvent, SendEvent, tables
    <2> QED BY <1>5, <2>1, NothingChanged DEF tab, stores
  <1>6. CASE (Register \/ Disconnect) /\ UNCHANGED tab
    BY <1>6, NothingChanged DEF Register, Disconnect, tables, tab, stores
  <1>7. CASE UNCHANGED vars
    BY <1>7, NothingChanged DEF vars, backendVars, tables, tab, stores
  <1> QED BY <1>1, <1>2, <1>3, <1>4, <1>5, <1>6, <1>7 DEF Next, BackendNext

-----------------------------------------------------------------------------
(* Events *)

\* An event is in a list that is under way.
Listed(e) == \E r : Under(r) /\ r.op = "fetchEvents" /\ e \in r.data

LEMMA WayUnder ==
    ASSUME NEW e
    PROVE  OnItsWay(e) <=> jobs[e] = "send" \/ (\E k \in 1 .. Len(outbox) : outbox[k] = e) \/ Listed(e)
  BY DEF OnItsWay, Listed, Under

LEMMA EventInit == Init => EventInv
  <1> SUFFICES ASSUME Init PROVE EventInv
    OBVIOUS
  <1>1. Len(outbox) = 0 /\ DOMAIN eventStore = {}
    BY DEF Init, BackendInit, EmptyStore
  <1> QED BY <1>1 DEF EventInv, ShownWasStored, NoEventMissed, Init, BackendInit

\* A step that neither stores nor sends, and loses nothing that is listed.
LEMMA EventsKept ==
    ASSUME TabInv, EventInv, UNCHANGED <<inserted, jobs, outbox, socket>>, events' \subseteq events,
           covered' => covered, attached => attached',
           DOMAIN eventStore \subseteq DOMAIN eventStore', DOMAIN eventStore' \subseteq inserted,
           \A e \in events : Listed(e) => Listed(e)' \/ e \in DOMAIN eventStore'
    PROVE  EventInv'
  <1>1. NoEventMissed'
    <2> SUFFICES ASSUME covered', socket' = "open", NEW e \in events'
                 PROVE  e \in DOMAIN eventStore' \/ OnItsWay(e)'
      BY DEF NoEventMissed
    <2>1. e \in events /\ (e \in DOMAIN eventStore \/ OnItsWay(e))
      BY DEF EventInv, NoEventMissed
    <2>2. CASE OnItsWay(e) /\ ~Listed(e)
      BY <2>2, WayUnder DEF OnItsWay
    <2>3. CASE Listed(e)
      BY <2>1, <2>3, WayUnder DEF OnItsWay, Listed, Under
    <2> QED BY <2>1, <2>2, <2>3
  <1> QED BY <1>1 DEF EventInv, ShownWasStored

LEMMA UserEvents ==
    ASSUME TabInv, EventInv, NEW reqs, Made(reqs) PROVE EventInv'
  <1>1. /\ reqs \in Seq(RequestSet) /\ requests' = requests \o reqs /\ requests \in Seq(RequestSet)
        /\ UNCHANGED <<inserted, events, jobs, outbox, socket, covered, eventStore>>
        /\ attached => attached'
    BY DEF Made, DispatchAll, TabInv, RequestsOK, tables, push, stores
  <1>2. \A r : Under(r) => Under(r)'
    BY <1>1, FlightAdded
  <1>3. \A e : Listed(e) => Listed(e)'
    BY <1>2 DEF Listed
  <1>4. DOMAIN eventStore \subseteq inserted
    BY DEF EventInv, ShownWasStored
  <1> QED BY <1>1, <1>3, <1>4, EventsKept

LEMMA AnswerEvents ==
    ASSUME TabInv, EventInv, NEW i \in 1 .. Len(requests), Answer(i) PROVE EventInv'
  <1> DEFINE r == requests[i]
  <1>1. /\ requests' = RemoveAt(requests, i) /\ requests \in Seq(RequestSet)
        /\ UNCHANGED <<inserted, events, jobs, outbox, socket, covered, attached>>
    BY AnswerFacts DEF Handled, TabInv, RequestsOK, tables, push
  <1>2. RequestOK(r) /\ \A s : Under(s) => Under(s)' \/ s = r
    BY <1>1, FlightRemoved, TakenFacts
  <1>3. DOMAIN eventStore \subseteq inserted
    BY DEF EventInv, ShownWasStored
  <1>4. CASE EventsFetched(i)
    <2>1. eventStore' = AddMany(eventStore, Fresh(r.data)) /\ r.op = "fetchEvents"
      BY <1>4 DEF EventsFetched, Handled
    <2>2. DOMAIN eventStore' = DOMAIN eventStore \cup r.data /\ r.data \subseteq inserted
      BY <1>2, <2>1 DEF AddMany, Fresh, RequestOK
    <2>3. \A e : Listed(e) => Listed(e)' \/ e \in r.data
      BY <1>2 DEF Listed
    <2> QED BY <1>1, <1>3, <2>2, <2>3, EventsKept
  <1>5. CASE ~EventsFetched(i)
    <2>1. DOMAIN eventStore' = DOMAIN eventStore
      <3>1. CASE LabelCreated(i)
        BY <3>1 DEF LabelCreated, AddLabels
      <3>2. CASE ~LabelCreated(i)
        BY <1>5, <3>2 DEF Answer, DevicesFetched, LabelsFetched, DeviceCreated, DeviceDeleted,
                          LabelDeleted, Rejected, stores
      <3> QED BY <3>1, <3>2
    <2>2. r.op = "fetchEvents" => r.data = {}
      <3>1. r.op = "fetchEvents" => \E op \in Ops : Rejected(i, op)
        BY <1>5 DEF Answer, DevicesFetched, LabelsFetched, DeviceCreated, DeviceDeleted,
                    LabelCreated, LabelDeleted, Handled
      <3> QED BY <1>2, <3>1 DEF Rejected, Handled, RequestOK
    <2>3. \A e : Listed(e) => Listed(e)'
      BY <1>2, <2>2 DEF Listed
    <2> QED BY <1>1, <1>3, <2>1, <2>3, EventsKept
  <1> QED BY <1>4, <1>5

\* A list is made of all the events stored so far.
LEMMA ServeEvents ==
    ASSUME TabInv, EventInv, NEW i \in 1 .. Len(requests), NEW q, Served(i, q), UNCHANGED tab
    PROVE  EventInv'
  <1> DEFINE r == requests[i]
  <1>1. /\ q \in RequestSet /\ requests' = [requests EXCEPT ![i] = q] /\ q.op = r.op
        /\ requests \in Seq(RequestSet) /\ r.state = "sent"
        /\ UNCHANGED <<inserted, jobs, outbox, socket, eventStore, attached>>
        /\ events' \subseteq events
        /\ covered' <=> covered \/ (q.op = "fetchEvents" /\ socket = "open" /\ q.status = 200)
        /\ q.op = "fetchEvents" /\ q.status = 200 => q.data = events
    BY DEF Served, Reply, TabInv, RequestsOK, tab, stores, push
  <1>2. RequestOK(r)
    BY TakenFacts
  <1>3. Under(q)' /\ \A s : Under(s) => Under(s)' \/ s = r
    BY <1>1, FlightChanged
  <1>4. \A e : Listed(e) => Listed(e)'
    BY <1>1, <1>2, <1>3 DEF Listed, RequestOK
  <1>5. DOMAIN eventStore \subseteq inserted
    BY DEF EventInv, ShownWasStored
  <1>6. CASE covered' => covered
    BY <1>1, <1>4, <1>5, <1>6, EventsKept
  <1>7. CASE covered' /\ ~covered
    <2>1. q.op = "fetchEvents" /\ socket = "open" /\ q.data = events /\ attached
      BY <1>1, <1>2, <1>7 DEF RequestOK
    <2>2. \A e \in events' : Listed(e)'
      BY <1>1, <1>3, <2>1 DEF Listed
    <2>3. \A e \in events' : OnItsWay(e)'
      BY <2>2 DEF Listed, Under, OnItsWay
    <2>4. NoEventMissed'
      BY <2>3 DEF NoEventMissed
    <2> QED BY <1>1, <2>1, <2>4 DEF EventInv, ShownWasStored
  <1> QED BY <1>6, <1>7

\* The event saga listens whenever it matters, so what arrives is shown.
LEMMA ReceiveEvents ==
    ASSUME TabInv, EventInv, ReceiveEvent PROVE EventInv'
  <1>1. /\ outbox # << >> /\ outbox \in Seq(Events) /\ outbox' = Tail(outbox)
        /\ UNCHANGED <<inserted, events, requests, jobs, socket, covered, attached>>
        /\ eventStore' = IF attached THEN AddMany(eventStore, Fresh({Head(outbox)})) ELSE eventStore
    BY DEF ReceiveEvent, TabInv, PushOK, tables
  <1>2. /\ Len(outbox) \in Nat /\ Len(outbox) > 0 /\ Head(outbox) = outbox[1]
        /\ Len(outbox') = Len(outbox) - 1
        /\ \A k \in 1 .. Len(outbox') : outbox'[k] = outbox[k + 1] /\ k + 1 \in 1 .. Len(outbox)
    <2>1. Len(outbox) \in Nat /\ Len(outbox) > 0
      BY <1>1, LenProperties, EmptySeq
    <2> QED BY <1>1, <2>1, HeadTailProperties
  <1>3. /\ DOMAIN eventStore \subseteq DOMAIN eventStore'
        /\ DOMAIN eventStore' \subseteq DOMAIN eventStore \cup {outbox[1]}
        /\ attached => outbox[1] \in DOMAIN eventStore'
    BY <1>1, <1>2 DEF AddMany, Fresh
  <1>4. /\ DOMAIN eventStore \subseteq inserted
        /\ \A k \in 1 .. Len(outbox) : outbox[k] \in inserted /\ jobs[outbox[k]] = "done"
        /\ \A k, m \in 1 .. Len(outbox) : k # m => outbox[k] # outbox[m]
        /\ covered => attached /\ socket # "connecting"
        /\ \A e \in Events : jobs[e] = "send" => e \in inserted
    BY DEF EventInv, ShownWasStored
  <1>5. ShownWasStored'
    <2>1. outbox[1] \in inserted
      BY <1>2, <1>4
    <2>2. \A k, m \in 1 .. Len(outbox') : k # m => outbox'[k] # outbox'[m]
      BY SMTT(30), <1>2, <1>4
    <2> QED BY <1>1, <1>3, <1>4, <2>1, <2>2 DEF ShownWasStored
  <1>6. NoEventMissed'
    <2> SUFFICES ASSUME covered', socket' = "open", NEW e \in events'
                 PROVE  e \in DOMAIN eventStore' \/ OnItsWay(e)'
      BY DEF NoEventMissed
    <2>1. e \in DOMAIN eventStore \/ OnItsWay(e)
      BY <1>1 DEF EventInv, NoEventMissed
    <2>2. ASSUME NEW k \in 1 .. Len(outbox), outbox[k] = e
          PROVE  e \in DOMAIN eventStore' \/ OnItsWay(e)'
      <3>1. CASE k = 1
        BY <1>1, <1>3, <1>4, <2>2, <3>1
      <3>2. CASE k # 1
        <4>1. k - 1 \in 1 .. Len(outbox') /\ (k - 1) + 1 = k
          BY <1>2, <3>2
        <4>2. outbox'[k - 1] = e
          BY <1>2, <2>2, <4>1
        <4> QED BY <4>1, <4>2 DEF OnItsWay
      <3> QED BY <3>1, <3>2
    <2> QED BY <1>1, <1>3, <2>1, <2>2 DEF OnItsWay
  <1>7. \A k \in 1 .. Len(outbox') : outbox'[k] \in inserted /\ jobs[outbox'[k]] = "done"
    BY <1>2, <1>4
  <1> QED BY <1>1, <1>4, <1>5, <1>6, <1>7 DEF EventInv

\* EventProcessor stores an event before it sends it, and sends it once.
LEMMA ProcessEvents ==
    ASSUME TabInv, EventInv, NEW e \in Events, Process(e), UNCHANGED tab PROVE EventInv'
  <1>1. /\ jobs \in [Events -> {"none", "select", "insert", "send", "done", "dropped"}]
        /\ outbox \in Seq(Events) /\ UNCHANGED <<requests, socket, covered, attached, eventStore>>
    BY DEF Process, NewEvent, SelectLabels, InsertEvent, SendEvent, TabInv, PushOK, tab, stores
  <1>2. /\ DOMAIN eventStore \subseteq inserted
        /\ \A k \in 1 .. Len(outbox) : outbox[k] \in inserted /\ jobs[outbox[k]] = "done"
        /\ \A k, m \in 1 .. Len(outbox) : k # m => outbox[k] # outbox[m]
        /\ covered => attached /\ socket # "connecting"
        /\ \A f \in Events : jobs[f] = "send" => f \in inserted
    BY DEF EventInv, ShownWasStored
  <1>3. Len(outbox) \in Nat /\ \A k \in 1 .. Len(outbox) : outbox[k] \in Events
    BY <1>1, LenProperties, ElementOfSeq
  <1>4. \A f : Listed(f) => Listed(f)'
    BY <1>1 DEF Listed, Under
  \* The steps before the sending.
  <1>5. ASSUME NEW s \in {"select", "insert", "send", "dropped"}, jobs' = [jobs EXCEPT ![e] = s],
               jobs[e] \in {"none", "select", "insert"}, outbox' = outbox,
               \/ UNCHANGED <<events, inserted>> /\ s # "send"
               \/ /\ events' = events \cup {e} /\ inserted' = inserted \cup {e}
                  /\ s = "send"
        PROVE  EventInv'
    <2>1. /\ \A f \in Events : jobs'[f] = "send" => f \in inserted'
          /\ \A k \in 1 .. Len(outbox) : outbox[k] \in inserted' /\ jobs'[outbox[k]] = "done"
          /\ DOMAIN eventStore \subseteq inserted'
      BY <1>1, <1>2, <1>3, <1>5
    <2>2. NoEventMissed'
      <3> SUFFICES ASSUME covered, socket = "open", NEW f \in events'
                   PROVE  f \in DOMAIN eventStore \/ OnItsWay(f)'
        BY <1>1 DEF NoEventMissed
      <3>1. CASE f = e /\ jobs'[e] = "send"
        BY <3>1 DEF OnItsWay
      <3>2. CASE ~(f = e /\ jobs'[e] = "send")
        <4>1. f \in events
          BY <1>1, <1>5, <3>2
        <4>2. f \in DOMAIN eventStore \/ OnItsWay(f)
          BY <4>1 DEF EventInv, NoEventMissed
        <4>3. jobs[f] = "send" => jobs'[f] = "send"
          BY <1>1, <1>5
        <4> QED BY <1>1, <1>5, <4>2, <4>3 DEF OnItsWay
      <3> QED BY <3>1, <3>2
    <2> QED BY <1>1, <1>2, <1>5, <2>1, <2>2 DEF EventInv, ShownWasStored
  <1>6. CASE NewEvent(e)
    BY <1>5, <1>6 DEF NewEvent, tables
  <1>7. CASE SelectLabels(e)
    BY <1>5, <1>7 DEF SelectLabels, tables
  <1>8. CASE InsertEvent(e)
    BY <1>5, <1>8 DEF InsertEvent
  <1>9. CASE SendEvent(e)
    <2>1. /\ jobs[e] = "send" /\ jobs' = [jobs EXCEPT ![e] = "done"] /\ UNCHANGED <<events, inserted>>
          /\ outbox' = IF socket = "open" THEN Append(outbox, e) ELSE outbox
      BY <1>9 DEF SendEvent, tables
    <2>2. /\ Len(outbox') \in Nat
          /\ \A k \in 1 .. Len(outbox) : k \in 1 .. Len(outbox') /\ outbox'[k] = outbox[k]
          /\ \A k \in 1 .. Len(outbox') :
                k \in 1 .. Len(outbox) \/ (k = Len(outbox) + 1 /\ outbox'[k] = e)
          /\ socket = "open" => Len(outbox') = Len(outbox) + 1 /\ outbox'[Len(outbox) + 1] = e
      BY <1>1, <1>3, <2>1, AppendProperties
    <2>3. e \in inserted /\ \A k \in 1 .. Len(outbox) : outbox[k] # e
      BY <1>2, <2>1
    <2>4. /\ \A f \in Events : jobs'[f] = "send" => f \in inserted
          /\ \A k \in 1 .. Len(outbox') : outbox'[k] \in inserted /\ jobs'[outbox'[k]] = "done"
      BY <1>1, <1>2, <1>3, <2>1, <2>2, <2>3
    <2>5. \A k, m \in 1 .. Len(outbox') : k # m => outbox'[k] # outbox'[m]
      BY <1>2, <2>2, <2>3
    <2>6. NoEventMissed'
      <3> SUFFICES ASSUME covered, socket = "open", NEW f \in events
                   PROVE  f \in DOMAIN eventStore \/ OnItsWay(f)'
        BY <1>1, <2>1 DEF NoEventMissed
      <3>1. CASE f = e
        <4>1. Len(outbox) + 1 \in 1 .. Len(outbox') /\ outbox'[Len(outbox) + 1] = f
          BY <1>3, <2>2, <3>1
        <4> QED BY <4>1 DEF OnItsWay
      <3>2. CASE f # e
        <4>1. f \in DOMAIN eventStore \/ OnItsWay(f)
          BY DEF EventInv, NoEventMissed
        <4>2. jobs[f] = "send" => jobs'[f] = "send"
          BY <1>1, <2>1, <3>2
        <4> QED BY <1>1, <2>2, <4>1, <4>2 DEF OnItsWay
      <3> QED BY <3>1, <3>2
    <2> QED BY <1>1, <1>2, <2>1, <2>4, <2>5, <2>6 DEF EventInv, ShownWasStored
  <1> QED BY <1>6, <1>7, <1>8, <1>9 DEF Process

LEMMA SocketEvents ==
    ASSUME EventInv, Register \/ Disconnect, UNCHANGED tab PROVE EventInv'
  <1>1. UNCHANGED <<inserted, events, requests, jobs, covered, attached, eventStore>>
    BY DEF Register, Disconnect, tables, tab, stores
  <1>2. CASE Register
    BY <1>1, <1>2 DEF Register, EventInv, ShownWasStored, NoEventMissed
  <1>3. CASE Disconnect
    <2>1. outbox' = << >> /\ Len(outbox') = 0 /\ socket' = "closed"
      BY <1>3 DEF Disconnect
    <2> QED BY <1>1, <2>1 DEF EventInv, ShownWasStored, NoEventMissed
  <1> QED BY <1>2, <1>3

LEMMA EventNext == TabInv /\ LabelInv /\ EventInv /\ [Next]_vars => EventInv'
  <1> SUFFICES ASSUME TabInv, LabelInv, EventInv, [Next]_vars PROVE EventInv'
    OBVIOUS
  <1>1. CASE User
    BY <1>1, UserMakes, UserEvents
  <1>2. ASSUME NEW i \in 1 .. Len(requests), Answer(i) PROVE EventInv'
    BY <1>2, AnswerEvents
  <1>3. CASE ReceiveEvent
    BY <1>3, ReceiveEvents
  <1>4. ASSUME NEW i \in 1 .. Len(requests), Serve(i), UNCHANGED tab PROVE EventInv'
    BY <1>4, ServeFacts, ServeEvents
  <1>5. ASSUME NEW e \in Events, Process(e), UNCHANGED tab PROVE EventInv'
    BY <1>5, ProcessEvents
  <1>6. CASE (Register \/ Disconnect) /\ UNCHANGED tab
    BY <1>6, SocketEvents
  <1>7. CASE UNCHANGED vars
    BY <1>7 DEF vars, backendVars, tables, push, tab, stores, EventInv, ShownWasStored,
                NoEventMissed, OnItsWay
  <1> QED BY <1>1, <1>2, <1>3, <1>4, <1>5, <1>6, <1>7 DEF Next, BackendNext

-----------------------------------------------------------------------------
(* Theorems *)

TabAndLabels == TabInv /\ LabelInv

LEMMA TabAndLabelsHold == Spec => []TabAndLabels
  <1>1. Init => TabAndLabels
    BY TabInvInit, LabelInit DEF TabAndLabels
  <1>2. TabAndLabels /\ [Next]_vars => TabAndLabels'
    BY TabInvNext, LabelNext DEF TabAndLabels
  <1> QED BY <1>1, <1>2, PTL DEF Spec

\* For any devices, labels, events and number of requests, the tables, the
\* queues and the stores of the tab hold only what they are meant for, and no
\* more requests are under way than were made.
THEOREM DashboardTypeCorrect == Spec => []DashboardTypeOK
  <1>1. TabAndLabels => DashboardTypeOK
    BY DEF TabAndLabels, TabInv, RequestsOK, RowsOK, PushOK, StoresOK, DashboardTypeOK
  <1> QED BY <1>1, TabAndLabelsHold, PTL

\* For any number of labels and requests, the labels listed with a device are
\* in the label store as labels of that device, however fetches, creations and
\* deletions overtake each other (addDevicesLabels, deleteDevicesLabels).
THEOREM LabelsResolve == Spec => []DeviceLabelsResolve
  <1>1. TabAndLabels => DeviceLabelsResolve
    BY DEF TabAndLabels, LabelInv
  <1> QED BY <1>1, TabAndLabelsHold, PTL

\* For any number of requests, each status that is pending has a request under
\* way that will settle it (the sagas of devices, labels and events).
THEOREM PendingAwaited == Spec => []PendingIsAwaited
  <1>1. Init => PendingIsAwaited
    BY AwaitedInit
  <1>2. PendingIsAwaited /\ TabAndLabels /\ [Next]_vars => PendingIsAwaited'
    BY AwaitedNext DEF TabAndLabels
  <1> QED BY <1>1, <1>2, TabAndLabelsHold, PTL DEF Spec

LEMMA EventInvHolds == Spec => []EventInv
  <1>1. Init => EventInv
    BY EventInit
  <1>2. EventInv /\ TabAndLabels /\ [Next]_vars => EventInv'
    BY EventNext DEF TabAndLabels
  <1> QED BY <1>1, <1>2, TabAndLabelsHold, PTL DEF Spec

\* For any number of events and requests, no event is missed once a list was
\* made with the socket registered: the list and the pushes of WsManager
\* together leave no gap.
THEOREM NothingMissed == Spec => []NoEventMissed
  <1>1. EventInv => NoEventMissed
    BY DEF EventInv
  <1> QED BY <1>1, EventInvHolds, PTL

\* For any number of events, what is shown was accepted by the database, and
\* EventProcessor pushes no event twice.
THEOREM OnlyStoredShown == Spec => []ShownWasStored
  <1>1. EventInv => ShownWasStored
    BY DEF EventInv
  <1> QED BY <1>1, EventInvHolds, PTL
=============================================================================
