----------------------------- MODULE WifiProofs -----------------------------
(***************************************************************************)
(* The wifi of the device, for every threshold and history of failures: a  *)
(* wifi that is down is being repaired, and no reset or failure of it makes*)
(* the TCP client forget an event or a reconnect, or touch a deleted       *)
(* buffer.                                                                 *)
(***************************************************************************)
EXTENDS Wifi, EventDeliveryProofs

WifiTypeOK ==
    /\ status \in {"up", "down"}
    /\ thread \in {"idle", "joining", "syncing"}
    /\ calls \in Nat /\ timers \in Nat

\* The time is asked for over a wifi that is up.
SyncsWhileUp == thread = "syncing" => status = "up"

WifiInv == WifiTypeOK /\ SyncsWhileUp /\ WifiBeingRepaired

\* report_error() only ever adds a callback.
LEMMA ReportFacts ==
    ASSUME NEW err, calls \in Nat, ReportError(err)
    PROVE  calls' \in Nat /\ calls' >= calls
    BY DEF ReportError

LEMMA RetryReportsFacts ==
    ASSUME NEW err, calls \in Nat, RetryReports(err)
    PROVE  /\ calls' \in Nat /\ calls' >= calls
           /\ UNCHANGED <<status, thread, timers>>
    BY ReportFacts DEF RetryReports

LEMMA WifiInitInv == WifiInit => WifiInv
    BY DEF WifiInit, WifiInv, WifiTypeOK, SyncsWhileUp, WifiBeingRepaired

LEMMA WifiStep == WifiInv /\ [WifiNext]_wifiVars => WifiInv'
<1> SUFFICES ASSUME WifiInv, [WifiNext]_wifiVars
             PROVE  WifiInv'
    OBVIOUS
<1> USE DEF WifiInv, WifiTypeOK, SyncsWhileUp, WifiBeingRepaired
<1>1. CASE Elsewhere \/ ConnectOverWifi
    BY <1>1 DEF Elsewhere, ConnectOverWifi, wifi
<1>2. CASE LinkDownReported \/ SendFailureReported \/ TimeoutReported
    BY <1>2, RetryReportsFacts DEF LinkDownReported, SendFailureReported, TimeoutReported
<1>3. CASE ConnectFails
    BY <1>3, ReportFacts DEF ConnectFails
<1>4. CASE BeginConnect
    BY <1>4 DEF BeginConnect
<1>5. CASE Join
    BY <1>5 DEF Join
<1>6. CASE SyncTimestamp
    BY <1>6 DEF SyncTimestamp
<1>7. CASE JoinFails \/ SyncFails
    BY <1>7 DEF JoinFails, SyncFails, RetryConnect
<1>8. CASE ConnectDue
    BY <1>8 DEF ConnectDue
<1>9. CASE RadioBreaks
    BY <1>9 DEF RadioBreaks
<1>10. CASE UNCHANGED wifiVars
    BY <1>10 DEF wifiVars, wifi
<1> QED
    BY <1>1, <1>2, <1>3, <1>4, <1>5, <1>6, <1>7, <1>8, <1>9, <1>10
    DEF WifiNext, Client, WifiThread

-----------------------------------------------------------------------------
(* The device over its wifi *)

\* A step of the wifi that no part of EventDelivery takes: it leaves the device
\* and the backend alone and may break the connection of the socket.
WifiOnly ==
    /\ UNCHANGED <<device, backend, timeouts>>
    /\ UNCHANGED links \/ LinkLost

LEMMA WifiStepKinds == [WifiNext]_wifiVars => Next \/ WifiOnly
<1>1. CASE Elsewhere
    BY <1>1 DEF Elsewhere, Next
<1>2. CASE ConnectOverWifi \/ LinkDownReported \/ SendFailureReported \/ TimeoutReported
    BY <1>2 DEF ConnectOverWifi, LinkDownReported, SendFailureReported, TimeoutReported, Next
<1>3. CASE ConnectFails \/ JoinFails \/ SyncFails
    BY <1>3 DEF ConnectFails, JoinFails, SyncFails, Fault, faults, WifiOnly
<1>4. CASE BeginConnect \/ RadioBreaks
    BY <1>4 DEF BeginConnect, RadioBreaks, Fault, faults, WifiOnly
<1>5. CASE Join \/ SyncTimestamp \/ ConnectDue \/ UNCHANGED wifiVars
    BY <1>5 DEF Join, SyncTimestamp, ConnectDue, wifiVars, vars, faults, WifiOnly
<1> QED
    BY <1>1, <1>2, <1>3, <1>4, <1>5 DEF WifiNext, Client, WifiThread

\* What the wifi does to the connection of the socket.
LEMMA WifiOnlyLinks ==
    ASSUME LinkTypeOK, WifiOnly
    PROVE  /\ LinkTypeOK'
           /\ ~Connected' \/ (UNCHANGED links /\ (Connected' => Connected))
<1>1. CASE UNCHANGED links
    BY <1>1 DEF WifiOnly, device, backend, LinkTypeOK, Connected
<1>2. CASE ~UNCHANGED links
  <2>1. /\ links' = [links EXCEPT ![conn] = [links[conn] EXCEPT !.up = FALSE]]
        /\ conn \in 1 .. Len(links)
    BY <1>2, LenProperties DEF WifiOnly, LinkLost, LinkTypeOK
  <2>2. links[conn] \in Links /\ DOMAIN links = 1 .. Len(links)
    BY <2>1, ElementOfSeq, LenProperties DEF LinkTypeOK
  <2>3. [links[conn] EXCEPT !.up = FALSE] \in Links /\ ~[links[conn] EXCEPT !.up = FALSE].up
    <3>1. [links[conn] EXCEPT !.up = FALSE] \in Links
      BY <2>2, LinkExcept
    <3>2. ~[links[conn] EXCEPT !.up = FALSE].up
      BY <2>2 DEF Links
    <3> QED BY <3>1, <3>2
  <2>4. LinkTypeOK'
    BY <2>1, <2>3, OneLinkChanged DEF WifiOnly, device, backend, LinkTypeOK
  <2>5. ~Connected'
    BY <2>1, <2>2, <2>3 DEF Connected, WifiOnly, device
  <2> QED
    BY <2>4, <2>5
<1> QED
    BY <1>1, <1>2

\* What the theorems about EventDelivery rest on survives every step below it.
WifiDelivery == DeviceInv /\ LinkTypeOK /\ ConnectsCounted

LEMMA WifiDeliveryStep == WifiDelivery /\ [WifiNext]_wifiVars => WifiDelivery'
<1> SUFFICES ASSUME WifiDelivery, [WifiNext]_wifiVars
             PROVE  WifiDelivery'
    OBVIOUS
<1>1. CASE Next
    BY <1>1, DeviceStep, LinkStep, ConnectsStep DEF WifiDelivery
<1>2. CASE WifiOnly
  <2>1. DeviceInv'
    BY <1>2, DeviceUnchanged DEF WifiOnly, device, WifiDelivery
  <2>2. ConnectsCounted'
    BY <1>2, ConnectsUnchanged DEF WifiOnly, device, WifiDelivery
  <2> QED
    BY <1>2, <2>1, <2>2, WifiOnlyLinks DEF WifiDelivery
<1> QED
    BY <1>1, <1>2, WifiStepKinds

LEMMA WifiDeliveryInvariant == WifiSpec => []WifiDelivery
<1>1. WifiInit => WifiDelivery
    BY DeviceInitInv, LinkInit, ConnectsInit DEF WifiInit, WifiDelivery
<1> QED
    BY <1>1, WifiDeliveryStep, PTL DEF WifiSpec

LEMMA WifiAckStep ==
    ASSUME Fragments = 1, MaxTimeouts = 0
    PROVE  WifiDelivery /\ AckInv /\ [WifiNext]_wifiVars => AckInv'
<1> SUFFICES ASSUME WifiDelivery, AckInv, [WifiNext]_wifiVars
             PROVE  AckInv'
    OBVIOUS
<1>1. CASE Next
    BY <1>1, AckStep DEF WifiDelivery
<1>2. CASE WifiOnly
    BY <1>2, WifiOnlyLinks, AckUnchanged DEF WifiOnly, device, backend, WifiDelivery
<1> QED
    BY <1>1, <1>2, WifiStepKinds

-----------------------------------------------------------------------------

\* While the wifi is down connect_callback runs, is due, or is called in 5 s,
\* for every threshold, whatever fails and however errors are reported.
THEOREM WifiIsBeingRepaired == WifiSpec => []WifiBeingRepaired
    BY WifiInitInv, WifiStep, PTL DEF WifiSpec, WifiInv

\* Over a wifi that breaks and is reset at any time the event queue of the
\* device still holds every reconnect it announced and every event that was
\* not deleted, no callback holds a deleted buffer, and at most two connects
\* are under way.
THEOREM WifiKeepsDelivery ==
    WifiSpec => [](ReconnectPending /\ NothingForgotten /\ FreedOnce /\ BoundedConnects)
<1>1. WifiDelivery => ReconnectPending /\ NothingForgotten /\ FreedOnce /\ BoundedConnects
    BY CountedIsBounded DEF WifiDelivery, DeviceInv
<1> QED
    BY <1>1, WifiDeliveryInvariant, PTL

\* The slots that are enough for the queue without a wifi are enough with it:
\* its errors call for connects on the other queue.
THEOREM WifiNeverOverflows ==
    ASSUME IsFiniteSet(Events)
    PROVE  WifiSpec => []NeverOverflows
<1>1. WifiInit => NeverOverflows
    BY ConnectsInit DEF WifiInit
<1>2. ASSUME WifiDelivery, NeverOverflows, [WifiNext]_wifiVars
      PROVE  NeverOverflows'
  <2>1. CASE Next
    BY <1>2, <2>1, OverflowStep DEF WifiDelivery
  <2>2. CASE WifiOnly
    BY <1>2, <2>2 DEF WifiOnly, device, NeverOverflows
  <2> QED
    BY <1>2, <2>1, <2>2, WifiStepKinds
<1> QED
    BY <1>1, <1>2, WifiDeliveryInvariant, PTL DEF WifiSpec

\* A reset of the wifi loses responses and never moves one to another event:
\* with events in one piece and no late response, a buffer that is deleted
\* was given to EventProcessor.
THEOREM WifiAcksAreOwn ==
    ASSUME Fragments = 1, MaxTimeouts = 0
    PROVE  WifiSpec => []AckMeansAccepted
<1>1. WifiInit => AckInv
    BY AckInit DEF WifiInit
<1> QED
    BY <1>1, WifiAckStep, WifiDeliveryInvariant, PTL DEF WifiSpec, AckInv
=============================================================================
