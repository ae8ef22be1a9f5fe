-------------------------------- MODULE Wifi --------------------------------
(***************************************************************************)
(* Delivery over the wifi of the device: WIFI of bug/src/wifi.h, with an   *)
(* event queue and a thread of its own, below the TCPClient of             *)
(* EventDelivery.                                                          *)
(*                                                                         *)
(* The wifi module may break while its status still reads as connected.    *)
(* Only the TCP client notices: its calls fail with a device error, which  *)
(* it reports, and every few errors call for a connect_callback, which     *)
(* resets the module.  connect_callback calls itself again in 5 s if it    *)
(* failed to join the access point, or if it joined it and the time could  *)
(* not be had.                                                             *)
(*                                                                         *)
(* The driver, the access point and the time server are external.  The     *)
(* driver reports a status only while connect() or disconnect() runs.      *)
(***************************************************************************)
EXTENDS EventDelivery

CONSTANTS
    ErrorThreshold, \* DEVICE_ERROR_COUNT_THRETHOLD
    MaxErrors,      \* bound: errors counted while the weak compare-exchange fails
    MaxCalls        \* bound: connect_callbacks that wait

ASSUME WifiAssumption ==
    /\ ErrorThreshold \in Nat /\ MaxErrors \in Nat /\ MaxCalls \in Nat
    /\ MaxErrors > ErrorThreshold

VARIABLES
    status,     \* _connection_status: "up" or "down"
    radio,      \* whether the module really works: "ok" or "broken"
    thread,     \* the thread of WIFI: "idle", "joining" or "syncing"
    calls,      \* connect_callbacks that are due
    timers,     \* connect_callbacks that are called in 5 s
    errors,     \* _error_count of device errors
    synced      \* whether _ntp_secs is set

wifi == <<status, radio, thread, calls, timers, errors, synced>>
wifiVars == <<vars, wifi>>

WifiInit ==
    /\ Init
    /\ status = "down"
    /\ radio = "ok"
    /\ thread = "idle"
    /\ calls = 1
    /\ timers = 0
    /\ errors = 0
    /\ synced = FALSE

\* The connection of the socket is lost with the wifi.
LinkLost == links' = IF conn = 0 THEN links ELSE [links EXCEPT ![conn].up = FALSE]

Fault == breaks < MaxBreaks /\ breaks' = breaks + 1 /\ UNCHANGED timeouts

-----------------------------------------------------------------------------
(* Errors the TCP client reports *)

\* A count beyond the threshold is noted, and nothing is done about it.
ReportErrorOnlyCounts(err) ==
    /\ errors' = IF err = "device" /\ errors < MaxErrors THEN errors + 1 ELSE errors
    /\ UNCHANGED calls

\* report_error().  The weak compare-exchange may fail without a reason; the
\* count then stays for the next error.
ReportError(err) ==
    LET count == errors + 1 IN
    \/ /\ err # "device"
       /\ UNCHANGED <<errors, calls>>
    \/ /\ err = "device"
       /\ count <= ErrorThreshold \/ count < MaxErrors
       /\ errors' = count
       /\ UNCHANGED calls
    \/ /\ err = "device"
       /\ count > ErrorThreshold
       /\ errors' = count - ErrorThreshold
       /\ calls' = calls + 1

\* RETRY of send_callback reports once for each connect it calls.
RetryReports(err) ==
    /\ IF connecting THEN UNCHANGED <<errors, calls>> ELSE ReportError(err)
    /\ UNCHANGED <<status, radio, thread, timers, synced>>

\* A dead connection shows as a closed socket, or as a device error.
LinkDownReported == LinkDown /\ \E err \in {"none", "device"} : RetryReports(err)

SendFailureReported == SendFails /\ \E err \in {"other", "device"} : RetryReports(err)

TimeoutReported == ResponseTimeout /\ RetryReports("other")

\* A turn of the loop of connect_socket_callback that succeeds; while the
\* status is down the loop only waits.
ConnectOverWifi ==
    /\ status = "up" /\ radio = "ok"
    /\ Connect
    /\ UNCHANGED wifi

\* open() or connect() fails: the module is broken, or nobody answers.
ConnectFails ==
    /\ current = ConnectCb
    /\ status = "up"
    /\ calls < MaxCalls
    /\ IF radio = "ok" THEN Fault ELSE UNCHANGED faults
    /\ ReportError("device")
    /\ UNCHANGED <<device, links, backend, status, radio, thread, timers, synced>>

-----------------------------------------------------------------------------
(* The thread of WIFI *)

\* connect_callback() begins, and with it connect(): disconnect() and reset().
BeginConnect ==
    /\ thread = "idle"
    /\ calls > 0
    /\ calls' = calls - 1
    /\ thread' = "joining"
    /\ status' = "down"
    /\ LinkLost
    /\ UNCHANGED <<device, backend, faults, radio, timers, errors, synced>>

\* connect_callback() is called again whatever connect() returned.
JoinThenRetry ==
    /\ thread = "joining"
    /\ radio' = "ok"
    /\ status' = "up"
    /\ thread' = IF synced THEN "idle" ELSE "syncing"
    /\ timers' = IF synced THEN timers + 1 ELSE timers
    /\ UNCHANGED <<vars, calls, errors, synced>>

\* The module was reset and joins the access point; the time is asked for
\* only if it was never had.
Join ==
    /\ thread = "joining"
    /\ radio' = "ok"
    /\ status' = "up"
    /\ thread' = IF synced THEN "idle" ELSE "syncing"
    /\ UNCHANGED <<vars, calls, timers, errors, synced>>

SyncTimestamp ==
    /\ thread = "syncing"
    /\ radio = "ok"
    /\ synced' = TRUE
    /\ thread' = "idle"
    /\ UNCHANGED <<vars, status, radio, calls, timers, errors>>

\* The failure is reported and forgotten.
RetryConnectGivesUp ==
    /\ thread' = "idle"
    /\ UNCHANGED <<timers, calls, errors, synced>>

\* connect() returned an error: connect_callback again in 5 s.
RetryConnect ==
    /\ thread' = "idle"
    /\ timers' = timers + 1
    /\ UNCHANGED <<calls, errors, synced>>

JoinFails ==
    /\ thread = "joining"
    /\ Fault
    /\ radio' = "ok"
    /\ RetryConnect
    /\ UNCHANGED <<device, links, backend, status>>

\* The access point is joined, and will be left again for the sake of the time.
SyncFails ==
    /\ thread = "syncing"
    /\ IF radio = "ok" THEN Fault ELSE UNCHANGED faults
    /\ RetryConnect
    /\ UNCHANGED <<device, links, backend, status, radio>>

ConnectDue ==
    /\ timers > 0
    /\ timers' = timers - 1
    /\ calls' = calls + 1
    /\ UNCHANGED <<vars, status, radio, thread, errors, synced>>

\* The module breaks, and its status does not show it.
RadioBreaks ==
    /\ status = "up" /\ radio = "ok"
    /\ Fault
    /\ radio' = "broken"
    /\ LinkLost
    /\ UNCHANGED <<device, backend, status, thread, calls, timers, errors, synced>>

-----------------------------------------------------------------------------

\* What the wifi has no part in.
Elsewhere ==
    /\ \/ \E e \in Events : Produce(e) \/ Store(e)
       \/ TimerFires \/ Dispatch \/ Send \/ Response
       \/ Break \/ EventServerStops \/ BackendRestarts
       \/ Reads \/ Authenticates
    /\ UNCHANGED wifi

Client ==
    ConnectOverWifi \/ ConnectFails \/ LinkDownReported \/ SendFailureReported \/ TimeoutReported

WifiThread ==
    BeginConnect \/ Join \/ JoinFails \/ SyncTimestamp \/ SyncFails \/ ConnectDue

WifiNext == Elsewhere \/ Client \/ WifiThread \/ RadioBreaks

WifiSpec == WifiInit /\ [][WifiNext]_wifiVars

\* As Fairness of EventDelivery, except that nothing is assumed of the wifi but
\* that its thread runs and its timers fire.  What fails is bounded by MaxBreaks.
WifiFairness ==
    /\ WF_wifiVars(TimerFires /\ UNCHANGED wifi)
    /\ WF_wifiVars((Dispatch \/ Send \/ Response) /\ UNCHANGED wifi)
    /\ WF_wifiVars(Reads /\ UNCHANGED wifi)
    /\ WF_wifiVars(Authenticates /\ UNCHANGED wifi)
    /\ WF_wifiVars(~listening /\ BackendRestarts /\ UNCHANGED wifi)
    /\ WF_wifiVars(LinkDownReported)
    /\ WF_wifiVars(TimeoutReported)
    /\ WF_wifiVars(ConnectOverWifi)
    /\ WF_wifiVars(radio = "broken" /\ ConnectFails)
    /\ WF_wifiVars(WifiThread)

WifiFairSpec == WifiSpec /\ WifiFairness

-----------------------------------------------------------------------------
(* Properties *)

\* While the status is down nobody reports an error, so a repair must already
\* be under way: connect_callback runs, is due, or waits for its 5 s.
WifiBeingRepaired ==
    status = "down" => thread # "idle" \/ calls > 0 \/ timers > 0

\* A reset breaks the connection, the broken connection is reported as one
\* more error, and errors ask for a reset: still, once failures end the wifi
\* is left alone, however many callbacks were called for meanwhile.
RepairsEnd == <>[](calls = 0 /\ timers = 0 /\ thread = "idle")
=============================================================================
