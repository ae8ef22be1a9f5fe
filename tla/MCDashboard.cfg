SPECIFICATION Spec
CONSTANTS
    Devices = {"d1", "d2"}
    Existing = {"d1"}
    LabelIds = {"l1", "l2"}
    Names = {"n"}
    Events = {"e1"}
    DeviceOf <- MCDeviceOf
    Failures = {"query", "response"}
    MaxRequests = 4
INVARIANT DashboardTypeOK
INVARIANT Referential
INVARIANT NoEventMissed
INVARIANT ShownWasStored
INVARIANT DeviceLabelsResolve
INVARIANT PendingIsAwaited
CHECK_DEADLOCK FALSE
