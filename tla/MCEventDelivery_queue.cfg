SPECIFICATION Spec
CONSTANTS
    Events = {e1, e2}
    e1 = e1
    e2 = e2
    QueueCapacity = 5
    Fragments = 2
    AuthOutcomes = {"found", "refused", "mailbox"}
    StoreOutcomes = {TRUE, FALSE}
    MaxBreaks = 1
    MaxTimeouts = 1
    MaxUnserved = 1
INVARIANT DeliveryTypeOK
INVARIANT ReconnectPending
INVARIANT NothingForgotten
INVARIANT FreedOnce
INVARIANT BoundedConnects
INVARIANT NeverOverflows
CHECK_DEADLOCK FALSE
