SPECIFICATION Spec
CONSTANTS
    Events = {e1, e2}
    e1 = e1
    e2 = e2
    QueueCapacity = 5
    Fragments = 1
    AuthOutcomes = {"found"}
    StoreOutcomes = {TRUE, FALSE}
    MaxBreaks = 0
    MaxTimeouts = 1
    MaxUnserved = 1
INVARIANT AckMeansAccepted
CHECK_DEADLOCK FALSE
