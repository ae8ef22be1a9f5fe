SPECIFICATION WifiFairSpec
CONSTANTS
    Events = {e1, e2}
    e1 = e1
    e2 = e2
    QueueCapacity = 5
    Fragments = 1
    AuthOutcomes = {"found", "refused", "mailbox"}
    StoreOutcomes = {TRUE}
    MaxBreaks = 1
    MaxTimeouts = 0
    MaxUnserved = 1
    ErrorThreshold = 3
    MaxErrors = 5
    MaxCalls = 1
INVARIANT AckMeansAccepted
INVARIANT WifiBeingRepaired
PROPERTY EveryEventSent
PROPERTY RepairsEnd
CHECK_DEADLOCK FALSE
