SPECIFICATION FairSpec
CONSTANTS
    Events = {e1, e2}
    e1 = e1
    e2 = e2
    QueueCapacity = 2
    Fragments = 1
    AuthOutcomes = {"found"}
    StoreOutcomes = {TRUE}
    MaxBreaks = 1
    MaxTimeouts = 0
    MaxUnserved = 1
PROPERTY ConnectsAgain
CHECK_DEADLOCK FALSE
