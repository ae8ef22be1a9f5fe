SPECIFICATION FairSpec
CONSTANTS
    Clients = {"a"}
    Registered = {"a"}
    FloatClients = {"a"}
    DiskOutcomes = {TRUE}
    DatabaseOutcomes = {TRUE}
    Reordering = FALSE
    MaxDatagrams = 7
    MaxDeliveries = 7
    MaxRestarts = 1
INVARIANT OneEventPerRecording
INVARIANT ClosedWhenDown
PROPERTY RecordingKept
PROPERTY EndedRecordingStored
CHECK_DEADLOCK FALSE
