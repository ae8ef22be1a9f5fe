SPECIFICATION Spec
CONSTANTS
    Clients = {"a"}
    Registered = {"a"}
    FloatClients = {"a"}
    DiskOutcomes = {TRUE}
    DatabaseOutcomes = {TRUE}
    Reordering = TRUE
    MaxDatagrams = 6
    MaxDeliveries = 6
    MaxRestarts = 0
PROPERTY RecordingKept
CHECK_DEADLOCK FALSE
