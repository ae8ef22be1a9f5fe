SPECIFICATION Spec
CONSTANTS
    Clients = {"a"}
    Registered = {"a"}
    FloatClients = {"a"}
    DiskOutcomes = {TRUE}
    DatabaseOutcomes = {TRUE}
    Reordering = FALSE
    MaxDatagrams = 6
    MaxDeliveries = 6
    MaxRestarts = 0
INVARIANT EventHasSound
CHECK_DEADLOCK FALSE
