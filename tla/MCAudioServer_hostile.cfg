SPECIFICATION Spec
CONSTANTS
    Clients = {"a", "b"}
    Registered = {"a"}
    FloatClients = {"a"}
    DiskOutcomes = {TRUE, FALSE}
    DatabaseOutcomes = {TRUE, FALSE}
    Reordering = TRUE
    MaxDatagrams = 5
    MaxDeliveries = 4
    MaxRestarts = 1
INVARIANT AudioTypeOK
INVARIANT StoredInOrder
INVARIANT WriterHasFile
INVARIANT OnlyRegisteredStored
CHECK_DEADLOCK FALSE
