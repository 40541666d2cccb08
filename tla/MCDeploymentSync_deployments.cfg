\* One deployment and one process: every request, step and disturbance in any order.
\* The bounds let a behaviour end: deadlock is not checked.
SPECIFICATION MCSpec
CONSTANTS
    c1 = c1
    k1 = k1
    Deployments = {c1}
    Keys = {k1}
    MaxIds = 2
    MaxCommands = 2
    MaxMessages = 3
    ReportOrders = {"deployment first", "metadata first"}
    MaxRequests = 2
    MaxDisturbances = 1
    Prompt = FALSE
    Overlap = TRUE
INVARIANTS
    TypeOK
    CreatedStaysGuarded
    OneGuardEach
    SyncedExistAtClient
PROPERTIES
    KeepsPromise
    DroppedOnlyAfterDelete
CHECK_DEADLOCK FALSE
