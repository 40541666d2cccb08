\* Two keys whose starts share the network, prompt handling.
\* The bounded counters and ids let a behaviour end: deadlock is not checked.
SPECIFICATION MCSpec
CONSTANTS
    k1 = k1
    k2 = k2
    Keys = {k1, k2}
    LegacyKeys = {}
    MaxId = 4
    MaxMessages = 2
    MaxStarts = 2
    SaveOutcomes = {"both"}
    MaxRequests = 2
    MaxEnds = 1
    MaxDisturbances = 1
    Disturbances = {"commands", "restart"}
    InitiallyGuarded = {TRUE}
    InitialDeployments = {"deployed"}
    Prompt = TRUE
    KeyReuse = FALSE
INVARIANTS
    NoDuplicateRuns
PROPERTIES
    DroppedOnlyAfterARun
CHECK_DEADLOCK FALSE
