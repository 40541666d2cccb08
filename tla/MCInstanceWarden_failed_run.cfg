\* One key, one run that may fail.
\* The bounded counters and ids let a behaviour end: deadlock is not checked.
SPECIFICATION MCSpec
CONSTANTS
    k1 = k1
    Keys = {k1}
    LegacyKeys = {}
    MaxId = 3
    MaxMessages = 2
    MaxStarts = 2
    SaveOutcomes = {"both"}
    MaxRequests = 1
    MaxEnds = 1
    MaxDisturbances = 0
    Disturbances = {"commands", "restart"}
    InitiallyGuarded = {TRUE}
    InitialDeployments = {"deployed"}
    Prompt = TRUE
    KeyReuse = FALSE
PROPERTIES
    DroppedOnlyWithoutIncident
CHECK_DEADLOCK FALSE
