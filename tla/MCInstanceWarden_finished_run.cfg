\* One key, a first run that fails and a second one that finishes.
\* The bounded counters and ids let a behaviour end: deadlock is not checked.
SPECIFICATION MCSpec
CONSTANTS
    k1 = k1
    Keys = {k1}
    LegacyKeys = {}
    MaxId = 5
    MaxMessages = 2
    MaxStarts = 2
    SaveOutcomes = {"both"}
    MaxRequests = 1
    MaxEnds = 2
    MaxDisturbances = 0
    Disturbances = {"commands", "restart"}
    InitiallyGuarded = {TRUE}
    InitialDeployments = {"deployed"}
    Prompt = TRUE
    KeyReuse = FALSE
PROPERTIES
    FinishedNotRestarted
CHECK_DEADLOCK FALSE
