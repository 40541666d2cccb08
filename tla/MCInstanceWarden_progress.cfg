\* One key that users start, restart and delete, under fairness.
\* The bounded counters and ids let a behaviour end: deadlock is not checked.
SPECIFICATION MCFairSpec
CONSTANTS
    k1 = k1
    Keys = {k1}
    LegacyKeys = {}
    MaxId = 7
    MaxMessages = 2
    MaxStarts = 2
    SaveOutcomes = {"both"}
    MaxRequests = 2
    MaxEnds = 1
    MaxDisturbances = 1
    Disturbances = {"commands", "restart"}
    InitiallyGuarded = {TRUE}
    InitialDeployments = {"deployed"}
    Prompt = TRUE
    KeyReuse = TRUE
PROPERTIES
    UnguardedRunsEnd
    DuplicatesResolved
    AcceptedStartsRun
    FailuresRestart
    StopsHaveCause
    DroppedOnlyAfterARun
CHECK_DEADLOCK FALSE
