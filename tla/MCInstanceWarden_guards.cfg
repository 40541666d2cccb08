\* One guarded key and one legacy key, every request, failing save and disturbance.
\* The bounded counters and ids let a behaviour end: deadlock is not checked.
SPECIFICATION MCSpec
CONSTANTS
    k1 = k1
    l1 = l1
    Keys = {k1}
    LegacyKeys = {l1}
    MaxId = 2
    MaxMessages = 2
    MaxStarts = 1
    SaveOutcomes = {"both", "instance", "none"}
    MaxRequests = 2
    MaxEnds = 1
    MaxDisturbances = 1
    Disturbances = {"deployment", "reports", "commands", "messages", "restart", "reset"}
    InitiallyGuarded = {TRUE}
    InitialDeployments = {"none", "deployed"}
    Prompt = FALSE
    KeyReuse = FALSE
INVARIANTS
    TypeOK
    ClearedKeysStayCleared
CHECK_DEADLOCK FALSE
