\* One deployment, two requests and two disturbances: enough ids and room for messages
\* to bring it back after each. The bounds let a behaviour end: deadlock is not checked.
SPECIFICATION MCFairSpec
CONSTANTS
    c1 = c1
    Deployments = {c1}
    Keys = {}
    MaxIds = 4
    MaxCommands = 2
    MaxMessages = 5
    ReportOrders = {"deployment first", "metadata first"}
    MaxRequests = 2
    MaxDisturbances = 2
    Prompt = TRUE
    Overlap = FALSE
INVARIANTS
    DeployedOnce
PROPERTIES
    CreatedArrive
CHECK_DEADLOCK FALSE
