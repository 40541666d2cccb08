\* One deployment that is created and deleted, nothing is lost and everything is handled
\* in time.
SPECIFICATION MCSpec
CONSTANTS
    c1 = c1
    Deployments = {c1}
    Keys = {}
    MaxIds = 2
    MaxCommands = 2
    MaxMessages = 3
    ReportOrders = {"deployment first", "metadata first"}
    MaxRequests = 2
    MaxDisturbances = 0
    Prompt = TRUE
    Overlap = FALSE
PROPERTIES
    DeletedNotRedeployed
CHECK_DEADLOCK FALSE
