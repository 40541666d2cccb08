SPECIFICATION MCFairSpec
CONSTANTS
    Brokers = {b1, b2}
    Targets = {d1, d2}
    Groups = {g1}
    Nothing = Nothing
    Callers <- AllCallers
    BrokerOf <- SomeBrokerOf
    GroupOf <- SomeGroupOf
    MaxChanges = 3
    MaxDisturbances = 1
    MaxQueue = 2
INVARIANTS
    TypeOK
    Fresh
PROPERTIES
    NeverOlder
    CommandsHandled
CHECK_DEADLOCK FALSE
