\* One network with one entity of each kind, four changes of its engine, one request, two
\* disturbances. The bounds let a behaviour end: deadlock is not checked.
SPECIFICATION MCFairSpec
CONSTANTS
    n1 = n1
    d1 = d1
    i1 = i1
    x1 = x1
    p1 = p1
    Networks = {n1}
    Definitions = {d1}
    Instances = {i1}
    Incidents = {x1}
    Placeholders = {p1}
    DefinitionOf <- SomeDefinitionOf
    InstanceOf <- SomeInstanceOf
    MaxMessages = 8
    MaxChanges = 4
    MaxRequests = 1
    MaxDisturbances = 2
INVARIANTS
    TypeOK
    CopiedIsListed
    CopyIsEngine
PROPERTIES
    NotifiedOnce
    SilentForgotten
    IncidentsAreTold
CHECK_DEADLOCK FALSE
