SPECIFICATION MCFairSpec
CONSTANTS
    N1 = N1
    N2 = N2
    Nothing = Nothing
    ConstructionSvg = ConstructionSvg
    Networks <- SomeNetworks
    Documents <- SomeDocuments
    Matching <- SomeMatching
    UserQueries <- SomeQueries
    BatchSize = 2
    MaxDisturbances = 2
INVARIANTS
    TypeOK
    NothingMissed
    NothingTwice
    OnlyAllowed
    ExtendedIsOwn
PROPERTIES
    PassesEnd
    LastingChecked
