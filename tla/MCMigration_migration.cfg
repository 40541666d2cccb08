SPECIFICATION MCFairSpec
CONSTANTS
    N1 = N1
    N2 = N2
    D1 = D1
    D2 = D2
    D3 = D3
    D4 = D4
    R1 = R1
    R2 = R2
    R3 = R3
    K = K
    Nothing = Nothing
    Networks = {N1, N2}
    Deployments = {D1, D2, D3, D4}
    Runs = {R1, R2, R3}
    NetworkOf <- SomeNetworkOf
    DeploymentOf <- SomeDeploymentOf
    BusinessKey <- SomeBusinessKey
    DeploymentId <- SomeDeploymentId
    DefinitionId <- SomeDeploymentId
    InstanceId <- SomeInstanceId
    BatchSize = 2
    MaxFailures = 1
    MaxOthers = 1
    MaxDelay = 1
INVARIANTS
    TypeOK
    StoppedAreGuarded
    ReplacedOnce
    Migrated

    
CHECK_DEADLOCK FALSE
