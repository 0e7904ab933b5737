SPECIFICATION FairSpec
CONSTANTS
    i1 = i1
    i2 = i2
    c1 = c1
    c2 = c2
    c3 = c3
    Instances <- OneInstance
    Runners <- OneRelay
    Contracts <- ThreeContracts
    Tampered <- TamperedContract
    Unrouted <- UnroutedContract
    Threshold = 1
    MaxIds = 3
    MaxDeliveries = 1
    MaxFaults = 1
    MaxCrashes = 1
INVARIANT TakenIsStored
PROPERTY CallsAreResolved
CHECK_DEADLOCK FALSE
