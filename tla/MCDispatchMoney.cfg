SPECIFICATION Spec
CONSTANTS
    i1 = i1
    i2 = i2
    c1 = c1
    c2 = c2
    c3 = c3
    Instances <- TwoInstances
    Runners <- TwoKafkaWorkers
    Contracts <- OneContract
    Tampered <- NoContracts
    Unrouted <- NoContracts
    Threshold = 1
    MaxIds = 2
    MaxDeliveries = 2
    MaxFaults = 1
    MaxCrashes = 1
INVARIANTS PaymentAnchored AtMostOnePayout AckedIsHeld
CHECK_DEADLOCK FALSE
