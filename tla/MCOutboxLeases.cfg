SPECIFICATION Spec
CONSTANTS
    e1 = e1
    eu = eu
    ei = ei
    et = et
    ep = ep
    w1 = w1
    w2 = w2
    o1 = o1
    o2 = o2
    l1 = l1
    l2 = l2
    l3 = l3
    NoLease = NoLease
    NoEvent = NoEvent
    Events <- GoodAndPoison
    Unrouted <- Nobody
    Invalid <- Nobody
    Tampered <- Nobody
    Poison <- PoisonEvent
    Workers <- TwoWorkers
    Operators <- TwoOperators
    LeaseIds <- ThreeLeases
    MaxRetries = 2
    MaxConflicts = 1
    MaxAttempts = 1
    MaxFaults = 2
    MaxCrashes = 1
    MaxExpiries = 1
SYMMETRY Symmetry
INVARIANTS NothingLost ReplayedIsPublished
PROPERTIES ContractKept
CHECK_DEADLOCK FALSE
