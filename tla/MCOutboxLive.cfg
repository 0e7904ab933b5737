SPECIFICATION FairSpec
CONSTANTS
    e1 = e1
    eu = eu
    ei = ei
    et = et
    ep = ep
    w1 = w1
    w2 = w2
    o1 = o1
    o2 = o2
    l1 = l1
    l2 = l2
    l3 = l3
    NoLease = NoLease
    NoEvent = NoEvent
    Events <- Refused
    Unrouted <- UnroutedEvent
    Invalid <- InvalidEvent
    Tampered <- TamperedEvent
    Poison <- Nobody
    Workers <- OneWorker
    Operators <- Nobody
    LeaseIds <- ThreeLeases
    MaxRetries = 2
    MaxConflicts = 2
    MaxAttempts = 1
    MaxFaults = 1
    MaxCrashes = 1
    MaxExpiries = 0
PROPERTIES EveryEventLeaves
CHECK_DEADLOCK FALSE
