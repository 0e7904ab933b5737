SPECIFICATION Spec
CONSTANTS
    E1 = E1
    E2 = E2
    C1 = C1
    S1 = S1
    S2 = S2
    B1 = B1
    w1 = w1
    w2 = w2
    k1 = k1
    None = None
    Events <- SixEvents
    From <- MCFrom
    Leaves <- MCLeaves
    EnvelopeType = "envelope_hash"
    RequiredLeafTypes <- IntentTypes
    RequiredBatchLeafTypes <- BatchTypes
    Workers <- TwoWorkers
    Worlds <- AllWorlds
    Clients <- OneClient
INVARIANTS TypeOK SealedIsWhole
PROPERTIES LeavesAreKept CompletedIsPacked
CHECK_DEADLOCK FALSE
