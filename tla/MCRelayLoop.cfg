SPECIFICATION FairLoopSpec
CONSTANTS
    w1 = w1
    w2 = w2
    NumEvents = 3
    DispatchOf <- TwoDispatches
    TooLarge <- PoisonEvent
    LoopWorkers <- TwoWorkers
    BatchSize = 2
    MaxLoopFaults = 2
    MaxLoopCrashes = 1
INVARIANT StatusIsTrue
PROPERTIES ContractKept Drains
CHECK_DEADLOCK FALSE
