SPECIFICATION FairClaimSpec
CONSTANTS
    w1 = w1
    w2 = w2
    Workers <- MCWorkers
    LogLen = 4
    WorkCap = 2
    EventCap = 1
INVARIANT NoMessageSkipped
PROPERTY DrainCompletes
