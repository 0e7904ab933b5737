CONSTANTS
    Events <- MCEvents
    About <- MCAbout
    Partitions = {"p1", "p2"}
    Clients = {"c1", "c2"}
    DailyLimit = 3
    RowCountEstimate = 2
    maxHandlerAttempts = 2
    Worlds <- MCWorlds
    None = None
SPECIFICATION Spec
INVARIANTS NothingLost UnflaggedIsUnique WithinLimit
PROPERTY EverythingEnds
