SPECIFICATION Spec
CONSTANTS
    b1 = b1
    b2 = b2
    ta = ta
    tb = tb
    e1 = e1
    e2 = e2
    h1 = h1
    h2 = h2
    c1 = c1
    r1 = r1
    r2 = r2
    NoBatch = NoBatch
    Unbatched = Unbatched
    NoCertificate = NoCertificate
    Batches <- TwoBatches
    Days <- TwoDays
    GradeB = TRUE
    Topics <- TwoTopics
    Logs <- AllLogs
    EventIds <- TwoEvents
    Hashes <- TwoHashes
    Certificates <- OneCertificate
    Bodies <- FewBodies
    Readers <- TwoReaders
    MaxLog = 2
    MaxFaults = 2
INVARIANTS TypeOK NothingLost CountersMatchReceipts CountedOnce TenantIsSumOfBatches
CHECK_DEADLOCK FALSE
PROPERTIES EverythingIsAccounted
