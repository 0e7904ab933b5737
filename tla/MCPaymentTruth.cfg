SPECIFICATION Spec
CONSTANTS
    p1 = p1
    p2 = p2
    h1 = h1
    h2 = h2
    h3 = h3
    h4 = h4
    r1 = r1
    r2 = r2
    NoRunner = NoRunner
    NoObservation = NoObservation
    Payments <- TwoPayments
    Sources <- BothSources
    Hashes <- FourHashes
    Observations <- AllObservations
    Batches <- WebhooksAndPages
    Runners <- TwoRunners
SYMMETRY Symmetry
INVARIANTS StoredIsAnnounced StatusIsReported StatusIsAnnounced
PROPERTIES OnlyBlindWritesGoBack
