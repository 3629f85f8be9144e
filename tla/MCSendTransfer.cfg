SPECIFICATION Spec
CONSTANTS
    t1 = t1
    t2 = t2
    t3 = t3
    d1 = d1
    d2 = d2
    NoOne = NoOne
    Transfers <- AllThree
    NumChunks <- TwoTwoOne
    Destinations <- OneName
    Destination <- ToOneName
    Restarted <- OnlyFirst
    LocalSources <- OnlyFirst
    DeletesFirst <- Both
    FaultyStarts <- Both
    FaultyReads <- AllChunks
    FaultySends <- AllChunks
    FaultyEnds <- Both
    NoClobber <- OnlyLast
    NumWorkers = 2
    RamLimit = 4
    MaxRetries = 0
    JobMayBeCancelled = TRUE
CHECK_DEADLOCK FALSE
INVARIANTS
    SuccessMeansCommitted
    CommitFindsItsBlocks
    ReportIsOnceAndLast
    ActiveBytesAreTakenBack
PROPERTIES
    DestinationChangesUnderItsLock
