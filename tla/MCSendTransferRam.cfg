SPECIFICATION Spec
CONSTANTS
    t1 = t1
    t2 = t2
    t3 = t3
    d1 = d1
    d2 = d2
    NoOne = NoOne
    Transfers <- Both
    NumChunks <- TwoAndThree
    Destinations <- TwoNames
    Destination <- ToTwoNames
    Restarted <- Nothing
    LocalSources <- Both
    DeletesFirst <- Nothing
    FaultyStarts <- Nothing
    FaultyReads <- Nothing
    FaultySends <- Nothing
    FaultyEnds <- Nothing
    NoClobber <- Nothing
    NumWorkers = 2
    RamLimit = 2
    MaxRetries = 1
    JobMayBeCancelled = FALSE
CHECK_DEADLOCK FALSE

    
PROPERTIES
    EveryTransferIsReported
