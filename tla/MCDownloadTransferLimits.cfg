SPECIFICATION Spec
CONSTANTS
    t1 = t1
    t2 = t2
    t3 = t3
    d1 = d1
    d2 = d2
    NoFile = NoFile
    Transfers <- AllThree
    NumChunks <- TwoEach
    Destinations <- TwoNames
    Destination <- FirstTwoCollide
    Restarted <- Nothing
    FaultyStarts <- Nothing
    FaultyReads <- Nothing
    FaultyWrites <- Nothing
    FaultyEnds <- Nothing
    NoClobber <- Nothing
    FileLimit = 2
    NumWorkers = 2
    RamLimit = 3
    QueueCap = 1
    MaxDesirableActiveChunks = 1
    JobMayBeCancelled = FALSE
CHECK_DEADLOCK FALSE
INVARIANTS
    RamIsOfUnsavedChunks
PROPERTIES
    EveryDownloadIsReported
