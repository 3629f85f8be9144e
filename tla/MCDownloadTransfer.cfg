SPECIFICATION Spec
CONSTANTS
    t1 = t1
    t2 = t2
    t3 = t3
    d1 = d1
    d2 = d2
    NoFile = NoFile
    Transfers <- Both
    NumChunks <- ThreeAndOne
    Destinations <- OneName
    Destination <- ToOneName
    Restarted <- Nothing
    FaultyStarts <- Both
    FaultyReads <- AllChunks
    FaultyWrites <- AllChunks
    FaultyEnds <- Both
    NoClobber <- OnlySecond
    FileLimit = 2
    NumWorkers = 2
    RamLimit = 3
    QueueCap = 1
    MaxDesirableActiveChunks = 0
    JobMayBeCancelled = TRUE
CHECK_DEADLOCK FALSE
INVARIANTS
    FinalFilesAreWhole
    SuccessMeansDelivered
    NothingIsLeftBehind
PROPERTIES
    FilesChangeUnderTheirLock
