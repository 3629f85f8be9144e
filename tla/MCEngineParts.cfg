SPECIFICATION MCSpec
CONSTANTS
    InitialPools = {1, 5}
    MaxMainPoolSize = 20
    TopOfBoostZone = 8
    ProbeZone <- MCProbeZone
    Requesters = {"r1", "r2"}
    Sizes = {1, 2}
    InitialRates = {0, 2, 3}
    Updates = {0, 4}
    Kinds = {TRUE, FALSE}
    TunedRates = {2, 3}
    ExpectedBytesPerRequest = 0
    DeadBand = 2
    MaxPacerRequests = 1
    MaxUpdates = 2
    MaxLen = 3
    OrderSize = 2
    HeaderCells = 5
    Locations = {"File", "Blob"}
    Files = {"f", "g"}
    Folders = {"d", "e"}
    Root = "root"
    Parent <- MCParent
    MaxProcesses = 2
    Destinations = {"local", "share", "blob"}
    Overwrites = {"false"}
    CopyFiles = {"f"}
    CopyFolders = {"d", "e"}
    Top = "top"
    FolderOf <- MCFolderOf
    Schedule <- MCSchedule
    MaxRuns = 2
    SendKinds = {"page", "disk", "append", "share", "adls"}
    SendChunks = 2
    FlushThreshold = 1
    MaxAttempts = 2
    Objects = {"a", "b", "c"}
    PartCapacity = 2
    UploadsFirst = {TRUE, FALSE}
    Comparisons = {"hash"}
    DeleteOptions = {"prompt"}
    UnreadableCases = {TRUE}
CHECK_DEADLOCK FALSE
INVARIANTS
    LimitsInv
    PlanInv
    RemovalInv
    FolderInv
    InPlaceInv
    
PROPERTIES
    EveryPartSettles
