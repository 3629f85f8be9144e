SPECIFICATION MCSpec
CONSTANTS
    ScanRoot = "top"
    ScanDirs = {"top", "d", "out"}
    ScanFiles = {"f", "g", "h", "n"}
    ScanLinks = {"k", "l", "m", "y", "z"}
    InDir <- MCInDir
    LinkTo <- MCLinkTo
    Nowhere = "nowhere"
    Excluded = {"n"}
    HashKnown = {"f"}
    CrawlWorkers = 2
    HashThreads = 2
    OutputRoom = 1
    HashBacklog = 1
    QueueLimit = 0
    ParallelStat = TRUE
    Recursions = {TRUE, FALSE}
    Handlings = {"follow", "skip", "preserve"}
    Hashings = {TRUE, FALSE}
    ScanFaults = {"read", "process", "timeout"}
    MaxFaults = 2
    SvFolders = {"top", "d", "h"}
    SvRoot = "top"
    SvLeaves = {"s1", "s2", "s3"}
    SvIn <- MCSvIn
    SvForm <- MCSvForm
    SvFileType <- MCSvFileType
    SvNamed = "d"
    SvHollow = {"h"}
    SvWorkers = {"w1", "w2"}
    SvConverters = {"c1", "c2"}
    SvRoom = 1
    SvListings = {"parallel", "flat", "share"}
    SvFaultKinds = {"page", "properties", "process"}
    MaxSvFaults = 1
    Askers = {"t", "u"}
    Reporter = "reporter"
    MsgRoom = 1
    UserIsThere = TRUE
    QuietOptions = {FALSE}
    CommandKinds = {"copy", "resume"}
    MaxLines = 1
    MaxSignals = 1
    v1 = v1
    v2 = v2
    NoFile = NoFile
    Chunks <- TwoChunks
    Versions <- TwoVersions
    MaxRuns = 3
    TornMarks = FALSE
    JobParts = 2
    PartTransfers <- GrowingParts
    PartsQueueSize = 1
    TransferResults = {"Success", "Failed"}
    MaxProcesses = 2
    MayCancel = TRUE
    Asked <- CommandsAsked
    SyncAsked <- SyncsAsked
    FpTransfers = {"x", "y"}
    FpJobs <- MCFpJobs
    SharePermissions <- MCSharePermissions
    MaxShortAces = 1
    MaxFpFaults = 1
CHECK_DEADLOCK FALSE
INVARIANTS
    
    EveryScanIsExact
    ConsoleInv
    
    ResumeInv

    
    
