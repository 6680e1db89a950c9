CONSTANTS
    Rows <- RowIds
    Bytes <- RowBytes
    Rejected = {}
    Stored <- RowPayload
    StartTime = 2
    MaxTime = 3
    MaxLag = 1
    LateInDrain = FALSE
    ChangeInReread = FALSE
    Budget = 4
    BootLimit = 2
    ResumeLimit = 2
    Overlap = 1
    DrainOverlap = 2
    MaxWindows = 2
    GrowthAfter = 1
    MaxWrites = 2
    MaxFaults = 1
SPECIFICATION FairSpec
INVARIANTS
    TypeOK
    NothingSkipped
    HistoryReadsAll
PROPERTIES DrainAdvances EventuallyAccounted
