SPECIFICATION FairSpec
CONSTANTS
    CommandLines <- MCCommandLines
    MaxThreads = 2
    IntSize = 32768
    CapUp = 1
    CapDown = 1
    SrvBuf = 2
INVARIANTS
    StartedSane
    ResultComplete
    PercentileRank
    ClosedLoop
    PayloadFits
PROPERTY
    Finishes
CHECK_DEADLOCK FALSE
