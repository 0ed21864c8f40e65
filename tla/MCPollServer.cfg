SPECIFICATION FairSpec
CONSTANTS
    p = p
    q = q
    r = r
    NoClient = NoClient
    Clients <- Peers
    Quota <- Quotas
    Leavers <- Quitters
    SndCap = 1
    FirstFd = 4
    FdLimit = 7
    Requested = 2
    BufSize = 2
INVARIANTS
    StreamIntact
    InterestMatchesBuffer
    FdOwnership
PROPERTIES
    CloseOnlyWhenDrained
    Served
    EchoesPrefix
CHECK_DEADLOCK FALSE
