SPECIFICATION FairSpec
CONSTANTS
    p = p
    q = q
    r = r
    w1 = w1
    w2 = w2
    NoClient = NoClient
    Clients <- Peers
    Quota <- Quotas
    Leavers <- Peers
    Workers <- Pool
    SndCap = 1
    FirstFd = 4
    FdLimit = 7
    BufSize = 2
INVARIANTS
    FdOwnership
PROPERTIES
    CloseOnlyWhenDrained
    Served
    EchoesPrefix
CHECK_DEADLOCK FALSE
