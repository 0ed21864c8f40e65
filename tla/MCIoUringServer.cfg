SPECIFICATION FairSpec
CONSTANTS
    p = p
    q = q
    r = r
    NoClient = NoClient
    Clients <- Peers
    Quota <- Quotas
    Leavers <- Quitters
    SndCap = 1
    FirstFd = 5
    FdLimit = 7
    BufSize = 1
    CqEntries = 2
    IndexMod = 4
INVARIANTS
    EachRequestOnce
    OneRequestPerConnection
    FdOwnership
PROPERTIES
    CloseOnlyWhenDrained
    Served
    EchoesPrefix
CHECK_DEADLOCK FALSE
