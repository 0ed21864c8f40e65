SPECIFICATION Spec
CONSTANTS
    p = p
    q = q
    r = r
    NoClient = NoClient
    Clients <- Peers
    Quota <- MoreQuotas
    Leavers <- Quitters
    SndCap = 1
    FirstFd = 5
    FdLimit = 7
    BufSize = 2
    CqEntries = 2
    IndexMod = 4
PROPERTY
    EchoesPrefix
CHECK_DEADLOCK FALSE
