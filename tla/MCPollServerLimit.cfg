SPECIFICATION Spec
CONSTANTS
    p = p
    q = q
    r = r
    NoClient = NoClient
    Clients <- Peers
    Quota <- Quotas
    Leavers <- Quitters
    SndCap = 1
    FirstFd = 4
    FdLimit = 6
    Requested = 5
    BufSize = 2
INVARIANT
    NoFdExhaustion
CHECK_DEADLOCK FALSE
