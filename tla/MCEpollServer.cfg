SPECIFICATION FairSpec
CONSTANTS
    p = p
    q = q
    r = r
    NoClient = NoClient
    Clients <- Peers
    Quota <- Quotas
    Leavers <- Quitters
    SndCap = 1
    FirstFd = 5
    FdLimit = 8
    MaxClients = 2
    BufSize = 2
INVARIANTS
    InterestMatchesBuffer
    BatchIsCurrent
PROPERTIES
    CloseOnlyOnPeerEnd
    Served
    EchoesPrefix
CHECK_DEADLOCK FALSE
