SPECIFICATION FairSpec
CONSTANTS
    w1 = w1
    w2 = w2
    w3 = w3
    Main = Main
    Nobody = Nobody
    Workers <- Pool
    Nodes <- Blocks
    MaxPush = 4
INVARIANTS
    ListWellFormed
    MutualExclusion
    NoLostWakeup
PROPERTIES
    Handed
    IsFifo
CHECK_DEADLOCK FALSE
