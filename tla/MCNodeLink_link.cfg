SPECIFICATION FairSpec
CONSTANTS
    a = a  b = b
    Node = {a, b}
    Neighbours <- Everybody
    HighWater = 1
    LowWater = 0
    StdoutCap = 1
    Initial = 1
    Floods = 2
    Faulty = {a}
    MaxExtra = 1
INVARIANTS
    NothingAfterQuit
    NoOrphans
    NoTxUnrouted
PROPERTIES
    RunEnds
CHECK_DEADLOCK FALSE
