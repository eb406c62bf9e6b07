SPECIFICATION FairSpec
CONSTANTS
    Ops = {p1, p2}
    Blocks = {b1, b2, b3}
    Values = {0, 1}
    Blank = 0
    MAXOPBLOCKS = 2
    OPBLOCKS = 1
    LOGSIZE = 4
    nlog = 4
    NotCached = NotCached
INVARIANTS
    OpsSound
    LogFits
PROPERTIES
    Atomic
    SleeperWakes
