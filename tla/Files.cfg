SPECIFICATION FairSpec
CONSTANTS
    Procs = {p1, p2}
    NFILE = 2
    NOFILE = 2
    Pipes = {q1}
    PIPESIZE = 2
    WORD = 4
    Byte = {0, 1}
    Messages <- MCMessages
    ReadSizes = {1, 2}
    None = None
INVARIANTS
    RefsOK
    NoLostWakeup
PROPERTIES
    PipesAreChannels
    KilledExits
