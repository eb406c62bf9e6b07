SPECIFICATION FairSpec
CONSTANTS
    Procs = {p1, p2, p3}
    NBUF = 2
    Blocks = {k1, k2, k3}
    None = None
INVARIANTS
    CacheOK
    ReadsLatest
    QueueServed
PROPERTIES
    WaitersServed
