SPECIFICATION StatsSpec
CONSTANTS
    NPROC = 2
    MaxPid = 3
    Slices = {1, 2}
    SleepLens <- MCLens
    KillPids = {2}
    SlicePids = {}
    Events <- MCEvents
    MaxSched = 3
INVARIANTS
    TypeOK
    TurnsOK
    CompWithinSleep
