SPECIFICATION FairSpec
CONSTANTS
    NPROC = 3
    MaxPid = 3
    Slices = {1}
    SleepLens = {2}
    KillPids = {2}
    SlicePids = {0, 2, 9}
    Events = {}
INVARIANTS
    QueueOK
    PidsUnique
    WaitSound
    ParentLive
PROPERTIES
    EveryRunnableRuns
    SleeperWakes
    WaitReturns
