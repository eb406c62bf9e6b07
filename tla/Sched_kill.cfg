SPECIFICATION FairSpec
CONSTANTS
    NPROC = 2
    MaxPid = 2
    Slices = {1}
    SleepLens = {2}
    KillPids = {2}
    SlicePids = {}
    Events = {}
PROPERTY
    KilledExits
