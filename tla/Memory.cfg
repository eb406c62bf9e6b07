SPECIFICATION Spec
CONSTANTS
    NPROC = 3
    NFRAMES = 14
    PGSIZE = 2
    NPAGES = 4
    PTSIZE = 3
    KTABLES = 1
    MaxByte = 1
    Sbrks <- MCSbrks
    Images <- MCImages
    Calls <- MCCalls
    Written = {2}
    Stored = {0}
    EncryptedDumps = FALSE
    None = None
INVARIANTS
    FramesOwned
    SizeOK
PROPERTIES
    PrivateMemory
