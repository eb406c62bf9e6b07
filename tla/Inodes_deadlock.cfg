SPECIFICATION Spec
CONSTANTS
    Procs = {1, 2}
    NINODE = 3
    NInums = 2
    MAXLINK = 1
    Names = {"x"}
    Paths <- OnePath
    RelPaths <- NoPaths
    Calls <- LinkUnlink
    None = None
INVARIANTS
    NoLockCycle
