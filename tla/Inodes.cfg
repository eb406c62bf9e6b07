SPECIFICATION Spec
CONSTANTS
    Procs = {1, 2}
    NINODE = 3
    NInums = 3
    MAXLINK = 2
    Names = {"x", "y"}
    Paths <- MCPaths
    RelPaths <- MCRelPaths
    Calls <- MCCalls
    None = None
INVARIANTS
    CacheOK
    InUse
    LinksCover
