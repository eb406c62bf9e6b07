SPECIFICATION Spec
CONSTANTS
    Lines <- MCLines
    NODES = 3
    MAX_LINE_CMDS = 3
    NULL = NULL
INVARIANTS
    ListOK
    RunsCommand
