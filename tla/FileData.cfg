SPECIFICATION Spec
CONSTANTS
    Procs = {1, 2}
    Inodes = {i1, i2}
    Handles = {h1, h2}
    NBLOCKS = 4
    BPB = 1
    BSIZE = 2
    NDIRECT = 1
    MAXOPBLOCKS = 6
    Sizes = {3}
    None = None
SYMMETRY Symmetry
INVARIANTS
    BlocksOK
    DinodeCurrent
    OpFits
PROPERTIES
    FilesAreBytes
