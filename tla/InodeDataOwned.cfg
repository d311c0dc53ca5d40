SPECIFICATION FsSpec
CONSTANTS
    Files <- MCFiles
    f1 = f1
    f2 = f2
    N_ADDRS_1 = 1
    N_ADDRS_2 = 1
    N_ADDRS_3 = 1
    E = 2
    NB = 7
    DATA_START = 1
    UINT = 16
    Lens <- MCLens
    Data <- MCData
    FS_MAGIC = 305419896
    SuperBlocks <- MCSuperBlocks
    UINT8 = 256
    None = None
SYMMETRY Symmetry
INVARIANT BlocksOwnedOnce
