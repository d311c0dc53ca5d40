SPECIFICATION Spec
CONSTANTS
    N_INODE = 2
    NBits = 3
    NBlocks = 2
    INODE_ROOT = 0
    Procs <- MCProcs
    p1 = p1
    p2 = p2
    None = None
    MaxRefs = 2
    MaxLink = 2
SYMMETRY Symmetry
INVARIANTS
    TypeOK
    RefCountExact
    OneSlotPerInode
    CachedMatchesDisk
    BitmapsExact
    UnlinkedIsReferenced
PROPERTY
    ImplementsInodeLife
