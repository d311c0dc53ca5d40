SPECIFICATION Spec
CONSTANTS
    Procs <- MCProcs
    p1 = p1
    p2 = p2
    N_INUM = 3
    INODE_ROOT = 0
    NB = 2
    NSlots = 4
    Names = {"a", "b"}
    Calls <- NameCalls
    MaxHeld = 1
    UINT16 = 65536
    None = None
SYMMETRY Symmetry
INVARIANTS
    NoLockCycle
