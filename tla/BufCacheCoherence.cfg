SPECIFICATION Spec
CONSTANTS
    N_BLOCK_BUF = 2
    BLOCK_NUM_UNUSED <- MCUnused
    Blocks <- MCBlocks
    Procs <- MCProcs
    p1 = p1
    p2 = p2
    None = None
    MaxHeld = 2
    MaxVersion = 1
SYMMETRY Symmetry
INVARIANT CacheCoherence
