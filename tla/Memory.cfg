SPECIFICATION Spec
CONSTANTS
    Procs <- MCProcs
    p0 = p0
    p1 = p1
    proczero = p0
    PGSIZE = 2
    ALLOC_BEGIN = 3
    ALLOC_END = 31
    KERNEL_PAGES = 2
    TRAPFRAME = 20
    MMAP_BEGIN = 10
    MMAP_END = 16
    N_MMAP = 4
    Calls <- MCCalls
    UINT32 = 4
    CopyFrom = {3, 4, 7}
    CopyLens = {0, 1, 2, 3, 5}
    SIZEOF_INT = 2
    COPYINSTR_MAX = 3
    PRINT_MAX = 5
    None = None
VIEW View
CONSTRAINT UntilFirstDefect
INVARIANTS
    TypeOK
    PagesOwnedOnce
    MmapListExact
    HeapExact
    OnlyUserPanics
    CopiesAreByteExact
