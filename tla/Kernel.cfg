SPECIFICATION Spec
CONSTANTS
    Labs = {"lab1", "lab3", "lab5", "lab6", "lab7"}
    PRINT_EVERY = 2
    Harts = {0, 1}
    Procs <- MCProcs
    p0 = p0
    p1 = p1
    proczero = p0
    Causes <- MCCauses
    SleepTicks = {0, 1, 2}
    UINT64 = 4
    None = None
INVARIANTS
    TypeOK
    BootBarrier
    TicksCountHartZero
PROPERTIES
    SleepLastsNTicks
    TickWakesSleeper
