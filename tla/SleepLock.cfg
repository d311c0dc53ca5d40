SPECIFICATION Spec
CONSTANTS
    Procs <- MCProcs
    Boot <- MCBoot
    boot = boot
    None = None
INVARIANTS
    TypeOK
    HoldingExact
    NoLostWakeup
PROPERTIES
    MutexSpec
    SleeperWoken
