SPECIFICATION MutexSpec
CONSTANTS
    MAXTHREAD = 3
    LOWEST_PRIORITY = 2
    PREEMPTIVE_CSWITCH = TRUE
    PREEMPTIVE_CSWITCH_FREQ = 1
    PREVENT_STARVATION = FALSE
    STARVATION_MAX = 0
    UINT = 16
    MaxPid = 3
    Prio <- TestNinePrio
    SleepTicks = {2}
    FreshTimeouts = {0}
    MallocMayFail = TRUE
    SelfSuspend = FALSE
    IdleLag = 1
    MAXMUTEX = 1
    MaxMutexID = 1
    MaxLock = 2
    DestroyMutexArgs = {1, 2}
INVARIANTS
    MutexTypeOK
    WaitersWait
    NoLostHandOver
    PriorityRestored
PROPERTIES
    ImplementsFifoLock
CHECK_DEADLOCK FALSE
