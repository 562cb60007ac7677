SPECIFICATION MutexSpec
CONSTANTS
    MAXTHREAD = 3
    LOWEST_PRIORITY = 2
    PREEMPTIVE_CSWITCH = TRUE
    PREEMPTIVE_CSWITCH_FREQ = 2
    PREVENT_STARVATION = FALSE
    STARVATION_MAX = 0
    UINT = 16
    MaxPid = 3
    Prio <- TestNinePrio
    SleepTicks = {}
    FreshTimeouts = {0}
    MallocMayFail = FALSE
    SelfSuspend = FALSE
    IdleLag = 1
    MAXMUTEX = 1
    MaxMutexID = 1
    MaxLock = 2
    DestroyMutexArgs = {}
INVARIANTS
    OwnerInherits
CHECK_DEADLOCK FALSE
