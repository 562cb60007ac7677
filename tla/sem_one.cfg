SPECIFICATION SemaphoreSpec
CONSTANTS
    MAXTHREAD = 3
    LOWEST_PRIORITY = 1
    PREEMPTIVE_CSWITCH = TRUE
    PREEMPTIVE_CSWITCH_FREQ = 1
    PREVENT_STARVATION = FALSE
    STARVATION_MAX = 0
    UINT = 16
    MaxPid = 3
    Prio <- MixedPrio
    SleepTicks = {}
    FreshTimeouts = {0}
    MallocMayFail = TRUE
    SelfSuspend = FALSE
    IdleLag = 0
    MAXSEMAPHORE = 1
    MaxSemaphoreID = 1
    InitialCounts = {0, 2}
    Binary = {FALSE, TRUE}
    Amounts = {1, 2}
    MaxCount = 3
    StackSize = 9
    LowMemoryWaits = TRUE
    DestroyArgs = {1, 2}
INVARIANTS
    SemaphoreTypeOK
    GettersWait
    CountsAreNotIdle
    NeverOverdrawn
PROPERTIES
    ImplementsCountingSemaphore
CHECK_DEADLOCK FALSE
