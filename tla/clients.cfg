SPECIFICATION ClientSpec
CONSTANTS
    MAXTHREAD = 3
    LOWEST_PRIORITY = 1
    PREEMPTIVE_CSWITCH = TRUE
    PREEMPTIVE_CSWITCH_FREQ = 2
    PREVENT_STARVATION = FALSE
    STARVATION_MAX = 0
    UINT = 16
    MaxPid = 3
    Prio <- EqualPrio
    SleepTicks = {1}
    FreshTimeouts = {0}
    MallocMayFail = FALSE
    SelfSuspend = FALSE
    IdleLag = 1
    MAXSEMAPHORE = 1
    MaxSemaphoreID = 1
    InitialCounts = {1, 2}
    Binary = {FALSE}
    Amounts = {1}
    MaxCount = 3
    Suspendees = {3}
    MAXMUTEX = 1
    MaxMutexID = 1
    MaxLock = 1
    StackSize = 9
    LowMemoryWaits = FALSE
    DestroyArgs = {}
    DestroyMutexArgs = {}
INVARIANTS
    UnitsAreConserved
    WaitsCanEnd
PROPERTIES
    EverybodyRunsAgain
CHECK_DEADLOCK FALSE
