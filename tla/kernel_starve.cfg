SPECIFICATION Spec
CONSTANTS
    MAXTHREAD = 3
    LOWEST_PRIORITY = 1
    PREEMPTIVE_CSWITCH = TRUE
    PREEMPTIVE_CSWITCH_FREQ = 7
    PREVENT_STARVATION = TRUE
    STARVATION_MAX = 3
    UINT = 8
    MaxPid = 3
    Prio <- EdgePrio
    SleepTicks = {2}
    FreshTimeouts = {0}
    MallocMayFail = FALSE
    SelfSuspend = TRUE
    IdleLag = 1
INVARIANTS
    AtMostOneRunning
    SleeperHasTimer
    
PROPERTIES
    PriorityUnlessStarving
CHECK_DEADLOCK FALSE
