SPECIFICATION ClockSpec
CONSTANTS
    MAXTHREAD = 3
    LOWEST_PRIORITY = 1
    PREEMPTIVE_CSWITCH = TRUE
    PREEMPTIVE_CSWITCH_FREQ = 2
    PREVENT_STARVATION = FALSE
    STARVATION_MAX = 0
    UINT = 16
    MaxPid = 4
    Prio <- MixedPrio
    SleepTicks = {1, 3}
    FreshTimeouts = {0, 2}
    MallocMayFail = TRUE
    SelfSuspend = FALSE
    IdleLag = 1
INVARIANTS
    TypeOK
    AtMostOneRunning
    CurrentIsRunning
    ListIsLive
    TicksAreCharged
    SleeperHasTimer
    SleepWithinABatch
PROPERTIES
    PriorityUnlessStarving
    SuspendedUntilResumed
    TicksChargedOnce
CHECK_DEADLOCK FALSE
