SPECIFICATION ClockSpec
CONSTANTS
    MAXTHREAD = 3
    LOWEST_PRIORITY = 1
    PREEMPTIVE_CSWITCH = TRUE
    PREEMPTIVE_CSWITCH_FREQ = 2
    PREVENT_STARVATION = FALSE
    STARVATION_MAX = 0
    UINT = 16
    MaxPid = 3
    Prio <- MixedPrio
    SleepTicks = {1, 3}
    FreshTimeouts = {0}
    MallocMayFail = FALSE
    SelfSuspend = FALSE
    IdleLag = 1
INVARIANTS
    SleepAtLeast
CHECK_DEADLOCK FALSE
