SPECIFICATION ComputeBound
CONSTANTS
    MAXTHREAD = 2
    LOWEST_PRIORITY = 1
    PREEMPTIVE_CSWITCH = TRUE
    PREEMPTIVE_CSWITCH_FREQ = 1
    PREVENT_STARVATION = TRUE
    STARVATION_MAX = 3
    UINT = 16
    MaxPid = 2
    Prio <- TwoPrio
    SleepTicks = {}
    FreshTimeouts = {0}
    MallocMayFail = FALSE
    SelfSuspend = FALSE
    IdleLag = 1
PROPERTIES
    ReadyTasksRun
CHECK_DEADLOCK FALSE
