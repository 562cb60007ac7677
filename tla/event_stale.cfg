SPECIFICATION EventsSpec
CONSTANTS
    MAXTHREAD = 2
    LOWEST_PRIORITY = 1
    PREEMPTIVE_CSWITCH = TRUE
    PREEMPTIVE_CSWITCH_FREQ = 1
    PREVENT_STARVATION = FALSE
    STARVATION_MAX = 0
    UINT = 16
    MaxPid = 2
    Prio <- MixedPrio
    SleepTicks = {}
    FreshTimeouts = {0}
    MallocMayFail = FALSE
    SelfSuspend = FALSE
    IdleLag = 1
    MAXEVENT = 1
    MAX_EVENT_SIG_MISS = 1
    MaxEventID = 1
    FreshCounts = {0}
    EventArgs = {1}
    MAXEVENTGROUP = 1
    Bits = {a}
    MaxGroupID = 1
    GroupArgs = {1}
    BitArgs <- SomeBits
    Timeouts = {0, 1}
    TimedTasks = {1, 2}
INVARIANTS
    OwnerIsWaiting
CHECK_DEADLOCK FALSE
