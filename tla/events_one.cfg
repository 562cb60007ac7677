SPECIFICATION EventsSpec
CONSTANTS
    MAXTHREAD = 3
    LOWEST_PRIORITY = 1
    PREEMPTIVE_CSWITCH = TRUE
    PREEMPTIVE_CSWITCH_FREQ = 1
    PREVENT_STARVATION = FALSE
    STARVATION_MAX = 0
    UINT = 16
    MaxPid = 3
    Prio <- MixedPrio
    SleepTicks = {}
    FreshTimeouts = {0}
    MallocMayFail = TRUE
    SelfSuspend = FALSE
    IdleLag = 1
    MAXEVENT = 1
    MAX_EVENT_SIG_MISS = 1
    MaxEventID = 2
    FreshCounts = {0, 1}
    EventArgs = {0, 1, 2}
    MAXEVENTGROUP = 1
    Bits = {a, b}
    MaxGroupID = 1
    GroupArgs = {1, 2}
    BitArgs <- SomeBits
    Timeouts = {0, 1}
    TimedTasks = {3}
VIEW ButErr
SYMMETRY BitSymmetry
INVARIANTS
    EventsTypeOK
    OwnersWait
    NobodyWaitsForSetBits
PROPERTIES
    WaitersWaitForBits
    ImplementsOneShotEvents
CHECK_DEADLOCK FALSE
