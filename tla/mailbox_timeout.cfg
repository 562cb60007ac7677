SPECIFICATION MailboxSpec
CONSTANTS
    MAXTHREAD = 3
    LOWEST_PRIORITY = 1
    PREEMPTIVE_CSWITCH = TRUE
    PREEMPTIVE_CSWITCH_FREQ = 1
    PREVENT_STARVATION = FALSE
    STARVATION_MAX = 0
    UINT = 16
    MaxPid = 3
    Prio <- MixedPrio
    SleepTicks = {}
    FreshTimeouts = {0}
    MallocMayFail = FALSE
    SelfSuspend = FALSE
    IdleLag = 1
    MAXMAILBOX = 1
    MaxMailboxID = 1
    Capacities = {1}
    Messages = {a}
    Timeouts = {0, 1}
    MailboxArgs = {1, 2}
INVARIANTS
    NobodyWaitsInVain
CHECK_DEADLOCK FALSE
