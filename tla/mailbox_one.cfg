SPECIFICATION MailboxSpec
CONSTANTS
    MAXTHREAD = 3
    LOWEST_PRIORITY = 1
    PREEMPTIVE_CSWITCH = TRUE
    PREEMPTIVE_CSWITCH_FREQ = 1
    PREVENT_STARVATION = FALSE
    STARVATION_MAX = 0
    UINT = 16
    MaxPid = 3
    Prio <- MixedPrio
    SleepTicks = {}
    FreshTimeouts = {0}
    MallocMayFail = TRUE
    SelfSuspend = FALSE
    IdleLag = 0
    MAXMAILBOX = 1
    MaxMailboxID = 1
    Capacities = {1, 2}
    Messages = {a, b}
    Timeouts = {0}
    MailboxArgs = {1, 2}
SYMMETRY MessageSymmetry
INVARIANTS
    MailboxTypeOK
    CallersWait
    NobodyWaitsInVain
PROPERTIES
    ImplementsMailChannel
CHECK_DEADLOCK FALSE
