------------------------------- MODULE Clients -------------------------------
(***************************************************************************)
(* Well-behaved tasks that share a mutex and the counts of a semaphore.    *)
(* Each of them gets some counts, keeps them for a while and gives back    *)
(* what it got; locks the mutex and unlocks it; and does not wait for      *)
(* counts while it has the mutex.  What a task holds of the semaphore is   *)
(* seen by the observer only; the kernel knows nothing but the count.      *)
(***************************************************************************)
EXTENDS Semaphore, Mutex

CONSTANT Suspendees    \* the tasks that may be suspended or terminate

ASSUME ClientAssumption == Suspendees \subseteq 1..MaxPid

VARIABLE held          \* held[p]: the counts that were granted to task p

clientVars == <<allVars, mutexVars, held>>

ClientInit == SemaphoreInit /\ MutexInit /\ held = [p \in 1..MaxPid |-> 0]

\* Neither the mutex nor the semaphore would miss task p.
HoldsNothing(p) == Owned(p) = {} /\ (p \in DOMAIN held => held[p] = 0)

\* A Semaphore_Get returns at once or leaves its caller waiting.
Get(n) ==
    /\ Exists(1)
    /\ HoldsNothing(Current_Process)
    /\ Semaphore_Get(1, n)
    /\ held' = [held EXCEPT ![Current_Process] =
                    IF semaphore'[1].wait_queue = semaphore[1].wait_queue
                    THEN amount'[Current_Process] ELSE 0]

\* A waiter that leaves WAIT_SEMAPHORE has been granted what it asked for.
Give ==
    /\ held[Current_Process] > 0
    /\ Semaphore_Give(1, held[Current_Process])
    /\ held' = [p \in 1..MaxPid |->
                   CASE p = Current_Process -> 0
                     [] p # Current_Process /\ InState(p, {"WAIT_SEMAPHORE"}) ->
                           IF PD'[p].state = "WAIT_SEMAPHORE" THEN 0 ELSE amount[p]
                     [] OTHER -> held[p]]

Lock   == MutexExists(1) /\ Owned(Current_Process) = {} /\ Mutex_Lock(1)
Unlock == Owned(Current_Process) # {} /\ Mutex_Unlock(1)

SetUp ==
    \/ /\ semaphore = <<>>
       /\ \E c \in InitialCounts, b \in Binary : Semaphore_Create(c, b)
       /\ UNCHANGED <<mutexVars, held>>
    \/ mutex = <<>> /\ Mutex_Create /\ UNCHANGED <<semVars, held>>

Alone == UNCHANGED <<semVars, mutexVars, held>>

\* The services of the scheduler.  A task that others rely on is neither
\* suspended nor does it terminate.
SchedulerStep ==
    /\ \/ CreateAtBoot \/ Kernel_Tick_ISR \/ IdlePoll \/ IdleDispatch \/ Task_Yield
       \/ OS_Start
       \/ \E t \in SleepTicks : Task_Sleep(t)
       \/ \E p \in Suspendees : (HoldsNothing(p) /\ Task_Suspend(p)) \/ Task_Resume(p)
       \/ Current_Process \in Suspendees /\ HoldsNothing(Current_Process) /\ Task_Terminate
    /\ Alone

ClientNext ==
    \/ mode = "boot" /\ SetUp
    \/ SchedulerStep
    \/ mode = "task" /\ (Give \/ \E n \in Amounts : Get(n)) /\ UNCHANGED mutexVars
    \/ mode = "task" /\ (Lock \/ Unlock) /\ UNCHANGED <<semVars, held>>

\* The timer and the idle loop go on, and a client that gets to run again and
\* again eventually gives back the counts and unlocks the mutex it has.
ClientSpec ==
    /\ ClientInit /\ [][ClientNext]_clientVars
    /\ WF_clientVars(Alone /\ OS_Start)
    /\ WF_clientVars(Alone /\ Kernel_Tick_ISR)
    /\ WF_clientVars(Alone /\ IdlePoll)
    /\ WF_clientVars(Alone /\ IdleDispatch)
    /\ \A p \in 1..MaxPid :
          /\ SF_clientVars(Current_Process = p /\ UNCHANGED mutexVars /\ Give)
          /\ SF_clientVars(Current_Process = p /\ UNCHANGED <<semVars, held>> /\ Unlock)

-----------------------------------------------------------------------------
\* The sum of f over the tasks.
Total(f) ==
    LET total[p \in 0..MaxPid] == IF p = 0 THEN 0 ELSE total[p - 1] + f[p]
    IN total[MaxPid]

\* No count is lost and none is granted twice: what the tasks hold and what the
\* semaphore has left add up to what it was created with.  (A call that writes
\* through NULL promises nothing.)
UnitsAreConserved ==
    semaphore # <<>> /\ mode # "halted" =>
        semaphore[1].count + Total(held)
            \in {NewSemaphore(c, semaphore[1].is_binary).count : c \in InitialCounts}

\* Nothing keeps the task from running again: it is on its way to the processor.
GoesOn(p) == InState(p, {"READY", "RUNNING", "SLEEPING"})

\* Nobody waits for nobody, and no tasks wait for each other in a circle: whoever
\* waits for the mutex is on the queue of one whose owner goes on, and as long as
\* anybody waits for counts, a task that goes on or waits for the mutex has some to
\* give back.  So a wait for the mutex is a wait for one that runs, and a wait for
\* counts is one for the mutex at worst.
WaitsCanEnd ==
    mode # "halted" =>
        /\ \A p \in 1..MaxPid : InState(p, {"WAIT_MUTEX"}) =>
              \E m \in MutexQueued(p) : GoesOn(mutex[m].owner)
        /\ (\E p \in 1..MaxPid : InState(p, {"WAIT_SEMAPHORE"})) =>
              \E q \in 1..MaxPid : held[q] > 0 /\ (GoesOn(q) \/ InState(q, {"WAIT_MUTEX"}))

\* Whatever a task waits for, it runs again, unless it has been suspended or has
\* terminated: a READY task gets the processor, a sleeper wakes up, whoever
\* waits for the mutex gets it, and whoever waits for a count is granted it,
\* although a task that comes later may take a count at once and although a
\* holder of counts may have to wait for the mutex first.
EverybodyRunsAgain ==
    \A p \in 1..MaxPid :
        []<>(p \in DOMAIN PD => InState(p, {"RUNNING", "SUSPENDED", "DEAD"}))

=============================================================================
