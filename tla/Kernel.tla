------------------------------- MODULE Kernel -------------------------------
(***************************************************************************)
(* The scheduler and the task services of ezRTOS: kernel/kernel.c,         *)
(* kernel/task/task.c, kernel/others/PtrList.c as the process list uses    *)
(* it, and the task section of os.c.                                       *)
(*                                                                         *)
(* A system call runs from Disable_Interrupt() to Exit_Kernel() with       *)
(* interrupts off, so one call is one action.  What interleaves is: the    *)
(* calls of the running task, the timer interrupt (while a task runs, and  *)
(* between two iterations of the idle loop of the dispatcher), and the     *)
(* iterations of that idle loop.                                           *)
(*                                                                         *)
(* A definition introduced as a mutant is the one that follows it with a   *)
(* mistake in it.  No specification uses it: it is there to show that the  *)
(* property named would notice.                                            *)
(***************************************************************************)
EXTENDS Integers, Sequences, SequencesExt

CONSTANTS
    MAXTHREAD,               \* os.h:17
    LOWEST_PRIORITY,         \* os.h:18
    PREEMPTIVE_CSWITCH,      \* os.h:24, an #ifdef: TRUE when defined
    PREEMPTIVE_CSWITCH_FREQ, \* os.h:25
    PREVENT_STARVATION,      \* os.h:26, an #ifdef
    STARVATION_MAX,          \* os.h:27
    UINT,                    \* number of values of unsigned int (2^16 on AVR)
    MaxPid,                  \* bound: PIDs handed out in one behaviour
    Prio,                    \* Prio[p]: the priority task p is created with
    SleepTicks,              \* arguments of Task_Sleep
    FreshTimeouts,           \* what malloc leaves in request_timeout
    MallocMayFail,           \* TRUE when the heap can be exhausted
    SelfSuspend,             \* TRUE when a task may call Task_Suspend on itself
    IdleLag                  \* ticks that fit between two polls of the idle loop

ASSUME ConfigAssumption ==
    /\ MAXTHREAD \in Nat \ {0}
    /\ LOWEST_PRIORITY \in Nat
    /\ PREEMPTIVE_CSWITCH \in BOOLEAN
    /\ PREEMPTIVE_CSWITCH_FREQ \in Nat \ {0}
    /\ PREVENT_STARVATION \in BOOLEAN
    /\ STARVATION_MAX \in Nat
    /\ UINT \in Nat \ {0}

ASSUME EnvironmentAssumption ==
    /\ MaxPid \in Nat
    /\ Prio \in [1..MaxPid -> Nat]
    /\ SleepTicks \subseteq 0..(UINT - 1)
    /\ FreshTimeouts \subseteq 0..(UINT - 1)
    /\ MallocMayFail \in BOOLEAN
    /\ SelfSuspend \in BOOLEAN
    /\ IdleLag \in Nat

VARIABLES
    PD,                       \* the process descriptors, in order of PID
    ProcessList,              \* the PIDs on the global process list, in order
    Current_Process,          \* a PID, 0 for NULL
    Last_Dispatched,          \* the task the circular scan starts after
    Tick_Count,               \* ticks the kernel has not charged yet
    Ticks_Since_Last_Cswitch,
    mode,                     \* where the processor is, see Modes
    err

sched == <<Current_Process, Last_Dispatched, Tick_Count, Ticks_Since_Last_Cswitch>>
vars  == <<PD, ProcessList, sched, mode, err>>

-----------------------------------------------------------------------------
(* Values.                                                                 *)

States == {"DEAD", "READY", "RUNNING", "SLEEPING", "SUSPENDED", "WAIT_EVENT",
           "WAIT_EVENTG", "WAIT_MUTEX", "WAIT_SEMAPHORE", "WAIT_MAILBOX"}

\* "boot": before OS_Start.  "task": a task runs, interrupts on.  "idle": in
\* the loop of Kernel_Dispatch_Next_Task.  "halted": the code dereferenced
\* NULL or jumped to a stack that does not exist; nothing is promised after.
Modes == {"boot", "task", "idle", "halted"}

Errors == {"NO_ERR", "MAX_OBJECT_ERR", "MALLOC_FAILED_ERR", "OBJECT_NOT_FOUND_ERR",
           "UNPROCESSABLE_TASK_STATE_ERR", "INVALID_ARG_ERR", "KERNEL_INACTIVE_ERR"}

UInts == 0..(UINT - 1)

\* Mutant: the difference stays unsigned, so a late timer starts over.
\* (SleepWithinABatch)
StaysUnsigned(u) == u

\* What a 16-bit unsigned difference becomes when stored in an int.
ToInt(u) == IF 2 * u >= UINT THEN u - UINT ELSE u

Process == [state: States, last_state: States, pri: Nat, request_timeout: UInts,
            starvation_ticks: UInts, stack: BOOLEAN]

\* Mutant: the next PID is derived from the number of tasks.  (ListIsLive)
PidFromCount == Len(ProcessList)

Last_PID   == Len(PD)
Task_Count == Len(ProcessList)
Listed(list) == ToSet(list)

-----------------------------------------------------------------------------
(* Timer ticks are counted by the interrupt and charged later, in a batch, *)
(* to every listed process.                                                *)

\* Mutant: the remaining ticks are stored before their sign is tested.  (TypeOK)
SignedTimeLeft(p, ticks) == ToInt((p.request_timeout - ticks) % UINT)

\* What is left of a timer that runs.
TimeLeft(p, ticks) ==
    LET remaining == ToInt((p.request_timeout - ticks) % UINT)
    IN IF remaining > 0 THEN remaining ELSE 0

\* Mutant: a timer ends a suspension.  (SuspendedUntilResumed)
WakesSuspended(p) == [p EXCEPT !.state = "READY"]

\* Mutant: a suspended process does not notice its timer.  (SleeperHasTimer)
NeverThaws(p) == IF p.state = "SUSPENDED" THEN p ELSE [p EXCEPT !.state = "READY"]

\* Mutant: the timer is not set to 0 and runs out again.  (WaitersWait)
RunsOutAgain(p) ==
    IF p.state = "SUSPENDED" THEN [p EXCEPT !.last_state = "READY", !.request_timeout = 1]
                             ELSE [p EXCEPT !.state = "READY", !.request_timeout = 1]

\* A process whose timer has run out.
Expired(p) == IF p.state = "SUSPENDED" THEN [p EXCEPT !.last_state = "READY"]
                                       ELSE [p EXCEPT !.state = "READY"]

\* The body of the loop of Kernel_Tick_Handler for one process.
ChargeTicks(p, ticks) ==
    LET starved == IF PREVENT_STARVATION /\ p.state = "READY"
                   THEN (p.starvation_ticks + ticks) % UINT
                   ELSE p.starvation_ticks
        left    == IF p.request_timeout = 0 THEN 0 ELSE TimeLeft(p, ticks)
        charged == [p EXCEPT !.starvation_ticks = starved, !.request_timeout = left]
    IN IF p.request_timeout # 0 /\ left = 0 THEN Expired(charged) ELSE charged

\* Mutant: the loop ends at the first process without a timer.  (EverybodyRunsAgain)
ChargesUntilNoTimer(pd, list, ticks) ==
    IF ticks = 0 THEN pd
    ELSE [p \in DOMAIN pd |->
             IF \E i \in DOMAIN list :
                   /\ list[i] = p
                   /\ \A j \in 1..(i - 1) : pd[list[j]].request_timeout # 0
             THEN ChargeTicks(pd[p], ticks) ELSE pd[p]]

Kernel_Tick_Handler(pd, list, ticks) ==
    IF ticks = 0 THEN pd
    ELSE [p \in DOMAIN pd |-> IF p \in Listed(list) THEN ChargeTicks(pd[p], ticks) ELSE pd[p]]

-----------------------------------------------------------------------------
(* Selecting the next task.                                                *)

\* The processes in the order ptrlist_cnext visits them, starting after last.
ScanOrder(list, last) ==
    LET n == Len(list)
        i == CHOOSE i \in 1..n : list[i] = last
    IN [k \in 1..n |-> list[((i + k - 1) % n) + 1]]

\* Mutant: highest_priority is not updated.  (PriorityUnlessStarving)
ImprovesAlways(pd, scan, k) ==
    pd[scan[k]].state = "READY" /\ pd[scan[k]].pri <= LOWEST_PRIORITY

\* Mutant: the comparison is <=, so the last of the best wins.  (EverybodyRunsAgain)
ImprovesOnTie(pd, scan, k) ==
    /\ pd[scan[k]].state = "READY"
    /\ pd[scan[k]].pri <= LOWEST_PRIORITY
    /\ \A j \in 1..(k - 1) :
          pd[scan[j]].state = "READY" => pd[scan[j]].pri >= pd[scan[k]].pri

\* Mutant: highest_priority starts at LOWEST_PRIORITY.  (NullOnlyWithoutTasks)
ImprovesUponLowest(pd, scan, k) ==
    /\ pd[scan[k]].state = "READY"
    /\ pd[scan[k]].pri < LOWEST_PRIORITY
    /\ \A j \in 1..(k - 1) :
          pd[scan[j]].state = "READY" => pd[scan[j]].pri > pd[scan[k]].pri

\* The k-th process scanned takes over next_dispatch.
Improves(pd, scan, k) ==
    /\ pd[scan[k]].state = "READY"
    /\ pd[scan[k]].pri <= LOWEST_PRIORITY
    /\ \A j \in 1..(k - 1) :
          pd[scan[j]].state = "READY" => pd[scan[j]].pri > pd[scan[k]].pri

\* Mutant: whoever has waited at all is starving.  (PriorityUnlessStarving)
StarvesAtOnce(p) == PREVENT_STARVATION /\ p.state = "READY" /\ p.starvation_ticks > 0

\* The starvation test is the else branch of the priority test.
CountsAsStarving(p) ==
    PREVENT_STARVATION /\ p.state = "READY" /\ p.starvation_ticks >= STARVATION_MAX

\* Of two candidates at j and k, k is the one left in most_starved: a later one
\* takes over unless the earlier count is <= its own.
Keeps(pd, scan, k, j) ==
    IF j < k THEN pd[scan[j]].starvation_ticks > pd[scan[k]].starvation_ticks
             ELSE pd[scan[j]].starvation_ticks >= pd[scan[k]].starvation_ticks

\* The task returned, as a set of at most one PID: {} stands for NULL.
Kernel_Select_Next_Task(pd, list, last) ==
    LET scan      == ScanOrder(list, last)
        improving == {k \in DOMAIN scan : Improves(pd, scan, k)}
        starving  == {k \in DOMAIN scan \ improving : CountsAsStarving(pd[scan[k]])}
    IN {scan[k] : k \in
          IF starving # {} THEN {k \in starving : \A j \in starving : Keeps(pd, scan, k, j)}
                           ELSE {k \in improving : \A j \in improving : j <= k}}

-----------------------------------------------------------------------------
(* Dispatching.                                                            *)

\* The end of Kernel_Dispatch_Next_Task, with p selected.  The stack pointer of
\* a process without a stack was never set: Exit_Kernel jumps to nowhere.
Run(pd, p) ==
    /\ PD' = [pd EXCEPT ![p].state = "RUNNING", ![p].starvation_ticks =
                 IF PREVENT_STARVATION THEN 0 ELSE @]
    /\ Current_Process' = p
    /\ Last_Dispatched' = p
    /\ Ticks_Since_Last_Cswitch' = 0
    /\ mode' = IF pd[p].stack THEN "task" ELSE "halted"

\* Mutant: the task that gives way stays RUNNING.  (AtMostOneRunning)
NotDemoted(pd) == pd

\* The current task, when it is still RUNNING, competes again as READY.
Demote(pd) ==
    [p \in DOMAIN pd |-> IF p = Current_Process /\ pd[p].state = "RUNNING"
                         THEN [pd[p] EXCEPT !.state = "READY"] ELSE pd[p]]

Kernel_Dispatch_Next_Task(pd, list, last, ticks) ==
    LET charged == Kernel_Tick_Handler(Demote(pd), list, ticks)
        next    == Kernel_Select_Next_Task(charged, list, last)
    IN /\ Tick_Count' = 0
       /\ \/ \E p \in next : Run(charged, p)
          \/ /\ next = {}
             /\ PD' = charged
             /\ Last_Dispatched' = last
             /\ mode' = IF list = <<>> THEN "halted" ELSE "idle"
             /\ UNCHANGED <<Current_Process, Ticks_Since_Last_Cswitch>>

\* A request that leaves Kernel_Request_Cswitch at 0: back to the caller.
Return(error, pd) ==
    /\ err' = error
    /\ PD' = pd
    /\ UNCHANGED <<sched, mode>>

\* Mutant: Kernel_Request_Cswitch is not set.  (CurrentIsRunning)
SwitchForgotten(error, pd) == Return(error, pd)

\* A request that ends with a context switch.
Switch(error, pd) ==
    /\ err' = error
    /\ Kernel_Dispatch_Next_Task(pd, ProcessList, Last_Dispatched, Tick_Count)

-----------------------------------------------------------------------------
(* Task services.                                                          *)

\* A task runs and may enter the kernel with a request.
Running == mode = "task"

\* A malloc whose result is used unchecked has failed: the code writes to
\* address 0, where the AVR has its registers.
WriteThroughNull ==
    /\ MallocMayFail
    /\ mode' = "halted"
    /\ UNCHANGED <<PD, ProcessList, sched, err>>

\* last_state is not initialised either; it is written before it is read.
NewTask(pid, timeout, stack) ==
    [state |-> "READY", last_state |-> "DEAD", pri |-> Prio[pid],
     request_timeout |-> timeout, starvation_ticks |-> 0, stack |-> stack]

\* noErr is what err holds when nothing fails.
Kernel_Create_Task_Direct(noErr) ==
    \/ /\ Task_Count = MAXTHREAD
       /\ Return("MAX_OBJECT_ERR", PD)
       /\ UNCHANGED ProcessList
    \/ /\ Task_Count # MAXTHREAD
       /\ MallocMayFail                       \* no room for the descriptor
       /\ Return("MALLOC_FAILED_ERR", PD)
       /\ UNCHANGED ProcessList
    \/ /\ Task_Count # MAXTHREAD
       /\ ProcessList # <<>>                  \* no room for the list entry
       /\ WriteThroughNull
    \/ /\ Task_Count # MAXTHREAD
       /\ Last_PID < MaxPid
       /\ \E timeout \in FreshTimeouts, stack \in (IF MallocMayFail THEN BOOLEAN ELSE {TRUE}) :
             Return(IF stack THEN noErr ELSE "MALLOC_FAILED_ERR",
                    Append(PD, NewTask(Last_PID + 1, timeout, stack)))
       /\ ProcessList' = Append(ProcessList, Last_PID + 1)

\* Before OS_Start err is not reset between calls.
CreateAtBoot == mode = "boot" /\ Kernel_Create_Task_Direct(err)

Task_Create == Running /\ Kernel_Create_Task_Direct("NO_ERR")

\* Mutant: waiting tasks may be suspended.  (GettersWait, CallersWait)
SuspendableAnyhow(p) == PD[p].state # "SUSPENDED"

Suspendable(p) == PD[p].state \in {"READY", "RUNNING", "SLEEPING"}

Task_Suspend(p) ==
    /\ Running
    /\ p # Current_Process \/ SelfSuspend
    /\ UNCHANGED ProcessList
    /\ \/ p \notin Listed(ProcessList) /\ Return("OBJECT_NOT_FOUND_ERR", PD)
       \/ /\ p \in Listed(ProcessList)
          /\ ~Suspendable(p)
          /\ Return("UNPROCESSABLE_TASK_STATE_ERR", PD)
       \/ /\ p \in Listed(ProcessList)
          /\ Suspendable(p)
          /\ Return("NO_ERR", [PD EXCEPT ![p].state = "SUSPENDED",
                 ![p].last_state = IF PD[p].state = "RUNNING" THEN "READY" ELSE PD[p].state])

Task_Resume(p) ==
    /\ Running
    /\ UNCHANGED ProcessList
    /\ \/ p \notin Listed(ProcessList) /\ Return("OBJECT_NOT_FOUND_ERR", PD)
       \/ /\ p \in Listed(ProcessList)
          /\ PD[p].state # "SUSPENDED"
          /\ Return("UNPROCESSABLE_TASK_STATE_ERR", PD)
       \/ /\ p \in Listed(ProcessList)
          /\ PD[p].state = "SUSPENDED"
          /\ Return("NO_ERR", [PD EXCEPT ![p].last_state = "SUSPENDED",
                 ![p].state = IF PD[p].last_state = "RUNNING" THEN "READY"
                                                              ELSE PD[p].last_state])

Task_Sleep(t) ==
    /\ Running
    /\ UNCHANGED ProcessList
    /\ Switch("NO_ERR", [PD EXCEPT ![Current_Process].request_timeout = t,
                                   ![Current_Process].state = "SLEEPING"])

Task_Yield ==
    /\ Running
    /\ UNCHANGED ProcessList
    /\ Switch("NO_ERR", PD)

\* ptrlist_remove unlinks the i-th entry; when it is the head, the entry itself
\* stays and takes over its successor.  Last_Dispatched points to the removed
\* entry: the head, which now holds the next process, or a freed entry whose
\* link still leads to the successor, as from the entry before it.
LeftBehind(list, i) ==
    LET left == RemoveAt(list, i)
    IN IF i > 1 THEN list[i - 1] ELSE IF left = <<>> THEN 0 ELSE left[1]

Task_Terminate ==
    /\ Running
    /\ err' = "NO_ERR"
    /\ \E i \in DOMAIN ProcessList :
          /\ ProcessList[i] = Current_Process
          /\ ProcessList' = RemoveAt(ProcessList, i)
          /\ Kernel_Dispatch_Next_Task([PD EXCEPT ![Current_Process].state = "DEAD"],
                 RemoveAt(ProcessList, i), LeftBehind(ProcessList, i), Tick_Count)

\* Before OS_Start every service but a creation is refused, in os.c.
CallTooEarly == mode = "boot" /\ Return("KERNEL_INACTIVE_ERR", PD) /\ UNCHANGED ProcessList

\* The first dispatch starts the scan after the tail, so at the head.
FirstSelected == Kernel_Select_Next_Task(PD, ProcessList, Last(ProcessList))

\* What it selects does not run yet: the first pass of the main loop finds that the
\* task has made no request (NONE), and dispatches again.  The timer has only just
\* been started, so neither dispatch has ticks to charge.
OS_Start ==
    /\ mode = "boot"
    /\ Task_Count > 0
    /\ UNCHANGED ProcessList
    /\ \/ /\ err' = "NO_ERR"
          /\ \E p \in FirstSelected : Kernel_Dispatch_Next_Task(PD, ProcessList, p, Tick_Count)
       \/ /\ FirstSelected = {}              \* every task is out of range
          /\ UNCHANGED err
          /\ Kernel_Dispatch_Next_Task(PD, ProcessList, Last(ProcessList), Tick_Count)

-----------------------------------------------------------------------------
(* The timer interrupt and the idle loop.                                  *)

\* Mutant: the counter is incremented after the comparison.  (TicksAreCharged)
SliceUsedUpLate == Ticks_Since_Last_Cswitch >= PREEMPTIVE_CSWITCH_FREQ

\* The tick that comes now is the last of the time slice.
SliceUsedUp == Ticks_Since_Last_Cswitch + 1 >= PREEMPTIVE_CSWITCH_FREQ

\* Kernel_Tick_ISR when it returns to what it interrupted.
TickOnly ==
    /\ \/ /\ mode = "task"
          /\ PREEMPTIVE_CSWITCH => ~SliceUsedUp
          /\ Ticks_Since_Last_Cswitch' =
                IF PREEMPTIVE_CSWITCH THEN Ticks_Since_Last_Cswitch + 1
                                      ELSE Ticks_Since_Last_Cswitch
       \/ /\ mode = "idle"
          /\ Tick_Count < IdleLag
          /\ UNCHANGED Ticks_Since_Last_Cswitch
    /\ Tick_Count' = (Tick_Count + 1) % UINT
    /\ UNCHANGED <<PD, ProcessList, Current_Process, Last_Dispatched, mode, err>>

\* Kernel_Tick_ISR when the running task has used up its slice: it enters the
\* kernel with a TASK_YIELD request on behalf of the task.
Preempt ==
    /\ mode = "task"
    /\ PREEMPTIVE_CSWITCH
    /\ SliceUsedUp
    /\ err' = "NO_ERR"
    /\ UNCHANGED ProcessList
    /\ Kernel_Dispatch_Next_Task(PD, ProcessList, Last_Dispatched, (Tick_Count + 1) % UINT)

Kernel_Tick_ISR == TickOnly \/ Preempt

SomeReady == \E p \in Listed(ProcessList) : PD[p].state = "READY"

\* Mutant: the ticks the idle loop charges stay pending.  (TicksChargedOnce)
IdlePollAgain ==
    /\ mode = "idle"
    /\ ~SomeReady
    /\ Tick_Count > 0
    /\ PD' = Kernel_Tick_Handler(PD, ProcessList, Tick_Count)
    /\ UNCHANGED <<ProcessList, Current_Process, Last_Dispatched, Tick_Count,
                   Ticks_Since_Last_Cswitch, mode, err>>

\* The idle loop charges the pending ticks now and then ...
IdlePoll ==
    /\ mode = "idle"
    /\ ~SomeReady
    /\ Tick_Count > 0
    /\ PD' = Kernel_Tick_Handler(PD, ProcessList, Tick_Count)
    /\ Tick_Count' = 0
    /\ UNCHANGED <<ProcessList, Current_Process, Last_Dispatched,
                   Ticks_Since_Last_Cswitch, mode, err>>

\* ... and leaves once some process is READY, without charging them again.
IdleDispatch ==
    /\ mode = "idle"
    /\ SomeReady
    /\ LET next == Kernel_Select_Next_Task(PD, ProcessList, Last_Dispatched)
       IN \/ \E p \in next : Run(PD, p)
          \/ /\ next = {}                    \* every READY task is out of range
             /\ mode' = "halted"
             /\ UNCHANGED <<PD, Current_Process, Last_Dispatched, Ticks_Since_Last_Cswitch>>
    /\ UNCHANGED <<ProcessList, Tick_Count, err>>

-----------------------------------------------------------------------------
Init ==
    /\ PD = <<>>
    /\ ProcessList = <<>>
    /\ Current_Process = 0
    /\ Last_Dispatched = 0
    /\ Tick_Count = 0
    /\ Ticks_Since_Last_Cswitch = 0
    /\ mode = "boot"
    /\ err = "NO_ERR"

SysCall ==
    \/ Task_Create
    \/ \E p \in 0..MaxPid : Task_Suspend(p) \/ Task_Resume(p)
    \/ \E t \in SleepTicks : Task_Sleep(t)
    \/ Task_Yield
    \/ Task_Terminate

Next ==
    \/ CreateAtBoot
    \/ CallTooEarly
    \/ OS_Start
    \/ SysCall
    \/ Kernel_Tick_ISR
    \/ IdlePoll
    \/ IdleDispatch

Spec == Init /\ [][Next]_vars

\* The main program calls OS_Start, the timer keeps ticking and the idle loop
\* keeps looping; a task owes the kernel no call.
Fairness ==
    /\ WF_vars(OS_Start)
    /\ WF_vars(Kernel_Tick_ISR)
    /\ WF_vars(IdlePoll)
    /\ WF_vars(IdleDispatch)

FairSpec == Spec /\ Fairness

-----------------------------------------------------------------------------
(* Properties.                                                             *)

\* Every variable keeps its type.  The PIDs on the list and in the scheduler
\* variables are those of processes that exist.
TypeOK ==
    /\ PD \in Seq(Process)
    /\ Len(PD) <= MaxPid
    /\ ProcessList \in Seq(DOMAIN PD)
    /\ Current_Process \in {0} \cup DOMAIN PD
    /\ Last_Dispatched \in {0} \cup DOMAIN PD
    /\ Tick_Count \in UInts
    /\ Ticks_Since_Last_Cswitch \in Nat
    /\ mode \in Modes
    /\ err \in Errors

InState(p, states) == p \in DOMAIN PD /\ PD[p].state \in states

\* The processor executes at most one task: no process but the current one is
\* ever RUNNING, and none is while the dispatcher idles or before OS_Start.
AtMostOneRunning ==
    \A p \in DOMAIN PD : PD[p].state = "RUNNING" =>
        p = Current_Process /\ mode \in {"task", "halted"}

\* When a task makes a call and enters the main loop, it is RUNNING (the NOTE
\* at kernel.c:320), so its next context switch makes it READY again.
CurrentIsRunning == mode = "task" => PD[Current_Process].state = "RUNNING"

\* The process list holds every process that has not terminated, once, and the
\* scan of the dispatcher starts from a process that is on it, whatever entry
\* the last termination unlinked.
ListIsLive ==
    /\ \A i, j \in DOMAIN ProcessList : ProcessList[i] = ProcessList[j] => i = j
    /\ Listed(ProcessList) = {p \in DOMAIN PD : PD[p].state # "DEAD"}
    /\ mode \in {"task", "idle"} => Last_Dispatched \in Listed(ProcessList)
    /\ mode = "task" => Last_Dispatched = Current_Process

\* The dispatcher finds a task whenever there is one to be found: as long as memory
\* suffices, the kernel dereferences the NULL of Kernel_Select_Next_Task only after
\* the last task has terminated, or when every READY task has a priority outside
\* 0..LOWEST_PRIORITY and none of them is starving.
NullOnlyWithoutTasks ==
    mode = "halted" /\ ~MallocMayFail =>
        LET ready == {p \in Listed(ProcessList) : PD[p].state = "READY"}
        IN \/ ProcessList = <<>>
           \/ /\ ready # {}
              /\ \A p \in ready : PD[p].pri > LOWEST_PRIORITY /\ ~CountsAsStarving(PD[p])

\* The missed-tick counter stays small: ticks are charged at least once per
\* time slice, so the 16-bit counter cannot wrap and lose time.
TicksAreCharged ==
    /\ mode = "idle" => Tick_Count <= IdleLag
    /\ mode = "task" /\ PREEMPTIVE_CSWITCH =>
          /\ Ticks_Since_Last_Cswitch < PREEMPTIVE_CSWITCH_FREQ
          /\ Tick_Count <= Ticks_Since_Last_Cswitch + IdleLag

Sleeping(p) == \/ PD[p].state = "SLEEPING"
               \/ PD[p].state = "SUSPENDED" /\ PD[p].last_state = "SLEEPING"

\* Nobody sleeps without a timer that will end it, suspended or not: a sleeper
\* whose timer runs out while it is suspended is thawed, not forgotten.
SleeperHasTimer == \A p \in DOMAIN PD : Sleeping(p) => PD[p].request_timeout > 0

\* A dispatch decided in this step (a task that yields to itself within the
\* tick it was dispatched in changes nothing, and is not seen as one).
Dispatched ==
    /\ mode' = "task"
    /\ Ticks_Since_Last_Cswitch' = 0
    /\ \/ mode # "task"
       \/ Current_Process' # Current_Process
       \/ Ticks_Since_Last_Cswitch > 0

\* A READY process never waits behind a process of lower priority, unless that
\* one has been waiting for STARVATION_MAX ticks (Kernel_Select_Next_Task).
PriorityUnlessStarving ==
    [][Dispatched =>
        LET next == Current_Process'
        IN \/ \A p \in Listed(ProcessList') :
                 PD'[p].state = "READY" => PD'[p].pri >= PD'[next].pri
           \/ /\ PREVENT_STARVATION
              /\ PD[next].starvation_ticks + Tick_Count + 1 >= STARVATION_MAX]_vars

\* Only Task_Resume ends a suspension; in particular a timer that runs out does
\* not put a SUSPENDED process back on the processor.
SuspendedUntilResumed ==
    [][\A p \in DOMAIN PD :
        InState(p, {"SUSPENDED"}) /\ PD'[p].state # "SUSPENDED" =>
            p # Current_Process /\ Task_Resume(p)]_vars

\* Every READY process gets the processor (or is suspended): round robin among
\* equals, and across priorities when starvation is prevented.
ReadyTasksRun == \A p \in 1..MaxPid : InState(p, {"READY"}) ~> ~InState(p, {"READY"})

=============================================================================
