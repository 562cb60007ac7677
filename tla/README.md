# ezRTOS in TLA+

ezRTOS is a small real-time kernel for AVR microcontrollers, written in C (`src/p2/rtos`).
Applications create tasks, give them priorities, and let them work together through mutexes,
semaphores, events, event groups and mailboxes. This directory holds TLA+ models of the kernel,
the TLC configurations that check them on small instances, and theorems about the scheduler,
mutexes, semaphores, events, event groups and mailboxes that TLAPS checks for every configuration.

Paths below are relative to `src/p2/rtos` unless they start with `src/`.

## 1. The system

### 1.1 Components

| Component | Source | State | Operations |
|---|---|---|---|
| Scheduler | `kernel/kernel.c` | `Current_Process`, `Last_Dispatched`, `Tick_Count`, `Ticks_Since_Last_Cswitch`, `Kernel_Request_Cswitch`, `err` | timer interrupt, charging ticks, selecting, dispatching, idle loop, main loop, reset, start |
| Tasks | `kernel/task/task.c` | the process descriptors (PD), `Task_Count`, `Last_PID` | create, suspend, resume, sleep, yield, terminate |
| Process and object lists | `kernel/others/PtrList.c` | singly linked, the head entry is static | add, find, remove, circular next |
| Wait queues | `kernel/others/Queue.c` | linked elements and a count | enqueue, dequeue, peek, free |
| Mutexes | `kernel/mutex/mutex.c` | owner, lock count, wait queue, queue of priorities, priority lent | create, destroy, lock, unlock |
| Semaphores | `kernel/semaphore/semaphore.c` | count, whether binary, wait queue | create, destroy, get, give |
| Events | `kernel/event/event.c` | owner, count | create, wait, signal |
| Event groups | `kernel/event/event_group.c` | bits | create, destroy, set, clear, wait, get |
| Mailboxes | `kernel/mailbox/mailbox.c` | queue of mails, queues of senders and receivers | create, destroy, send, receive, check, destroy a mail |
| API | `os.c` | none | puts a request into the caller's PD and enters the kernel |
| Hardware | `kernel/hardware/*` | registers | context switch, timer, UART |
| Allocator | `kernel/others/kmalloc.c` | free list | called by nobody: the kernel uses `malloc` |

### 1.2 How they interact

A task calls a function of `os.c`. It disables interrupts, stores a request and its arguments in
the task's own PD and enters the kernel, which is a loop (`kernel.c:321`): the main loop calls the
handler of the request, and, if the handler has set `Kernel_Request_Cswitch`, dispatches another
task. `Exit_Kernel` enables interrupts again. Everything between `Disable_Interrupt` and
`Exit_Kernel` is therefore atomic, with one exception: when no task is READY, the dispatcher enables
interrupts and loops until one is (`kernel.c:244-263`).

The timer interrupt (`Kernel_Tick_ISR`) only counts a tick; when the running task has used up its
time slice, it enters the kernel with a TASK_YIELD request on behalf of that task. The ticks counted
are charged in a batch, to every process on the list, at the next dispatch or by the idle loop
(`Kernel_Tick_Handler`): timers are decremented and a process whose timer ends becomes READY.

Objects wake tasks by writing READY into the `state` of a PD they find in a queue. A queue holds
pointers to PDs, and nothing removes them when a task leaves its wait in another way (a timer), so
state and queue can disagree. Event groups have no queue: whoever sets bits looks through the process
list for tasks that wait, and reads what each of them waits for in the arguments of its call. All
waits share the one timer a PD has.

### 1.3 What is hard here

- *Interleaving.* Preemption between any two calls; ticks during the idle loop.
- *Two views of the same fact.* PD state and wait queue, or owner of an event; `Last_Dispatched` (a pointer to a list entry)
  and the list; timer and state of a suspended sleeper; wait queue and queue of priorities of a mutex.
- *Batches.* Ticks are charged late and to tasks that were not asleep when they happened.
- *Left-overs.* A timer that outlives the wait it was set for; a count that no creation initialises.
- *Boundaries.* 16-bit counters, signed differences of unsigned values, the last waiter, the last task.
- *Partial failure.* Most calls of `malloc` are unchecked; a creation that fails half-way is not undone.
- *Progress.* Round robin, starvation prevention, hand-over of mutexes, service of waiters.

`PROJECT.json` lists these hazards line by line, with the properties that cover them.

### 1.4 What makes each component correct

- *Scheduler:* at most one process is RUNNING and it is the one executed; the list holds the live
  processes, once; no tick is lost; nobody waits behind a lower priority unless that one starves;
  sleepers wake up, and within a batch of the time asked for; READY tasks get to run.
- *Tasks:* only `Task_Resume` ends a suspension; a suspended sleeper does not lose its timer.
- *Mutexes:* a FIFO, reentrant lock: `Mutex_Lock` returns only with the mutex, a release with waiters
  hands it over, lent priorities are returned, waiters eventually own it.
- *Semaphores:* `Semaphore_Get` returns only with the counts; counts are neither lost, duplicated nor
  kept from a waiter; binary semaphores stay at 0 or 1; waiters are served.
- *Events:* a signal ends exactly one wait, whether it comes before or after it; `Event_Wait` returns only with the signal.
- *Event groups:* nobody waits for bits that are set; a wait ends with its bits or at its own time limit.
- *Mailboxes:* no mail is lost between a check and a wait; mails arrive once and in order; nobody waits without need.
- *All together:* whatever a well-behaved task waits for, it runs again.

## 2. The modules

| Module | Models | Checked by | Proved |
|---|---|---|---|
| `Kernel` | scheduler, tasks, process list, task API | `kernel_sched`, `kernel_starve`, `starve_two` | `KernelProofs`, `TimerProofs` |
| `SleepClock` | `Kernel` with an observer's clock per sleeper | `kernel_sched`, `sleep_short` | `SleepProofs` |
| `Mutex` | mutexes, on `Kernel` | `mutex_one`, `mutex_inherit` | `MutexProofs` |
| `FifoLock` | what a mutex promises (abstract) | refined by `Mutex` in `mutex_one` | refinement in `MutexProofs` |
| `Semaphore` | semaphores, on `Kernel` | `sem_one` | `SemaphoreProofs` |
| `CountingSemaphore` | what a semaphore promises (abstract) | refined by `Semaphore` in `sem_one` | refinement in `SemaphoreProofs` |
| `Clients` | tasks that share a mutex and a semaphore: `Semaphore` and `Mutex` | `clients` | `ClientsProofs` |
| `Mailbox` | mailboxes, on `Kernel` | `mailbox_one`, `mailbox_timeout` | `MailboxProofs` |
| `MailChannel` | what a mailbox promises (abstract) | refined by `Mailbox` in `mailbox_one` | refinement in `MailboxProofs` |
| `Event`, `EventGroup` | events; event groups, on `Kernel` | through `Events` | through `Events` |
| `Events` | the two composed | `events_one`, `event_stale` | `EventsProofs` |
| `OneShotEvents` | what the events promise (abstract) | refined by `Events` in `events_one` | refinement in `EventsProofs` |
| `MCKernel`, `MCSleepClock`, `MCMutex`, `MCSemaphore`, `MCClients`, `MCMailbox`, `MCEvents` | constants and behaviours for TLC | | |

`Mutex`, `Semaphore`, `Mailbox`, `Event` and `EventGroup` EXTEND `Kernel`: their next-state relations are those of the kernel plus the
calls of the component, so a mutex is checked together with preemption, sleeping, suspension,
termination and the idle loop. `Events` EXTENDS two of them at once, and so does `Clients`, with `Semaphore` and
`Mutex`: the calls of both work on the same processes, list and timers.

### 2.1 State and actions of Kernel

`PD[p]` is the descriptor of PID `p` (PIDs are handed out in order, so `Last_PID` is `Len(PD)`; the
descriptor of a terminated task stays, with state DEAD, as it does in memory). `ProcessList` is the
sequence of PIDs on the list, and `Task_Count` its length. `Current_Process` and `Last_Dispatched` are
PIDs, 0 for NULL. `mode` says where the processor is:

| `mode` | `KernelActive` | `Preemptive_Cswitch_Allowed` | |
|---|---|---|---|
| `boot` | 0 | 1 | before `OS_Start` |
| `task` | 1 | 1 | a task runs, interrupts on |
| `idle` | 1 | 0 | in the idle loop of the dispatcher, between two iterations |
| `halted` | | | the code has dereferenced NULL, or jumped to a stack that was never allocated: nothing is promised after it, and the model stops |

One kernel call is one action. `Return(error, pd)` ends a request that leaves `Kernel_Request_Cswitch`
at 0, `Switch(error, pd)` one that sets it: it includes the whole of `Kernel_Dispatch_Next_Task` (demoting the
caller, charging ticks, selecting, entering the idle loop or running the task selected). The idle loop
is split where interrupts can come in: `IdlePoll` is the periodic charge, `IdleDispatch` leaves the
loop, `TickOnly` is the interrupt. `Preempt` is an interrupt that ends a time slice, with the dispatch it causes.

`OS_Start` dispatches twice. `kernel.c:316` selects a task with the scan starting at the head (`FirstSelected`), but does not run it: the
first pass of the main loop finds that it has made no request (NONE, `task.c:54`), clears `err` and dispatches again. Of several tasks
with the best priority, the second one on the list therefore runs first.

What is abstracted:

- A *stack* is a Boolean: it could be allocated or not. Code, argument and saved registers are left out.
- *Requests and their results.* `request`, `request_args` and `request_retval` are written and read within one
  call; only semaphores, mailboxes and event groups read an argument later (`amount` in `Semaphore`, `request` in `Mailbox` and in `EventGroup`).
  `request_retval`, which a task reads after its call, is left out.
- *Printing* and the DEBUG switch.
- *The list entry freed by `Task_Terminate`.* `Last_Dispatched` points to it, and the dispatcher follows its
  `next` (`LeftBehind`). avr-libc's `free` writes its own link over the first word of the block, which is
  `PtrList.ptr`, and nothing is allocated before the scan, so `next` is intact. The first test of the idle
  loop reads a state through the overwritten word; the model assumes that it does not find READY there (if
  it did, the dispatcher would select nothing and dereference NULL).
- *The lock count of a mutex* is a number without a width: it is never near 2^16 (`MaxLock`).
- *`Current_Process` at boot* is NULL at the first dispatch; `kernel.c:227` reads the state at that address, which
  the first dispatch does not act on.

`FreshTimeouts` is what `malloc` leaves in `request_timeout`, which no creation initialises. `MallocMayFail`
switches on every failing allocation; an unchecked one is `WriteThroughNull`. `SelfSuspend` allows a task
to suspend itself, which the comment at `os.c:97` advises against.

### 2.2 Mutex and Semaphore

`mutex[m]` and `semaphore[s]` are the objects in order of id, `MutexList` and `SemaphoreList` the ids still on
the list: a destroyed object is off the list and keeps its contents. Each path of a handler is a
disjunct: taking a free mutex (`Take`), recursive locking (`TakeAgain`), waiting (`Wait`); one of several unlocks
(`ReleaseOnce`), the last one with nobody waiting (`ReleaseToNobody`) or with a hand-over (`ReleaseToNext`).

Destroying an unknown id while the list is not empty frees the last object and leaves it on the list
(`mutex.c:107-127`, `semaphore.c:111-131`): the models halt. `findMutexByMutexID` with an empty list
compares the id with the word at address 0, so it may report nothing (`MutexNotFound`).

`Kernel_Semaphore_Get_From_Queue` serves the first `k` waiters, with `k` determined by `Serves`; when
it has served all of them it goes on with a NULL head (`Outcomes`): what it reads there are
registers, so it may stop, raise an error, or, if the byte at the place of the state is WAIT_SEMAPHORE
(`LowMemoryWaits`), corrupt memory.

Each task that waits reads its amount from the arguments of its own last call, so `amount[p]` follows
every call with a second argument. `KernelStep` lists the kernel's own calls for this reason.

`CountingSemaphore` knows a count and a line of waiters, each with what it wants. *Take* lowers the count and never below 0, also past a
line of waiters, as the code does; *ask* joins the line when there is not enough; *put* raises the count and serves the waiters from the
head of the line as far as that reaches, no more and no fewer. Each semaphore is one of these (`Counting(s)`): its line is the wait queue with what the PDs
of the waiters hold as their amounts (`Line`). What the serving loop reads after the last waiter, what it compares with what is left, and the amounts that the
tasks' other calls overwrite must therefore never show.

### 2.3 Mailbox

`mailbox[mb]` and `MailboxList` are as for the other objects. A mail is its contents (its size and its source are
copied along with them). `request[p]` stands for the pointer in `request_args[1]` of a task in a mailbox call: a message
when it sends, "MAIL" when it receives; it is "NULL" when the call is finished, as nothing reads it after that. `received[p]` is
the `MAIL` that a task receives into; it starts out zeroed.

A send can finish a receive that waits, which makes room for a send that waits, and so on: in the code
`Kernel_Mailbox_Recv_From_Queue` and `Kernel_Mailbox_Send_From_Queue` call each other through the two `Internal` functions.
An *exchange* is the record of what these functions write to (the mailbox, the PDs, the arguments
and the received mails, and the error raised); `Store` and `Fetch` are the `Internal` functions once they do not have to wait, and
`Finish` writes the exchange back. The model keeps the recursion as a function of its depth: `Serve[n]` is the pair of functions whose calls are nested
at most `n` deep. Each call takes a task out of a queue before the next one, so `ServeAll`, with one level more than there are waiters,
is the recursion of the code; `ServeIsRecursive` (section 4) proves that it satisfies the code's own equations. `noRoom` is the set of senders for whose message `malloc` fails: they are made READY like the
others, their message is lost (`mailbox.c:209`).

Each handler has one disjunct per way out: an unknown id, waiting or giving up (`Block`, `Fail`), going through (`Finish`), and
an unchecked allocation that fails. `Mailbox_Destroy_Mail` with NULL reports the error and then writes through the
pointer (`mailbox.c:145-157`), and destroying an unknown id frees the last mailbox: the model halts.

`MailChannel` is the same thing without tasks that can be preempted or suspended: stored messages, messages on offer, and takers. It knows nothing of the
recursion: a message that arrives goes to the first taker, and room that becomes free to the first offer. Each mailbox is one such channel
(`Channel(mb)`); what a task has received is shared among all of them, so a channel lets the others give messages to tasks (`Elsewhere`).

### 2.4 Event, EventGroup and Events

An event is used once. `Event_Wait` makes its caller the owner and lets it wait (`WaitForSignal`), or, when signals have been counted,
destroys the event and returns; `Event_Signal` counts (`Counted`), or makes the owner READY and destroys the event
(`WakeOwner`). `FreshCounts` is what `malloc` leaves in `count`, which no creation initialises (`event.c:76`). `Event_Signal`
finds the owner's PD by its PID and writes to it unchecked: when the owner has terminated, that is a write through NULL, and the
model halts. A destroyed event leaves an object with owner and count 0 behind, which is not what memory holds then but keeps
states together that nothing distinguishes.

`events[g]` is the set of bits of group `g`. `request[p]` is what the PD of a task in WAIT_EVENTG holds in its arguments:
the group, the bits, whether all of them, and whether the call had a time limit. A task in any other state has `NoRequest`, as nobody reads its
arguments. `Event_Group_Set_Bits` serves every task on the list at once and dispatches nobody; the timers of those
it serves run on, as in the code. `Event_Group_Wait_Bits` sets the timer first (`Armed`), also when it returns at once; a group that
does not exist counts as satisfied (`event_group.c:196-217`).

The two are checked together because they share `request_timeout`: the timer that a wait for bits leaves behind ends a wait for an
event. `TimedTasks` are the tasks that may give a time limit, so that properties can tell the tasks that expose
themselves to this from the others.

`OneShotEvents` knows events and blocked tasks only: *raise* and *await*, in either order, and whichever comes second ends the event. Its
`Impatient` tasks (the `TimedTasks`) may be unblocked at any time; nobody else can, except by a raise.

### 2.5 Clients

Each task gets counts of a semaphore and gives back what it got, locks a mutex and unlocks it. `held[p]` is what an
observer knows to have been granted to `p`: the kernel does not record it. The composition has the waits the kernel offers side by
side: a holder of counts may block on the mutex (not the other way round, or the application would deadlock by itself).
`Total(held)` is the sum over the tasks. `UnitsAreConserved` says nothing of a `halted` state: a call that writes through NULL stops
half-way.

`WaitsCanEnd` says of every single state what liveness needs in it: a task that waits for the mutex waits for an owner that is READY, RUNNING or
SLEEPING (`GoesOn`), and while somebody waits for counts somebody else has some, and either goes on or waits for the mutex. A wait never
depends on nobody, on a task that is suspended or gone, or on itself.

## 3. The runs

All runs use three tasks, except `kernel_sched` (four) and `starve_two` and `event_stale` (two). Three is the
smallest number for which a queue can hold two waiters behind an owner, the scan of the dispatcher has a
middle, and a termination can hit the head, the middle and the tail of the list. `MaxPid` bounds the
tasks created in one behaviour; with `MAXTHREAD = 3` and `MaxPid = 4` a slot is used again after a termination.
`CHECK_DEADLOCK` is off in all of them: the model stops where the program does (`halted`, and an idle loop in
which nobody has a timer, where only ticks beyond `IdleLag` could happen).

| Run | Module, specification | Asks | Shows |
|---|---|---|---|
| `kernel_sched` | `MCSleepClock`, `ClockSpec` | is the scheduler consistent, whatever the tasks do and whatever fails? | type invariant, `AtMostOneRunning`, `CurrentIsRunning`, `ListIsLive`, `TicksAreCharged`, `SleeperHasTimer`, `SleepWithinABatch`, `TicksChargedOnce`, `PriorityUnlessStarving`, `SuspendedUntilResumed` hold |
| `kernel_starve` | `MCKernel`, `Spec` | the same with long slices, starvation prevention, wrapping counters, self-suspension and priorities at and beyond the limit; when does the dispatcher find nobody? | `PriorityUnlessStarving`, `AtMostOneRunning`, `SleeperHasTimer`, `NullOnlyWithoutTasks` hold |
| `mutex_one` | `MCMutex`, `MutexSpec` | is one mutex a FIFO lock, and are priorities returned? | `WaitersWait`, `NoLostHandOver`, `PriorityRestored` and the refinement of `FifoLock` hold |
| `sem_one` | `MCSemaphore`, `SemaphoreSpec` | are waiters and counts consistent, and served in order? | `GettersWait`, `CountsAreNotIdle`, `NeverOverdrawn` and the refinement of `CountingSemaphore` hold |
| `clients` | `MCClients`, `ClientSpec` | are counts conserved, and does everybody who waits, for whatever it is, go on? | `UnitsAreConserved`, `WaitsCanEnd`, `EverybodyRunsAgain` hold for three equal tasks |
| `mailbox_one` | `MCMailbox`, `MailboxSpec` | is a mailbox a FIFO channel, and does anybody wait without need? | `CallersWait`, `NobodyWaitsInVain` and the refinement of `MailChannel` hold |
| `events_one` | `MCEvents`, `EventsSpec` | is a signal or a wakeup lost, and does anybody return without what it waited for? | `OwnersWait`, `NobodyWaitsForSetBits`, `WaitersWaitForBits` and the refinement of `OneShotEvents` hold |
| `starve_two`, `sleep_short`, `mutex_inherit`, `mailbox_timeout`, `event_stale` | | what the documents say and the code does not do | violated, see section 6 |

Bounds, and why they are enough:

- `UINT` is 16 instead of 2^16: with time slices of 1 or 2 ticks and sleeps of up to 3
  it is as far from the numbers in use as 2^16 is from a slice of 25. In `kernel_starve` it is 8 with a slice of 7, so that
  `Tick_Count` (a slice and the lag of the idle loop) and the starvation counters do wrap.
- Priorities (`Prio`): in `kernel_sched` two urgent tasks, one at `LOWEST_PRIORITY`, one beyond it. In `kernel_starve` the first task is beyond it, the
  second at it and the third urgent, so that a start with nobody to select, and a READY task that is selected only when it starves, both occur.
  `mutex_one` has the priorities of Test 9; `clients` has equal ones (section 5).
- `PREEMPTIVE_CSWITCH_FREQ` 2 (1 where time does not matter), `STARVATION_MAX` 2 or 3: the smallest values for which a
  slice has a first and a last tick, and for which a starving task can be passed over.
- `IdleLag` is 1: the idle loop polls every `Task_Count*100` iterations, about 2 ms, and a tick is 10 ms (`os.h:31`), so at
  most one tick comes between two polls.
- `MaxLock` 2, semaphore amounts 1 and 2, counts up to `MaxCount` 3: enough for a recursive lock, for one give that
  serves two waiters, and for a head that asks for more than there is.
- `mutex_one`, `sem_one` and `mailbox_one` have one object each, as objects share nothing but the tasks; `clients` has a mutex and a
  semaphore of one or two counts; `events_one` has one event at a time, created again once it is used up, and a group of two bits, the fewest
  for which waiting for some and for all differ. One of its three tasks gives time limits. The bits are symmetric, because
  the kernel treats them alike; its `VIEW` leaves out `err` (`ButErr`), which the kernel only hands to its callers.
- `MAX_EVENT_SIG_MISS` is 1 as in `event.h:8`, and a new event may hold a count of 0 or 1.
- Mailboxes have room for one or two mails: one makes every send after the first wait, two is the smallest with an order
  inside. Two messages, as the mails of two senders must be told apart; they are symmetric, because the kernel never looks into
  one. Blocking calls in `mailbox_one` have no limit (timeout 0, as in `rtos_test.c`); `mailbox_timeout` adds a limit of one tick.

**Fairness.** Weak fairness of `OS_Start`, `Kernel_Tick_ISR`, `IdlePoll` and `IdleDispatch`: `main` calls `OS_Start`, the timer
keeps interrupting and the idle loop keeps iterating. These are hardware and a loop of the kernel; no task is assumed to make any
call. (`Fairness` in `Kernel`, used by `starve_two`; the same four in `ClientSpec`.) The clients
also end their critical sections: a task that runs again and again while it
holds something gives it back (strong fairness of `Give` and `Unlock` for each task, as it may be preempted in between). Only a task that
holds nothing may be suspended or terminate. They do not nest the semaphore in the mutex, so that the liveness does not depend on the application's
lock order.

**What would break a property.** Each property of a passing run has a mutant in `PROJECT.json`: an operator
that stands before the definition it would replace, with a plausible mistake, for which TLC finds the property violated.

## 4. What is proved

For every value of the constants: any number of tasks and objects, any priorities, any time slice and range of
TICK, with and without preemption and starvation prevention, with failing mallocs and uninitialised memory, unless an assumption is named.
The theorems rest on the ASSUMEs of the modules (`ConfigAssumption`, `EnvironmentAssumption`, `EventAssumption`...), which say no more than that the
constants have the types the C declarations give them and that a thread, a time slice and an `unsigned int` are not empty.

| Module | Theorem | States | Assumes |
|---|---|---|---|
| `KernelProofs` | `Invariance` | `[]Inv`, the inductive invariant of the scheduler | |
| | `TypeCorrect` | `[]TypeOK` | |
| | `OneRunning` | `[]AtMostOneRunning` | |
| | `ListCorrect` | `[]ListIsLive` | |
| | `TicksCharged` | `[]TicksAreCharged` | |
| | `CallerIsRunning` | `[]CurrentIsRunning` | nobody suspends itself |
| | `PriorityRespected` | `PriorityUnlessStarving` | |
| | `SelectionSucceeds` | `[]NullOnlyWithoutTasks`, which names its own assumption | |
| `TimerProofs` | `SleepersHaveTimers` | `[]SleeperHasTimer` | nobody sleeps for 0 ticks |
| | `SuspensionLasts` | `SuspendedUntilResumed` | nobody suspends itself |
| `SleepProofs` | `SleepsAreOnTime` | `[]SleepWithinABatch` | nobody suspends itself, preemption, sleeps and batches below half the range of TICK |
| | `NoTickIsLost` | `TicksChargedOnce` | the same |
| `MutexProofs` | `MutexInvariance` | `[]MutexInv`, the inductive invariant of mutexes and scheduler | |
| | `MutexTypeCorrect` | `[]MutexTypeOK` | |
| | `HandOverCorrect` | `[]NoLostHandOver` | |
| | `MutexKeepsScheduler` | `[](AtMostOneRunning /\ ListIsLive)` with mutexes | |
| | `MutexWaitersWait` | `[]WaitersWait` | nobody suspends itself, fresh timers are 0 |
| | `MutexImplementsLock` | `ImplementsFifoLock` | the same |
| | `PriorityIsRestored` | `[]PriorityRestored` | the same, and nobody has or waits for two mutexes at a time (`OneAtATime`) |
| | `OnlyMutexIsRestored` | `[]PriorityRestored` | the same, with one mutex created instead of `OneAtATime` |
| `SemaphoreProofs` | `SemaphoreTypeCorrect` | `[]SemaphoreTypeOK` | amounts below 2^15 |
| | `SemaphoreKeepsScheduler` | `[](AtMostOneRunning /\ ListIsLive)` with semaphores | the same |
| | `CountsNeverOverdrawn` | `[]NeverOverdrawn`, which names its own assumption | |
| | `SemaphoreGettersWait` | `[]GettersWait` | amounts below 2^15, nobody suspends itself, fresh timers are 0 |
| | `NoIdleCounts` | `[]CountsAreNotIdle` | the same, and no initial debt |
| | `SemaphoresCount` | `ImplementsCountingSemaphore` | the same |
| `EventsProofs` | `EventsInvariance` | `[]EventsInv`, the inductive invariant of events, groups and scheduler | |
| | `EventsTypeCorrect` | `[]EventsTypeOK` | |
| | `NoLostBits` | `[]NobodyWaitsForSetBits` | |
| | `BitWaitsEndWell` | `WaitersWaitForBits` | nobody suspends itself |
| | `EventOwnersWait` | `[]OwnersWait` | nobody suspends itself, fresh timers are 0 |
| | `EventsImplementOneShot` | `ImplementsOneShotEvents` | the same, and a limit on counted signals |
| `MailboxProofs` | `ServeIsRecursive` | `ServeAll` solves the equations of the two recursive functions | |
| | `MailboxTypeCorrect` | `[]MailboxTypeOK` | |
| | `MailboxKeepsScheduler` | `[](AtMostOneRunning /\ ListIsLive)` with mailboxes | |
| | `MailboxCallersWait` | `[]CallersWait` | nobody suspends itself, fresh timers are 0, no call has a time limit |
| | `NoWaitInVain` | `[]NobodyWaitsInVain` | the same |
| | `MailboxIsChannel` | `Channel(mb)!ChannelSpec`, for each mailbox | the same, and no capacity is 0 |
| | `MailboxesAreChannels` | `ImplementsMailChannel` | the same |
| `ClientsProofs` | `UnitsConserved` | `[]UnitsAreConserved` | amounts below 2^15, nobody suspends itself |
| | `ClientsKeepPromises` | `[](AtMostOneRunning /\ ListIsLive /\ WaitersWait /\ NoLostHandOver /\ GettersWait /\ CountsAreNotIdle)` with mutexes and semaphores together | the same, no initial debt, fresh timers are 0 |
| | `ClientWaitsCanEnd` | `[]WaitsCanEnd` | the same, and nobody asks for more than the semaphore is created with |

`TimerProofs` EXTENDS `KernelProofs`; `SleepProofs`, `MutexProofs`, `SemaphoreProofs`, `EventsProofs` and `MailboxProofs` EXTEND
`TimerProofs`, and `ClientsProofs` EXTENDS both `SemaphoreProofs` and `MutexProofs`. The assumptions are where the code needs
them: section 5 says what happens without.

*The scheduler.* `TypeOK` is not inductive: a dispatch puts `Last_Dispatched` on a process the scan has found, so
the scan must start on the list; a resume copies `last_state` into `state`, so what is saved in it matters; and
what a dispatch leaves RUNNING depends on who was RUNNING before it. `Inv` adds the three: `Table` (the
list is the set of live processes, without repetition, and a suspended process was READY or SLEEPING), `OnlyCurrentRuns` and `NoneRuns`,
and `ScanStart`. The proof has a lemma for each helper (charging ticks, demoting, the scan, the selection, removing an
element), one for each way a request ends (`ReturnKeepsInv`, `SwitchKeepsInv`, `DispatchEstablishesInv`), and one for each action
built from them. The hardest is `TerminateKeepsInv`: that the entry left behind leads to a process that is still on the list.

*Ageing.* What a context switch does to a process that takes no part in it is always the same, however many
steps (demotion, charge, selection) it consists of: it goes on as it was, takes its turn among the active, or its timer runs out.
`TimerProofs` calls this relation between two descriptors `Aged`, shows that it is reflexive and transitive and that each step
is an instance, and classifies what any step of the kernel does to any process (`Fates`): it ages, is suspended, resumed, or makes a
call of its own. The properties of sleepers and suspended tasks follow by cases, and the other proof modules
use `Fates` for all the kernel's own steps at once.

*Priorities.* The circular scan visits every process of the list, wherever it starts (`ScanReachesAll`). When no starving process is chosen,
the last index that improves on all before it is: had a READY process a better priority, the first of the best of them would have
improved later (`SelectedIsBest`, with `LeastElement`). When a starving one is chosen, its count reached the limit after the ticks of this very dispatch were
added, and wrapping only makes a count smaller, so before the step it was at most those ticks short (`ChargeTicksStarves`). `StepIsByPriority` goes through the actions.

*When nobody is found.* Conversely, if the selection is empty, no READY task has a priority in range and none is starving (`SomebodyIsSelected`): the first of
those in range in the scan improves on everybody before it, some index is the last to improve, and among the starving the first of those with the
least count keeps its place. The kernel then idles if it found nobody READY, and dereferences NULL after the idle loop otherwise. `StepKeepsStacks` carries along that every task
has a stack when memory suffices, so that this and the empty list are the only ways to stop.

*Sleeps.* The inductive invariant of the observer's clock (`ClockInv`) is that timer and pending ticks together are behind the clock
by no more than a batch: by what was pending when the task went to sleep. A step either leaves the pending ticks pending or charges them all
(`Slumber`), and neither changes that difference; only a call of `Task_Sleep` sets it anew. That the differences of `Kernel_Tick_Handler` do
not wrap is `TimeLeftIsDifference`, where the bounds on sleeps and batches are needed; that the pending ticks stay within a batch comes from `TicksAreCharged`.
That no tick is lost or charged twice (`NoTickIsLost`) is the same classification (`ClockStepIsSlumber`) read step by step: `SlumberCharges`, and `SleepChargesOthers` for
the sleepers that a call of `Task_Sleep` finds.

*Mutexes.* `MutexInv` adds that each object is consistent: an owner exactly while the lock count is positive, nobody in the queue of a free mutex,
and the two queues of the same length. `MutexWaitInv` is what the code relies on without saying it: nobody that waits has a timer
(`Timely`), the tasks in WAIT_MUTEX are matched one to one with the places in the queues, and an owner is not in its own queue. `StepIsLockStep` maps
each path of lock and unlock to a step of `FifoLock`, everything else to a stutter.

That lent priorities are returned is not inductive either: a release puts back what the mutex remembers of its new owner, whatever that is. `PriInv`
adds that a mutex remembers the own priorities of its owner and of everybody in its queue (`Remembers`), and that whoever uses no mutex runs
at its own. A task takes a mutex or enters its queue with the priority it has at that moment, which is its own only if it does not use another mutex: that
is where `OneAtATime` is needed, and only there. Destroyed mutexes count, as they keep their owner.

*Semaphores.* What the waiters of a queue need together is a sum over the queue (`Need`), defined by a recursive function. That such a
function exists, and that its values are the sums, is shown first, from the minimum principle for the natural numbers (`LeastElement` of `KernelProofs`,
`PartialSumsExist`, `NeedFacts`); the induction theorems of the library cannot be used. `SemaphoreFates` lists what a step can do to the
objects: a call gets counts, joins a queue, gives to nobody or gives to the first `k` waiters, and any other step changes none of them.
`WaitInv` matches the tasks in WAIT_SEMAPHORE one to one with the places in the queues (`Match`); since the head of a queue therefore waits,
nobody but itself could change its amount, and it does not run. That is what keeps the comparison of `CountsAreNotIdle` true between two
calls (`HeadFacts`, `StaysShort`); a give restores it because `Serves` stops only at a waiter for whom there is not enough (`ServedStaysShort`).

For the refinement the sum of the abstract module must be shown to be that of the concrete one first: both are recursive functions, over different
sequences (`WantedIsNeed`). `StepIsCountingStep` then takes the fates one by one. A give that serves `k` waiters is a *put* with the same `k`: what was there after the give
is what is left and what the first `k` wanted, and the next one wants more because the loop stopped there. A step of another component leaves the
line alone because whoever is in it waits, and makes no call that could change its amount.

*Events and groups.* `EventsInv` adds that each event is consistent (`EventObjects`), and that whoever waits for bits waits for bits of a group that was
created, that are not all there, and has a timer only if it asked for one (`GroupWaits`). `EventsFates` classifies the steps as `Fates` does
for the kernel. `OwnInv` ties WAIT_EVENT to the ownership of exactly one event for the tasks that give no time limits; with it,
`StepIsOneShotStep` maps each step to one of `OneShotEvents` or a stutter.

*Mailboxes.* The proofs about the recursion come first: that `Serve` exists as its definition says (`ServeFacts`), and that more depth than there are
waiters changes nothing (`EnoughDepth`). What holds at every depth is shown by taking the least depth at which it would fail. `Continues` is what any number of calls, nested in any
way, do to an exchange: types and capacity are kept, and tasks only go from WAIT_MAILBOX to READY. That gives the type invariant without any assumption.
`WaitInv` adds that a task in a queue is in the call that put it there (`BoxWaits`), that senders wait only at a full mailbox and receivers at an empty one. With it
the recursion turns out to be shallow: a send finishes at most one receive (`StoreEffect`), a receive finishes one send, or, while memory
is short, several whose messages are lost (`SendersMoveUp`, `FetchEffect`). `StepIsChannelStep` maps these to `Put` and `Take` of the mailbox called, and to `Elsewhere`
or a stutter of the others. `Outcome` classifies the steps, as `Fates` does for the kernel.

*Clients.* `ClientInv` puts the invariants of semaphores (`SemaphoreInv`) and mutexes (`MutexesOK`) side by side: a call on one sort of object is a step that
ages, moves or wakes tasks for the other. It adds the balance itself (`Balanced`) and the fact that makes it inductive, that whoever waits for counts
holds none (`WaitersHoldNothing`): otherwise a grant would overwrite what the task has. `held` is a function, so the balance is about sums over
a function; `TotalIsSum` gives the partial sums, `OneShareChanged` what one client's get does to them, and `ServedTotal` what a give does that serves
any number of waiters at once, with the sum that the kernel takes from the count (`Need`) on the other side. That a binary semaphore is never
cut off at 1, which would lose a count, follows from the balance: nobody has more than there was (`ShareBounded`, `GivenIsSum`).
The timers do not matter: a waiter whose timer has run out has been granted nothing, and the serving loop stops at its place in the queue, unless it
waits again.

For the waits, `GoOnInv` adds what each component assures by itself (`SidesWait`: `MutexWaitInv`, `WaitInv`, `NoDebt` and
`CountsAreNotIdle`), carried over to the composition by showing that a call on the mutexes is a step of the kernel for the semaphores and the other way
round (`MutexKeepsSides`, `SemaphoreKeepsSides`), and `HelpersGoOn`: an owner goes on, a holder of counts goes on or waits for the mutex, and nobody wants more
than there ever was. A step of the kernel leaves who goes on going on: charging a tick makes a sleeper READY, a dispatch only swaps READY and RUNNING
(`StaysOn`, `SchedulerLetsGoOn`), and only tasks that hold nothing are suspended or end. The calls follow the fates of `SemaphoreFates`
and of `LockFates` and `UnlockFates`: whoever becomes the owner, or is granted counts, becomes READY by that same step. `WaitsCanEnd` then follows for the mutex from the
place in its queue and from `NoLostHandOver`. For the counts the balance is needed: if somebody waits and nobody held a count, all of
them would be in the semaphore, enough for the head of the queue, which `CountsAreNotIdle` excludes.

*Only model-checked:* liveness (`EverybodyRunsAgain`, `ReadyTasksRun`), as fairness is beyond the prover. Every other property of a passing run
is proved; section 5 says under which assumptions.

## 5. Limits of what is claimed

- Where fresh timers are assumed to be 0 (`FreshTimeouts`): `request_timeout` of a new PD is not initialised, and what `malloc` left
  there can end a wait that has no time limit.
- Where nobody suspends itself: such a task goes on in the SUSPENDED state, and may set its timer, wait or sleep from
  there; a later resume restores the state it was suspended in.
- `OwnersWait` and `ImplementsOneShotEvents` except the tasks that give time limits to `Event_Group_Wait_Bits`: `event_stale` shows why.
  `WaitersWaitForBits` is claimed for tasks that own no event: one that a left-over timer has thrown out of `Event_Wait` still owns the event,
  and its signal would end any later wait.
- `ImplementsOneShotEvents` is proved for limited counts of missed signals (`event.h:8` has 1). With 0, for unlimited, the count wraps to 0
  after 2^16 signals, and the next wait misses them all.
- `PriorityRestored` is claimed for tasks that have or wait for one mutex at a time (`OneAtATime`). With two, released in the order in which they were locked, a lent priority is kept
  (`owner_orig_priority` may itself be a lent one, `mutex.c:158`).
- `EverybodyRunsAgain` is claimed without starvation prevention, for equal priorities and for amounts of one. `Kernel_Semaphore_Get` takes
  counts without looking at the queue, so a waiter that wants two can be overtaken for ever by tasks that want one; section 6 has the rest.
- `SleepWithinABatch` is claimed for preemptive builds and sleeps shorter than half the range of TICK: a longer one
  becomes negative at `kernel.c:133` and ends at once. Without preemption a task that makes no call lets `Tick_Count` grow without bound.
- `Task_Sleep(0)` sets a timer that never ends, and is left out of `SleepTicks`.
- Builds without preemption are covered by the proofs; the runs all have `PREEMPTIVE_CSWITCH` on, as `os.h` does.
- What is proved of semaphores is claimed for amounts below 2^15: they are `unsigned int` in `os.c` and `int` in the kernel.
- `WaitsCanEnd` is claimed for amounts that no semaphore is created too small for. A task that asks for more waits for ever, and so does everybody behind it
  in the queue once it is at the head: the kernel serves in order and does not look at the amount of a request until then.
- `CountingSemaphore` does not promise that a waiter is served before somebody who comes later and need not wait: the kernel does not either.
- `CallersWait`, `NobodyWaitsInVain` and `ImplementsMailChannel` are claimed for calls without a time limit; `mailbox_timeout` shows what
  happens with one. A mailbox of capacity 0 is left out: `Mailbox_Create` accepts it, and senders and receivers then wait for each
  other for ever.
- `MailChannel` lets a message on offer get lost when memory runs out (`Lossy`), as the code does; a sender that does not wait is told.
- A task that terminates while it owns a mutex stays its owner, and the waiters of a destroyed object wait for ever. The
  models contain both, and no property says otherwise.

## 6. Where the code differs from its documents

Shown by a run that TLC refutes (the counterexample is the scenario):

- `sleep_short`. `os.c:124` says "AT LEAST t ticks"; ticks counted before the task went to sleep are taken off its sleep.
- `starve_two`. With starvation prevention on, the first READY task of the scan is never examined for
  starvation, and a busy task of higher priority keeps the only other task from ever running.
- `mutex_inherit`. `src/readme.md:10` promises priority inheritance; the owner of a mutex keeps its own priority while a
  more urgent task waits, and the waiters lend their priorities to each other.
- `mailbox_timeout`. `mailbox.c:217` says "If anyone is currently waiting for the recv queue, wake them up"; a task whose call has timed out
  stays on the queue, and when it is found there nobody behind it is served (`mailbox.c:237`, `mailbox.c:355`).
- `event_stale`. `event.h:15` says of the owner of an event "Who's currently waiting for this event this?"; the timer that an earlier
  `Event_Group_Wait_Bits` has left running ends a wait in `Event_Wait`, which has no time limit: the task goes on without the signal, and remains the owner.

Seen while modelling, contained in the models, and not the subject of a run:

- `kernel.c:190` says that the task with the highest starving count is recorded; `kernel.c:194` keeps the lowest.
- A descriptor's `request_timeout` is not initialised; what `malloc` left there can wake a task out of `Mutex_Lock` without the mutex
  (`mutex.c:204` prints that this has happened).
- A new event's count is not initialised (`event.c:76`): the first `Event_Wait` may return at once.
- A signal to an event whose owner has terminated writes through NULL (`event.c:168`).
- Waiting for bits of a group that does not exist returns at once and without an error (`event_group.c:196`).
- `Event_Group_Get_Bits` does not pass on the id it is given, so the kernel looks for the group an earlier call of the task has named.
- A task served from the wait queue of a mailbox is not given a result: it reads the `request_retval` of an earlier call (`mailbox.c:249`).
- Of four busy tasks with equal priorities one may never run when starvation prevention is on (a consequence of `kernel.c:194`).
- A task that suspends itself goes on in the SUSPENDED state (`task.c:129`), unlike the note at `kernel.c:320`.
- A creation whose stack cannot be allocated leaves a READY task on the list (`task.c:64`), although `Task_Create` returns 0 or
  what the failed call returned.
- Destroying an unknown mutex, semaphore, event group or mailbox frees the last one and reports success (`mutex.c:114`, `os.c:241`,
  `event_group.c:87`, `mailbox.c:116`).
- `Semaphore_Give` goes on after the last waiter and may raise an error about a NULL head (`semaphore.c:149`).
- A priority above `LOWEST_PRIORITY` is accepted. Such a task is selected only when starvation prevention is on and it starves; otherwise never, and
  when only tasks of this kind are READY the dispatcher dereferences NULL (`NullOnlyWithoutTasks` says that this and the end of the last task are the only ways there).
- The first task to run is not the one the first dispatch selects (`kernel.c:316`): the main loop dispatches again at once.

## 7. What is not modelled

- *API return values*: `os.c` reads the global `err` and the caller's `request_retval` after the kernel is left, with interrupts on: after a
  preemption `err` is that of somebody else's call. This includes the result of `Event_Group_Get_Bits` and of the destructions.
- *Hardware*: `cswitch.s`, `cpuarch.c` and `hw.c` are why a kernel call is atomic; their correctness is assumed.
- *kmalloc* is compiled and called by nobody, so no behaviour of the kernel depends on it, and no test says how it is meant to be used.
  A reader who wants to use it should know that the comma expression at `kmalloc.c:162` makes `previous_piece` the current one, and
  that `krealloc` copies from the new block to the old one (`kmalloc.c:452`).
- *UART and error strings* only print. `ptrlist_destroy` and `print_*` are not called. The test programs are clients; the priorities and the
  order of Test 9 are used in the runs of `Mutex`.

## 8. What is left

1. A model of the return path of `os.c`, with a step between the kernel's exit and the read of `err`.
2. What a task reads there: the results of mailbox calls, of `Event_Group_Get_Bits` and of the destructions.
