------------------------------ MODULE Semaphore ------------------------------
(***************************************************************************)
(* The semaphores of ezRTOS on top of the scheduler:                       *)
(* kernel/semaphore/semaphore.c, the wait queues of kernel/others/Queue.c, *)
(* and the semaphore section of os.c.  A task that asks for more counts    *)
(* than there are waits in a queue; whoever gives counts serves the queue  *)
(* from its head, and reads what each waiter asked for from the arguments  *)
(* of the last call that waiter has made.                                  *)
(***************************************************************************)
EXTENDS Kernel

CONSTANTS
    MAXSEMAPHORE,     \* semaphore.h:8
    MaxSemaphoreID,   \* bound: semaphores created in one behaviour
    InitialCounts,    \* arguments of Semaphore_Create
    Binary,           \* arguments of Semaphore_Create: whether binary
    Amounts,          \* arguments of Semaphore_Get and Semaphore_Give
    MaxCount,         \* bound: a semaphore is given no more counts than this
    StackSize,        \* argument of Task_Create
    LowMemoryWaits,   \* TRUE when the byte at NULL->state may be WAIT_SEMAPHORE
    DestroyArgs       \* arguments of Semaphore_Destroy

ASSUME SemaphoreAssumption ==
    /\ MAXSEMAPHORE \in Nat \ {0}
    /\ MaxSemaphoreID \in Nat
    /\ InitialCounts \subseteq Int
    /\ Binary \subseteq BOOLEAN
    /\ Amounts \subseteq Int
    /\ MaxCount \in Nat
    /\ StackSize \in Nat
    /\ LowMemoryWaits \in BOOLEAN
    /\ DestroyArgs \subseteq Nat

VARIABLES
    SemaphoreList,    \* the ids on the semaphore list, in order
    semaphore,        \* the semaphore objects, in order of id
    amount            \* amount[p]: request_args[1] of task p

semVars == <<SemaphoreList, semaphore, amount>>
allVars == <<vars, semVars>>

Last_SemaphoreID == Len(semaphore)
Semaphore_Count  == Len(SemaphoreList)

SemaphoreType == [count: Int, is_binary: BOOLEAN, wait_queue: Seq(Nat)]

Exists(s) == s \in ToSet(SemaphoreList)

-----------------------------------------------------------------------------
\* Mutant: a binary semaphore starts with any count.  (SemaphoreTypeOK)
NotClamped(initial_count, is_binary) ==
    [count |-> initial_count, is_binary |-> is_binary, wait_queue |-> <<>>]

\* A binary semaphore starts with 0 or 1.
NewSemaphore(initial_count, is_binary) ==
    [count |-> IF ~is_binary THEN initial_count ELSE IF initial_count >= 1 THEN 1 ELSE 0,
     is_binary |-> is_binary, wait_queue |-> <<>>]

\* noErr is what err holds when nothing fails.
Kernel_Create_Semaphore_Direct(initial_count, is_binary, noErr) ==
    \/ /\ Semaphore_Count >= MAXSEMAPHORE
       /\ Return("MAX_OBJECT_ERR", PD)
       /\ UNCHANGED <<ProcessList, SemaphoreList, semaphore>>
    \/ /\ Semaphore_Count < MAXSEMAPHORE
       /\ WriteThroughNull
       /\ UNCHANGED <<SemaphoreList, semaphore>>
    \/ /\ Semaphore_Count < MAXSEMAPHORE
       /\ Last_SemaphoreID < MaxSemaphoreID
       /\ Return(noErr, PD)
       /\ semaphore' = Append(semaphore, NewSemaphore(initial_count, is_binary))
       /\ SemaphoreList' = Append(SemaphoreList, Last_SemaphoreID + 1)
       /\ UNCHANGED ProcessList

\* The caller's second argument becomes n.
Argument(n) == amount' = [amount EXCEPT ![Current_Process] = n]

Semaphore_Create(initial_count, is_binary) ==
    \/ /\ mode = "boot"
       /\ Kernel_Create_Semaphore_Direct(initial_count, is_binary, err)
       /\ UNCHANGED amount
    \/ /\ Running
       /\ Argument(IF is_binary THEN 1 ELSE 0)
       /\ Kernel_Create_Semaphore_Direct(initial_count, is_binary, "NO_ERR")

\* The waiters of a destroyed semaphore are left as they are.  When none has
\* the id, the last one is freed but stays on the list, whose tail is then
\* linked to what is found at address 2.
Semaphore_Destroy(s) ==
    /\ Running
    /\ \/ /\ SemaphoreList = <<>>
          /\ Return("OBJECT_NOT_FOUND_ERR", PD)
          /\ UNCHANGED semVars
       \/ /\ Exists(s)
          /\ Return("NO_ERR", PD)
          /\ \E i \in DOMAIN SemaphoreList :
                SemaphoreList[i] = s /\ SemaphoreList' = RemoveAt(SemaphoreList, i)
          /\ UNCHANGED <<semaphore, amount>>
       \/ /\ SemaphoreList # <<>> /\ ~Exists(s)
          /\ err' = "NO_ERR"
          /\ mode' = "halted"
          /\ UNCHANGED <<PD, sched, semVars>>
    /\ UNCHANGED ProcessList

NotFound(s) ==
    /\ ~Exists(s)
    /\ Return("OBJECT_NOT_FOUND_ERR", PD)
    /\ UNCHANGED <<ProcessList, SemaphoreList, semaphore>>

-----------------------------------------------------------------------------
\* Mutant: any count is enough.  (NeverOverdrawn)
HasAny(s, n) == semaphore[s].count > 0

\* Mutant: the last count is never given away.  (ImplementsCountingSemaphore)
LastIsKept(s, n) == semaphore[s].count - n > 0

\* Are there enough counts for a request of n?
HasEnough(s, n) == semaphore[s].count - n >= 0

\* What is asked of a binary semaphore is 0 or 1.  The amount is an unsigned int
\* for the caller and an int for the kernel: a large one is negative.
Asked(s, n) == CASE semaphore[s].is_binary /\ n > 1 -> 1
                 [] semaphore[s].is_binary /\ n < 0 -> 0
                 [] OTHER -> n

Semaphore_Get(s, n) ==
    /\ Running
    /\ \/ NotFound(s) /\ Argument(n)
       \/ /\ Exists(s)
          /\ Argument(Asked(s, n))
          /\ \/ /\ HasEnough(s, Asked(s, n))
                /\ semaphore' = [semaphore EXCEPT ![s].count = @ - Asked(s, n)]
                /\ Return("NO_ERR", PD)
             \/ /\ ~HasEnough(s, Asked(s, n))
                /\ semaphore' = [semaphore EXCEPT ![s].wait_queue = Append(@, Current_Process)]
                /\ Switch("NO_ERR", [PD EXCEPT ![Current_Process].state = "WAIT_SEMAPHORE"])
          /\ UNCHANGED <<ProcessList, SemaphoreList>>
       \/ /\ Exists(s)                        \* no room for the queue element
          /\ ~HasEnough(s, Asked(s, n))
          /\ Argument(Asked(s, n))
          /\ WriteThroughNull
          /\ UNCHANGED <<SemaphoreList, semaphore>>

-----------------------------------------------------------------------------
\* What the first k waiters of queue q ask for together.
Need(q, k) ==
    LET need[j \in 0..Len(q)] == IF j = 0 THEN 0 ELSE need[j - 1] + amount'[q[j]]
    IN need[k]

\* The k-th of them still waits when its turn comes.
StillWaits(q, k) ==
    PD[q[k]].state = "WAIT_SEMAPHORE" /\ \A j \in 1..(k - 1) : q[j] # q[k]

\* Mutant: the count is not reduced by what a waiter gets.  (UnitsAreConserved)
CountKept(count, q, k) == count

\* What is left of count when the first k waiters of q are served.
CountAfter(count, q, k) == count - Need(q, k)

\* Mutant: one waiter is served and the others are left.  (CountsAreNotIdle)
ServesOne(count, q, k) ==
    k = IF Need(q, 1) <= count /\ StillWaits(q, 1) THEN 1 ELSE 0

\* The loop of Kernel_Semaphore_Get_From_Queue serves the first k waiters: each
\* of them can be served when its turn comes, and the next one cannot.
Serves(count, q, k) ==
    /\ \A j \in 1..k : Need(q, j) <= count /\ StillWaits(q, j)
    /\ k < Len(q) => Need(q, k + 1) > count \/ ~StillWaits(q, k + 1)

\* How the loop ends.  When it has served every waiter it goes on with a NULL
\* head, and reads an amount and a state from the first bytes of memory, where
\* the AVR has its registers.
Outcomes(count, q, k) ==
    IF k = Len(q) THEN {"NO_ERR", "UNPROCESSABLE_TASK_STATE_ERR"} \cup
                       (IF LowMemoryWaits THEN {"halted"} ELSE {})
    ELSE IF Need(q, k + 1) > count THEN {"NO_ERR"} ELSE {"UNPROCESSABLE_TASK_STATE_ERR"}

Kernel_Semaphore_Get_From_Queue(s, count) ==
    LET q == semaphore[s].wait_queue
    IN \E k \in 0..Len(q) : \E outcome \in Outcomes(count, q, k) :
          /\ Serves(count, q, k)
          /\ IF outcome = "halted"
             THEN mode' = "halted" /\ UNCHANGED <<PD, sched, err, semaphore>>
             ELSE /\ semaphore' = [semaphore EXCEPT ![s].wait_queue = SubSeq(q, k + 1, Len(q)),
                                                    ![s].count = CountAfter(count, q, k)]
                  /\ Return(outcome,
                            [p \in DOMAIN PD |->
                                IF \E j \in 1..k : q[j] = p
                                THEN [PD[p] EXCEPT !.state = "READY"] ELSE PD[p]])

\* A binary semaphore does not exceed 1.
Given(s, n) ==
    LET count == semaphore[s].count + n
    IN IF semaphore[s].is_binary /\ count > 1 THEN 1 ELSE count

\* Mutant: a count that becomes available is not offered.  (EverybodyRunsAgain)
NobodyAsked(s, n) == FALSE

\* There is something to give and somebody may want it.
MayServe(s, n) == Given(s, n) > 0 /\ semaphore[s].wait_queue # <<>>

Semaphore_Give(s, n) ==
    /\ Running
    /\ Argument(n)
    /\ \/ NotFound(s)
       \/ /\ Exists(s)
          /\ semaphore[s].count + n <= MaxCount
          /\ \/ MayServe(s, n) /\ Kernel_Semaphore_Get_From_Queue(s, Given(s, n))
             \/ /\ ~MayServe(s, n)
                /\ semaphore' = [semaphore EXCEPT ![s].count = Given(s, n)]
                /\ Return("NO_ERR", PD)
          /\ UNCHANGED <<ProcessList, SemaphoreList>>

-----------------------------------------------------------------------------
SemaphoreInit ==
    Init /\ SemaphoreList = <<>> /\ semaphore = <<>> /\ amount = [p \in 0..MaxPid |-> 0]

SemaphoreCall ==
    \/ \E c \in InitialCounts, b \in Binary : Semaphore_Create(c, b)
    \/ \E s \in DestroyArgs : Semaphore_Destroy(s)
    \/ \E s \in 0..MaxSemaphoreID, n \in Amounts : Semaphore_Get(s, n) \/ Semaphore_Give(s, n)

\* The services of Kernel; of these only Task_Create has a second argument.
KernelStep ==
    \/ Task_Create /\ Argument(StackSize)
    \/ /\ \/ CreateAtBoot \/ CallTooEarly \/ OS_Start
          \/ \E p \in 0..MaxPid : Task_Suspend(p) \/ Task_Resume(p)
          \/ \E t \in SleepTicks : Task_Sleep(t)
          \/ Task_Yield \/ Task_Terminate
          \/ Kernel_Tick_ISR \/ IdlePoll \/ IdleDispatch
       /\ UNCHANGED amount

SemaphoreNext == SemaphoreCall \/ (KernelStep /\ UNCHANGED <<SemaphoreList, semaphore>>)

SemaphoreSpec == SemaphoreInit /\ [][SemaphoreNext]_allVars

-----------------------------------------------------------------------------
(* Properties.                                                             *)

\* Types, and the range of a binary semaphore.
SemaphoreTypeOK ==
    /\ TypeOK
    /\ SemaphoreList \in Seq(DOMAIN semaphore)
    /\ semaphore \in Seq(SemaphoreType)
    /\ \A s \in DOMAIN semaphore : semaphore[s].is_binary => semaphore[s].count <= 1
    /\ amount \in [0..MaxPid -> Int]

Queued(p) == {s \in DOMAIN semaphore : p \in ToSet(semaphore[s].wait_queue)}

\* Semaphore_Get returns to its caller only with the counts it asked for: a
\* task is in WAIT_SEMAPHORE exactly as long as it is on the queue of one
\* semaphore, once ("Head of the wait queue isn't waiting for a semaphore" at
\* semaphore.c:154 is never printed of a task).  This includes the queues of
\* destroyed semaphores, where a task waits for ever.
GettersWait ==
    /\ \A p \in DOMAIN PD :
          /\ (PD[p].state = "WAIT_SEMAPHORE") = (Queued(p) # {})
          /\ \A s, t \in Queued(p) : s = t
    /\ \A s \in DOMAIN semaphore : \A i, j \in DOMAIN semaphore[s].wait_queue :
          semaphore[s].wait_queue[i] = semaphore[s].wait_queue[j] => i = j

\* No wakeup is lost: counts are not kept from the task that has waited longest
\* while they are enough for it.
CountsAreNotIdle ==
    \A s \in ToSet(SemaphoreList) : semaphore[s].wait_queue # <<>> =>
        semaphore[s].count < amount[Head(semaphore[s].wait_queue)]

\* Each semaphore with what its waiters want; before it is created there is nothing
\* to take.
Line(s) ==
    LET q == semaphore[s].wait_queue
    IN [i \in DOMAIN q |-> [task |-> q[i], wants |-> amount[q[i]]]]

Counting(s) == INSTANCE CountingSemaphore WITH
    Task    <- 1..MaxPid,
    made    <- s \in DOMAIN semaphore,
    binary  <- s \in DOMAIN semaphore /\ semaphore[s].is_binary,
    count   <- IF s \in DOMAIN semaphore THEN semaphore[s].count ELSE 0,
    waiters <- IF s \in DOMAIN semaphore THEN Line(s) ELSE <<>>

\* The semaphores of the code implement the abstract one: whatever the serving
\* loop does with the head, the next head and the counts left (semaphore.c:149),
\* counts go to the waiters in the order in which they asked, as far as they reach.
ImplementsCountingSemaphore ==
    /\ \A s \in 1..MaxSemaphoreID : Counting(s)!CountingInit
    /\ [][\A s \in 1..MaxSemaphoreID :
             [Counting(s)!CountingNext]_(Counting(s)!countingVars)]_allVars

\* A semaphore that starts with no debt never has one, whatever becomes of the
\* tasks that wait for it.
NeverOverdrawn ==
    (\A c \in InitialCounts \cup Amounts : c >= 0) =>
        \A s \in DOMAIN semaphore : semaphore[s].count >= 0

=============================================================================
