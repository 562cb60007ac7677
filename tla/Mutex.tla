-------------------------------- MODULE Mutex -------------------------------
(***************************************************************************)
(* The mutexes of ezRTOS on top of the scheduler: kernel/mutex/mutex.c, the*)
(* queues of kernel/others/Queue.c as it uses them, and the mutex section  *)
(* of os.c.  A locked mutex is passed from its owner to the head of its    *)
(* wait queue; priorities are lent to the tasks that wait and lifted when  *)
(* a waiter becomes the owner.                                             *)
(***************************************************************************)
EXTENDS Kernel

CONSTANTS
    MAXMUTEX,           \* mutex.h:8
    MaxMutexID,         \* bound: mutexes created in one behaviour
    MaxLock,            \* bound: depth of recursive locking
    DestroyMutexArgs    \* arguments of Mutex_Destroy

ASSUME MutexAssumption ==
    /\ MAXMUTEX \in Nat \ {0}
    /\ MaxMutexID \in Nat
    /\ MaxLock \in Nat \ {0}
    /\ DestroyMutexArgs \subseteq Nat

VARIABLES
    MutexList,       \* the ids on the mutex list, in order
    mutex            \* the mutex objects, in order of id

mutexVars      == <<MutexList, mutex>>
varsAndMutexes == <<vars, mutexVars>>

Last_MutexID == Len(mutex)
Mutex_Count  == Len(MutexList)

MutexType == [owner: Nat, lock_count: Nat, owner_orig_priority: Nat,
              highest_priority: Nat, wait_queue: Seq(Nat), orig_priority: Seq(Nat)]

-----------------------------------------------------------------------------
\* Mutant: the element goes to the front.  (ImplementsFifoLock)
Push(q, x) == <<x>> \o q

\* The wait queues, kernel/others/Queue.c.
Enqueue(q, x) == Append(q, x)
Dequeue(q)    == Tail(q)

\* owner_orig_priority is not initialised: it is written before it is read.
NewMutex == [owner |-> 0, lock_count |-> 0, owner_orig_priority |-> 0,
             highest_priority |-> LOWEST_PRIORITY, wait_queue |-> <<>>, orig_priority |-> <<>>]

\* noErr is what err holds when nothing fails.
Kernel_Create_Mutex(noErr) ==
    \/ /\ Mutex_Count >= MAXMUTEX
       /\ Return("MAX_OBJECT_ERR", PD)
       /\ UNCHANGED <<ProcessList, mutexVars>>
    \/ /\ Mutex_Count < MAXMUTEX
       /\ WriteThroughNull
       /\ UNCHANGED mutexVars
    \/ /\ Mutex_Count < MAXMUTEX
       /\ Last_MutexID < MaxMutexID
       /\ Return(noErr, PD)
       /\ mutex' = Append(mutex, NewMutex)
       /\ MutexList' = Append(MutexList, Last_MutexID + 1)
       /\ UNCHANGED ProcessList

Mutex_Create ==
    \/ mode = "boot" /\ Kernel_Create_Mutex(err)
    \/ Running /\ Kernel_Create_Mutex("NO_ERR")

MutexExists(m) == m \in ToSet(MutexList)

\* findMutexByMutexID fails.  With an empty list it compares the id with the
\* word at address 0 and, should they match, returns NULL without an error.
MutexNotFound(m) ==
    /\ ~MutexExists(m)
    /\ \E error \in (CASE m = 0 -> {"INVALID_ARG_ERR"}
                       [] m # 0 /\ MutexList = <<>> -> {"OBJECT_NOT_FOUND_ERR", "NO_ERR"}
                       [] OTHER -> {"OBJECT_NOT_FOUND_ERR"}) : Return(error, PD)
    /\ UNCHANGED <<ProcessList, mutexVars>>

\* The waiters of a destroyed mutex are left as they are.  When no mutex has
\* the id, the search ends with the last one: it is freed but stays on the
\* list, whose tail is then linked to what is found at address 2.
Mutex_Destroy(m) ==
    /\ Running
    /\ \/ MutexList = <<>> /\ Return("OBJECT_NOT_FOUND_ERR", PD) /\ UNCHANGED mutexVars
       \/ /\ Return("NO_ERR", PD)
          /\ \E i \in DOMAIN MutexList :
                MutexList[i] = m /\ MutexList' = RemoveAt(MutexList, i)
          /\ UNCHANGED mutex
       \/ /\ MutexList # <<>> /\ ~MutexExists(m)
          /\ err' = "NO_ERR"
          /\ mode' = "halted"
          /\ UNCHANGED <<PD, sched, mutexVars>>
    /\ UNCHANGED ProcessList

-----------------------------------------------------------------------------
\* The mutex is free.
Take(m) ==
    /\ mutex[m].owner = 0
    /\ mutex' = [mutex EXCEPT ![m].owner = Current_Process,
                              ![m].owner_orig_priority = PD[Current_Process].pri,
                              ![m].highest_priority = PD[Current_Process].pri,
                              ![m].lock_count = @ + 1]
    /\ Return("NO_ERR", PD)

\* The caller has it already.
TakeAgain(m) ==
    /\ mutex[m].owner = Current_Process
    /\ mutex[m].lock_count < MaxLock
    /\ mutex' = [mutex EXCEPT ![m].lock_count = @ + 1]
    /\ Return("NO_ERR", PD)

\* Another task has it: the caller waits, and the more urgent of the caller
\* and the mutex lends its priority to the other.  The owner gets nothing.
Wait(m) ==
    LET pri == PD[Current_Process].pri
        top == mutex[m].highest_priority
    IN /\ mutex[m].owner \notin {0, Current_Process}
       /\ mutex' = [mutex EXCEPT ![m].wait_queue = Enqueue(@, Current_Process),
                                 ![m].orig_priority = Enqueue(@, pri),
                                 ![m].highest_priority = IF pri < top THEN pri ELSE top]
       /\ Switch("NO_ERR", [PD EXCEPT ![Current_Process].pri = IF top < pri THEN top ELSE pri,
                                      ![Current_Process].state = "WAIT_MUTEX"])

Mutex_Lock(m) ==
    /\ Running
    /\ \/ MutexNotFound(m)
       \/ /\ MutexExists(m)
          /\ Take(m) \/ TakeAgain(m) \/ Wait(m)
          /\ UNCHANGED <<ProcessList, MutexList>>
       \/ /\ MutexExists(m)                   \* no room for the queue element
          /\ mutex[m].owner \notin {0, Current_Process}
          /\ WriteThroughNull
          /\ UNCHANGED mutexVars

-----------------------------------------------------------------------------
\* Mutant: every unlock counts as one of several.  (MutexTypeOK)
ReleaseAlways(m) ==
    /\ mutex' = [mutex EXCEPT ![m].lock_count = @ - 1]
    /\ Return("NO_ERR", PD)

\* One of several recursive locks is undone.
ReleaseOnce(m) ==
    /\ mutex[m].lock_count > 1
    /\ mutex' = [mutex EXCEPT ![m].lock_count = @ - 1]
    /\ Return("NO_ERR", PD)

\* Mutant: a priority that was lent is kept.  (PriorityRestored)
NotRestored(m) == PD

\* The process table once the caller has its own priority back.
Restored(m) == [PD EXCEPT ![Current_Process].pri = mutex[m].owner_orig_priority]

\* Mutant: the wait queue is not looked at.  (NoLostHandOver, WaitsCanEnd)
ReleaseAnyway(m) ==
    /\ mutex[m].lock_count <= 1
    /\ mutex' = [mutex EXCEPT ![m].lock_count = 0, ![m].owner = 0]
    /\ Return("NO_ERR", Restored(m))

ReleaseToNobody(m) ==
    /\ mutex[m].lock_count <= 1
    /\ mutex[m].wait_queue = <<>>
    /\ mutex' = [mutex EXCEPT ![m].lock_count = 0, ![m].owner = 0]
    /\ Return("NO_ERR", Restored(m))

\* Kernel_Lock_Mutex_From_Queue.
ReleaseToNext(m) ==
    LET next == Head(mutex[m].wait_queue)
    IN /\ mutex[m].lock_count <= 1
       /\ mutex[m].wait_queue # <<>>
       /\ mutex' = [mutex EXCEPT ![m].owner = next,
                                 ![m].owner_orig_priority = Head(mutex[m].orig_priority),
                                 ![m].lock_count = 1,
                                 ![m].wait_queue = Dequeue(@),
                                 ![m].orig_priority = Dequeue(@)]
       /\ \/ /\ PD[next].state # "WAIT_MUTEX"
             /\ Return("NO_ERR", Restored(m))
          \/ /\ PD[next].state = "WAIT_MUTEX"
             /\ Switch("NO_ERR", [Restored(m) EXCEPT ![next].state = "READY",
                                                     ![next].pri = mutex[m].highest_priority,
                                                     ![Current_Process].state = "READY"])

Mutex_Unlock(m) ==
    /\ Running
    /\ \/ MutexNotFound(m)
       \/ /\ MutexExists(m)
          /\ mutex[m].owner # Current_Process
          /\ Return("OBJECT_NOT_FOUND_ERR", PD)
          /\ UNCHANGED <<ProcessList, mutexVars>>
       \/ /\ MutexExists(m)
          /\ mutex[m].owner = Current_Process
          /\ ReleaseOnce(m) \/ ReleaseToNobody(m) \/ ReleaseToNext(m)
          /\ UNCHANGED <<ProcessList, MutexList>>

-----------------------------------------------------------------------------
MutexInit == Init /\ MutexList = <<>> /\ mutex = <<>>

MutexCall ==
    \/ Mutex_Create
    \/ \E m \in DestroyMutexArgs : Mutex_Destroy(m)
    \/ \E m \in 0..(MaxMutexID + 1) : Mutex_Lock(m) \/ Mutex_Unlock(m)

MutexNext == MutexCall \/ (Next /\ UNCHANGED mutexVars)

MutexSpec == MutexInit /\ [][MutexNext]_varsAndMutexes

-----------------------------------------------------------------------------
(* Properties.                                                             *)

\* Every variable keeps its type.  Owners and waiters, also of destroyed mutexes, are
\* tasks that were created; the queue of the waiters and that of their priorities move
\* together.
MutexTypeOK ==
    /\ TypeOK
    /\ MutexList \in Seq(DOMAIN mutex)
    /\ mutex \in Seq(MutexType)
    /\ \A m \in DOMAIN mutex :
          /\ mutex[m].owner \in {0} \cup DOMAIN PD
          /\ ToSet(mutex[m].wait_queue) \subseteq DOMAIN PD
          /\ Len(mutex[m].orig_priority) = Len(mutex[m].wait_queue)

MutexQueued(p) == {m \in DOMAIN mutex : p \in ToSet(mutex[m].wait_queue)}

\* Mutex_Lock returns to its caller only with the mutex: a task is on a wait
\* queue as long as it is in WAIT_MUTEX, on one queue and once, and a task on a
\* queue waits ("IS NOT IN WAIT_MUTEX" at mutex.c:204 is never printed).  This
\* includes the queues of destroyed mutexes, where a task waits for ever.
WaitersWait ==
    /\ \A p \in DOMAIN PD :
          /\ PD[p].state = "WAIT_MUTEX" => MutexQueued(p) # {}
          /\ MutexQueued(p) # {} => PD[p].state = "WAIT_MUTEX"
          /\ \A m, n \in MutexQueued(p) : m = n
    /\ \A m \in DOMAIN mutex :
          /\ \A i, j \in DOMAIN mutex[m].wait_queue :
                mutex[m].wait_queue[i] = mutex[m].wait_queue[j] => i = j
          /\ mutex[m].owner \notin ToSet(mutex[m].wait_queue)

\* Nobody waits for a mutex that is free: the last unlock of an owner passes it on.
NoLostHandOver ==
    \A m \in DOMAIN mutex :
        /\ (mutex[m].owner = 0) = (mutex[m].lock_count = 0)
        /\ mutex[m].owner = 0 => mutex[m].wait_queue = <<>>

\* Mutex 1 is a FIFO lock; before it is created it is a free one.
Lock1 == INSTANCE FifoLock WITH
    Task    <- 1..MaxPid,
    owner   <- IF mutex = <<>> THEN 0 ELSE mutex[1].owner,
    depth   <- IF mutex = <<>> THEN 0 ELSE mutex[1].lock_count,
    waiters <- IF mutex = <<>> THEN <<>> ELSE mutex[1].wait_queue

\* The mutexes of the code implement the abstract lock.
ImplementsFifoLock == Lock1!LockSpec

Owned(p) == {m \in DOMAIN mutex : mutex[m].owner = p}

\* The owner gives up the mutex "with its original priority restored in its PD"
\* (mutex.c:249): a task that has no mutex runs at its own priority.
PriorityRestored ==
    \A p \in Listed(ProcessList) :
        Owned(p) = {} /\ PD[p].state # "WAIT_MUTEX" => PD[p].pri = Prio[p]

\* "Mutex with priority inheritence" (readme.md): whoever owns a mutex runs at
\* least at the priority of every task that waits for it.
OwnerInherits ==
    \A m \in ToSet(MutexList) : mutex[m].owner # 0 =>
        \A i \in DOMAIN mutex[m].orig_priority :
            PD[mutex[m].owner].pri <= mutex[m].orig_priority[i]

=============================================================================
