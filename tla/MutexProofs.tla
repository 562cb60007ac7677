----------------------------- MODULE MutexProofs -----------------------------
(***************************************************************************)
(* Theorems about Mutex, for every value of its constants.                 *)
(***************************************************************************)
EXTENDS Mutex, TimerProofs

-----------------------------------------------------------------------------
(* The mutex objects.                                                      *)

\* One object, when the processes are those of tasks.
MutexOK(x, tasks) ==
    /\ x \in MutexType
    /\ x.owner \in {0} \cup tasks
    /\ ToSet(x.wait_queue) \subseteq tasks
    /\ x.owner = 0 <=> x.lock_count = 0
    /\ x.owner = 0 => x.wait_queue = <<>>
    /\ Len(x.orig_priority) = Len(x.wait_queue)

MutexesOK ==
    /\ MutexList \in Seq(DOMAIN mutex)
    /\ mutex \in Seq(MutexType)
    /\ \A m \in DOMAIN mutex : MutexOK(mutex[m], DOMAIN PD)

MutexInv == Inv /\ MutexesOK

\* The invariant is strong enough for the properties it is meant for.
LEMMA MutexInvImplies == MutexInv => MutexTypeOK /\ NoLostHandOver
<1> SUFFICES ASSUME MutexInv PROVE MutexTypeOK /\ NoLostHandOver
  OBVIOUS
<1>1. TypeOK
  BY InvImplies DEF MutexInv
<1>2. MutexTypeOK
  BY <1>1 DEF MutexInv, MutexesOK, MutexOK, MutexTypeOK
<1>3. NoLostHandOver
  BY DEF MutexInv, MutexesOK, MutexOK, NoLostHandOver
<1> QED BY <1>2, <1>3

\* More processes do not disturb the objects.
LEMMA MutexesKept ==
    ASSUME MutexesOK, DOMAIN PD \subseteq DOMAIN PD', UNCHANGED mutexVars
    PROVE  MutexesOK'
  BY DEF MutexesOK, MutexOK, mutexVars

\* One object is replaced.
LEMMA MutexReplaced ==
    ASSUME MutexesOK, DOMAIN PD \subseteq DOMAIN PD', UNCHANGED MutexList,
           NEW m \in DOMAIN mutex, NEW x, MutexOK(x, DOMAIN PD'),
           mutex' = [mutex EXCEPT ![m] = x]
    PROVE  MutexesOK'
<1>1. x \in MutexType /\ mutex \in Seq(MutexType)
  BY DEF MutexesOK, MutexOK
<1>2. mutex' \in Seq(MutexType) /\ DOMAIN mutex' = DOMAIN mutex
  BY <1>1, ExceptSeq
<1>3. \A n \in DOMAIN mutex : mutex'[n] = IF n = m THEN x ELSE mutex[n]
  OBVIOUS
<1>4. \A n \in DOMAIN mutex : MutexOK(mutex[n], DOMAIN PD')
  BY DEF MutexesOK, MutexOK
<1>5. \A n \in DOMAIN mutex' : MutexOK(mutex'[n], DOMAIN PD')
  BY <1>2, <1>3, <1>4
<1> QED BY <1>2, <1>5 DEF MutexesOK

\* The id of an object on the list is that of an object.
LEMMA MutexExistsFacts ==
    ASSUME MutexInv, NEW m, MutexExists(m)
    PROVE  /\ m \in DOMAIN mutex /\ mutex[m] \in MutexType
           /\ MutexOK(mutex[m], DOMAIN PD)
<1>1. m \in DOMAIN mutex
  BY ElementOfSeq, LenProperties DEF MutexExists, ToSet, MutexInv, MutexesOK
<1> QED BY <1>1 DEF MutexInv, MutexesOK, MutexOK

\* A queue without its head.
LEMMA DequeueFacts ==
    ASSUME NEW q \in Seq(Nat), q # <<>>
    PROVE  /\ Head(q) = q[1] /\ Head(q) \in Nat /\ 1 \in DOMAIN q
           /\ Dequeue(q) \in Seq(Nat) /\ Len(Dequeue(q)) = Len(q) - 1
           /\ DOMAIN Dequeue(q) = 1..(Len(q) - 1)
           /\ \A i \in 1..(Len(q) - 1) : i + 1 \in DOMAIN q /\ Dequeue(q)[i] = q[i + 1]
           /\ ToSet(Dequeue(q)) \subseteq ToSet(q) /\ Head(q) \in ToSet(q)
<1>1. Len(q) \in Nat \ {0} /\ DOMAIN q = 1..Len(q)
  BY EmptySeq, LenProperties
<1>2. /\ Head(q) = q[1] /\ 1 \in DOMAIN q /\ Head(q) \in Nat
      /\ Tail(q) \in Seq(Nat) /\ Len(Tail(q)) = Len(q) - 1
      /\ \A i \in 1..(Len(q) - 1) : Tail(q)[i] = q[i + 1]
  BY <1>1, HeadTailProperties, ElementOfSeq
<1>3. DOMAIN Tail(q) = 1..(Len(q) - 1)
  BY <1>2, LenProperties
<1>4. \A i \in 1..(Len(q) - 1) : i + 1 \in DOMAIN q
  BY <1>1
<1> QED BY <1>2, <1>3, <1>4 DEF Dequeue, ToSet

\* A queue with one more at its end.
LEMMA EnqueueFacts ==
    ASSUME NEW q \in Seq(Nat), NEW x \in Nat
    PROVE  /\ Enqueue(q, x) \in Seq(Nat) /\ Len(Enqueue(q, x)) = Len(q) + 1
           /\ DOMAIN Enqueue(q, x) = 1..(Len(q) + 1) /\ DOMAIN q = 1..Len(q)
           /\ Enqueue(q, x)[Len(q) + 1] = x
           /\ \A i \in 1..Len(q) : Enqueue(q, x)[i] = q[i]
           /\ ToSet(Enqueue(q, x)) = ToSet(q) \cup {x}
<1>1. /\ Append(q, x) \in Seq(Nat) /\ Len(Append(q, x)) = Len(q) + 1 /\ Len(q) \in Nat
      /\ Append(q, x)[Len(q) + 1] = x
      /\ \A i \in 1..Len(q) : Append(q, x)[i] = q[i]
  BY AppendProperties, LenProperties
<1>2. DOMAIN Append(q, x) = 1..(Len(q) + 1) /\ DOMAIN q = 1..Len(q)
  BY <1>1, LenProperties
<1>3. ToSet(Append(q, x)) = ToSet(q) \cup {x}
  BY <1>1, <1>2 DEF ToSet
<1> QED BY <1>1, <1>2, <1>3 DEF Enqueue

-----------------------------------------------------------------------------
(* The calls, one lemma each.                                              *)

\* A call that is refused, or stops in undefined behaviour, before it has
\* changed an object.
LEMMA RefusalKeepsMutexInv ==
    ASSUME MutexInv, mode \in {"boot", "task"}, NEW error \in Errors,
           Return(error, PD), UNCHANGED <<ProcessList, mutexVars>>
    PROVE  MutexInv' /\ PD' = PD
<1>1. Inv' /\ PD' = PD
  BY RefusalKeepsInv DEF MutexInv, Return
<1>2. UNCHANGED mutexVars
  BY DEF mutexVars
<1> QED BY <1>1, <1>2, MutexesKept DEF MutexInv

LEMMA StopKeepsMutexInv ==
    ASSUME MutexInv, mode' = "halted", UNCHANGED <<PD, ProcessList, sched, mutexVars>>,
           err' \in Errors
    PROVE  MutexInv'
<1>1. Inv' /\ PD' = PD
  BY StopKeepsInv DEF MutexInv
<1>2. UNCHANGED mutexVars
  BY DEF mutexVars
<1> QED BY <1>1, <1>2, MutexesKept DEF MutexInv

LEMMA ThroughNullKeepsMutexInv ==
    ASSUME MutexInv, WriteThroughNull, UNCHANGED mutexVars
    PROVE  MutexInv' /\ PD' = PD
<1>1. err' \in Errors
  BY DEF WriteThroughNull, MutexInv, Inv, VarTypes
<1> QED BY <1>1, StopKeepsMutexInv DEF WriteThroughNull

LEMMA NotFoundKeepsMutexInv ==
    ASSUME MutexInv, Running, NEW m, MutexNotFound(m)
    PROVE  MutexInv' /\ PD' = PD /\ mutex' = mutex
<1>1. PICK error \in Errors : Return(error, PD)
  BY DEF MutexNotFound, Errors
<1> QED BY <1>1, RefusalKeepsMutexInv DEF MutexNotFound, Running, mutexVars

\* A new mutex is free.
LEMMA CreateKeepsMutexInv ==
    ASSUME MutexInv, mode \in {"boot", "task"}, NEW noErr \in Errors, Kernel_Create_Mutex(noErr)
    PROVE  MutexInv' /\ PD' = PD
<1>1. CASE Return("MAX_OBJECT_ERR", PD) /\ UNCHANGED <<ProcessList, mutexVars>>
  BY <1>1, RefusalKeepsMutexInv DEF Errors
<1>2. CASE WriteThroughNull /\ UNCHANGED mutexVars
  BY <1>2, ThroughNullKeepsMutexInv
<1>3. CASE /\ Return(noErr, PD) /\ UNCHANGED ProcessList
           /\ mutex' = Append(mutex, NewMutex)
           /\ MutexList' = Append(MutexList, Last_MutexID + 1)
  <2> DEFINE n == Len(mutex)
  <2>1. Inv' /\ PD' = PD
    BY <1>3, RefusalKeepsInv DEF MutexInv, Return
  <2>2. mutex \in Seq(MutexType) /\ MutexList \in Seq(DOMAIN mutex)
        /\ n \in Nat /\ DOMAIN mutex = 1..n
    BY LenProperties DEF MutexInv, MutexesOK
  <2>3. NewMutex \in MutexType /\ \A tasks : MutexOK(NewMutex, tasks)
    BY ConfigAssumption DEF NewMutex, MutexType, MutexOK, ToSet
  <2>4. /\ mutex' \in Seq(MutexType) /\ DOMAIN mutex' = 1..(n + 1)
        /\ mutex'[n + 1] = NewMutex /\ \A m \in 1..n : mutex'[m] = mutex[m]
    <3> HIDE DEF n
    <3>1. n = Len(mutex)
      BY DEF n
    <3> QED BY <1>3, <2>2, <2>3, <3>1, AppendProperties, LenProperties
  <2>5. MutexList' \in Seq(DOMAIN mutex')
    <3>1. MutexList \in Seq(DOMAIN mutex')
      BY <2>2, <2>4, SeqMonotonic
    <3>2. Last_MutexID + 1 \in DOMAIN mutex'
      BY <2>2, <2>4 DEF Last_MutexID
    <3> QED BY <1>3, <3>1, <3>2, AppendProperties
  <2>6. \A m \in DOMAIN mutex' : MutexOK(mutex'[m], DOMAIN PD)
    <3> SUFFICES ASSUME NEW m \in DOMAIN mutex' PROVE MutexOK(mutex'[m], DOMAIN PD)
      OBVIOUS
    <3>1. CASE m = n + 1
      BY <3>1, <2>3, <2>4
    <3>2. CASE m # n + 1
      BY <3>2, <2>2, <2>4 DEF MutexInv, MutexesOK
    <3> QED BY <3>1, <3>2
  <2> QED BY <2>1, <2>4, <2>5, <2>6 DEF MutexInv, MutexesOK
<1> QED BY <1>1, <1>2, <1>3 DEF Kernel_Create_Mutex

LEMMA DestroyKeepsMutexInv ==
    ASSUME MutexInv, NEW m, Mutex_Destroy(m)
    PROVE  MutexInv' /\ PD' = PD /\ mutex' = mutex
<1>0. Running /\ mode \in {"boot", "task"} /\ UNCHANGED ProcessList
      /\ "NO_ERR" \in Errors /\ "OBJECT_NOT_FOUND_ERR" \in Errors
  BY DEF Mutex_Destroy, Running, Errors
<1>1. CASE Return("OBJECT_NOT_FOUND_ERR", PD) /\ UNCHANGED mutexVars
  BY <1>0, <1>1, RefusalKeepsMutexInv DEF mutexVars
<1>2. CASE /\ Return("NO_ERR", PD)
           /\ \E i \in DOMAIN MutexList : MutexList' = RemoveAt(MutexList, i)
           /\ UNCHANGED mutex
  <2>1. Inv' /\ PD' = PD
    BY <1>0, <1>2, RefusalKeepsInv DEF MutexInv, Return
  <2>2. PICK i \in 1..Len(MutexList) : MutexList' = RemoveAt(MutexList, i)
    BY <1>2, LenProperties DEF MutexInv, MutexesOK
  <2>3. MutexList' \in Seq(DOMAIN mutex)
    BY <2>2, RemoveAtFacts DEF MutexInv, MutexesOK
  <2> QED BY <1>2, <2>1, <2>3 DEF MutexInv, MutexesOK
<1>3. CASE err' = "NO_ERR" /\ mode' = "halted" /\ UNCHANGED <<PD, sched, mutexVars>>
  BY <1>0, <1>3, StopKeepsMutexInv DEF mutexVars
<1> QED BY <1>1, <1>2, <1>3 DEF Mutex_Destroy

\* The caller's object is changed and the call returns, with another priority
\* for the caller at most.
LEMMA ReturnKeepsMutexInv ==
    ASSUME MutexInv, Running, UNCHANGED <<ProcessList, MutexList>>,
           NEW pri \in Nat, Return("NO_ERR", [PD EXCEPT ![Current_Process].pri = pri]),
           NEW m \in DOMAIN mutex, NEW x, MutexOK(x, DOMAIN PD),
           mutex' = [mutex EXCEPT ![m] = x]
    PROVE  /\ MutexInv' /\ DOMAIN PD' = DOMAIN PD
           /\ \A p \in DOMAIN PD : /\ PD'[p].state = PD[p].state
                                  /\ PD'[p].last_state = PD[p].last_state
                                  /\ PD'[p].request_timeout = PD[p].request_timeout
<1> DEFINE c == Current_Process
           q == [PD[c] EXCEPT !.pri = pri]
           f == [PD EXCEPT ![c] = q]
<1>1. c \in DOMAIN PD /\ PD[c] \in Process
  BY CallFacts, ElementOfSeq DEF MutexInv, Table
<1>2. /\ q \in Process /\ q.state = PD[c].state /\ q.last_state = PD[c].last_state
      /\ q.request_timeout = PD[c].request_timeout
  BY <1>1 DEF Process
<1>3. Return("NO_ERR", f)
  BY <1>1 DEF Process
<1> HIDE DEF q
<1>4. Table(f, ProcessList) /\ DOMAIN f = DOMAIN PD /\ Len(f) = Len(PD)
  BY <1>1, <1>2, CallFacts, UpdateKeepsTable DEF MutexInv, Table
<1>5. \A r \in DOMAIN PD : f[r] = IF r = c THEN q ELSE PD[r]
  OBVIOUS
<1> HIDE DEF f
<1>6. OnlyCurrentRuns(f)
  BY <1>2, <1>4, <1>5 DEF MutexInv, Inv, OnlyCurrentRuns
<1>7. CallerRuns => (~SelfSuspend /\ mode = "task" => f[Current_Process].state = "RUNNING")
  BY <1>1, <1>2, <1>5 DEF CallerRuns, CurrentIsRunning
<1>8. Inv'
  BY <1>3, <1>4, <1>6, <1>7, CallFacts, ReturnKeepsInv DEF MutexInv, Errors
<1>9. PD' = f
  BY <1>3 DEF Return
<1>10. MutexesOK'
  BY <1>4, <1>9, MutexReplaced DEF MutexInv
<1> QED BY <1>2, <1>4, <1>5, <1>8, <1>9, <1>10 DEF MutexInv

\* The same when the call ends with a context switch.
LEMMA SwitchKeepsMutexInv ==
    ASSUME MutexInv, Running, UNCHANGED <<ProcessList, MutexList>>,
           NEW pd, Table(pd, ProcessList), OnlyCurrentRuns(pd),
           DOMAIN pd = DOMAIN PD, Len(pd) = Len(PD), Switch("NO_ERR", pd),
           NEW m \in DOMAIN mutex, NEW x, MutexOK(x, DOMAIN PD),
           mutex' = [mutex EXCEPT ![m] = x]
    PROVE  /\ MutexInv' /\ DOMAIN PD' = DOMAIN PD
           /\ \A p \in DOMAIN PD : Aged(pd[p], PD'[p])
<1>1. Inv' /\ DOMAIN PD' = DOMAIN PD /\ \A p \in DOMAIN PD : Aged(pd[p], PD'[p])
  BY SwitchKeepsInv, SwitchAges DEF MutexInv
<1>2. MutexesOK'
  BY <1>1, MutexReplaced DEF MutexInv
<1> QED BY <1>1, <1>2 DEF MutexInv

\* What a call did to mutex m, and to no other.
MutexBecame(m, owner, lock_count, wait_queue) ==
    /\ DOMAIN mutex' = DOMAIN mutex
    /\ \A n \in DOMAIN mutex : n # m => mutex'[n] = mutex[n]
    /\ mutex'[m].owner = owner /\ mutex'[m].lock_count = lock_count
    /\ mutex'[m].wait_queue = wait_queue

\* No process is in another state than before, and no timer is touched.
SameStates ==
    /\ DOMAIN PD' = DOMAIN PD
    /\ \A p \in DOMAIN PD : /\ PD'[p].state = PD[p].state
                           /\ PD'[p].last_state = PD[p].last_state
                           /\ PD'[p].request_timeout = PD[p].request_timeout

\* One object is replaced by x.
LEMMA ReplacedMutexBecomes ==
    ASSUME NEW m \in DOMAIN mutex, NEW x \in MutexType, mutex' = [mutex EXCEPT ![m] = x]
    PROVE  MutexBecame(m, x.owner, x.lock_count, x.wait_queue)
  BY DEF MutexBecame

\* A call that leaves the priorities alone.
LEMMA SamePriority ==
    ASSUME MutexInv, Running
    PROVE  /\ PD[Current_Process].pri \in Nat
           /\ PD = [PD EXCEPT ![Current_Process].pri = PD[Current_Process].pri]
<1>1. PD \in Seq(Process) /\ Current_Process \in DOMAIN PD /\ PD[Current_Process] \in Process
  BY CallFacts, ElementOfSeq DEF MutexInv, Table
<1>2. PD[Current_Process] = [PD[Current_Process] EXCEPT !.pri = PD[Current_Process].pri]
  BY <1>1 DEF Process
<1> QED BY <1>1, <1>2 DEF Process

LEMMA TakeEffect ==
    ASSUME MutexInv, Running, UNCHANGED <<ProcessList, MutexList>>, NEW m, MutexExists(m), Take(m)
    PROVE  /\ MutexInv' /\ SameStates
           /\ MutexBecame(m, Current_Process, mutex[m].lock_count + 1, mutex[m].wait_queue)
<1> DEFINE c == Current_Process
           x == [mutex[m] EXCEPT !.owner = c, !.owner_orig_priority = PD[c].pri,
                                 !.highest_priority = PD[c].pri, !.lock_count = @ + 1]
<1>1. /\ m \in DOMAIN mutex /\ mutex[m] \in MutexType /\ MutexOK(mutex[m], DOMAIN PD)
      /\ c \in DOMAIN PD /\ c \in Nat /\ c # 0 /\ PD[c].pri \in Nat
  BY MutexExistsFacts, SamePriority, CallFacts DEF MutexInv
<1>2. mutex' = [mutex EXCEPT ![m] = x]
  BY <1>1 DEF Take, MutexType
<1>a. mutex[m].lock_count \in Nat /\ mutex[m].lock_count + 1 \in Nat
  BY <1>1 DEF MutexType
<1>3. /\ x \in MutexType /\ x.owner = c /\ x.lock_count = mutex[m].lock_count + 1
      /\ x.wait_queue = mutex[m].wait_queue /\ x.orig_priority = mutex[m].orig_priority
  BY <1>1, <1>a DEF MutexType
<1> HIDE DEF x
<1>5. MutexOK(x, DOMAIN PD)
  BY <1>1, <1>3, <1>a DEF MutexOK
<1>6. Return("NO_ERR", [PD EXCEPT ![c].pri = PD[c].pri])
  BY SamePriority DEF Take
<1> QED BY <1>1, <1>2, <1>3, <1>5, <1>6, ReturnKeepsMutexInv, ReplacedMutexBecomes DEF SameStates

LEMMA TakeAgainEffect ==
    ASSUME MutexInv, Running, UNCHANGED <<ProcessList, MutexList>>, NEW m, MutexExists(m), TakeAgain(m)
    PROVE  /\ MutexInv' /\ SameStates
           /\ MutexBecame(m, mutex[m].owner, mutex[m].lock_count + 1, mutex[m].wait_queue)
<1> DEFINE c == Current_Process
           x == [mutex[m] EXCEPT !.lock_count = @ + 1]
<1>1. /\ m \in DOMAIN mutex /\ mutex[m] \in MutexType /\ MutexOK(mutex[m], DOMAIN PD)
      /\ c # 0 /\ PD[c].pri \in Nat
  BY MutexExistsFacts, SamePriority, CallFacts DEF MutexInv
<1>2. mutex' = [mutex EXCEPT ![m] = x]
  BY <1>1 DEF TakeAgain, MutexType
<1>a. mutex[m].lock_count \in Nat /\ mutex[m].lock_count + 1 \in Nat
  BY <1>1 DEF MutexType
<1>3. /\ x \in MutexType /\ x.owner = mutex[m].owner /\ x.lock_count = mutex[m].lock_count + 1
      /\ x.wait_queue = mutex[m].wait_queue /\ x.orig_priority = mutex[m].orig_priority
  BY <1>1, <1>a DEF MutexType
<1>4. mutex[m].owner = c
  BY DEF TakeAgain
<1> HIDE DEF x
<1>5. MutexOK(x, DOMAIN PD)
  BY <1>1, <1>3, <1>4, <1>a DEF MutexOK
<1>6. Return("NO_ERR", [PD EXCEPT ![c].pri = PD[c].pri])
  BY SamePriority DEF TakeAgain
<1> QED BY <1>1, <1>2, <1>3, <1>5, <1>6, ReturnKeepsMutexInv, ReplacedMutexBecomes DEF SameStates

LEMMA ReleaseOnceEffect ==
    ASSUME MutexInv, Running, UNCHANGED <<ProcessList, MutexList>>, NEW m, MutexExists(m),
           mutex[m].owner = Current_Process, ReleaseOnce(m)
    PROVE  /\ MutexInv' /\ SameStates
           /\ MutexBecame(m, mutex[m].owner, mutex[m].lock_count - 1, mutex[m].wait_queue)
<1> DEFINE c == Current_Process
           x == [mutex[m] EXCEPT !.lock_count = @ - 1]
<1>1. /\ m \in DOMAIN mutex /\ mutex[m] \in MutexType /\ MutexOK(mutex[m], DOMAIN PD)
      /\ c # 0 /\ PD[c].pri \in Nat
  BY MutexExistsFacts, SamePriority, CallFacts DEF MutexInv
<1>2. mutex' = [mutex EXCEPT ![m] = x]
  BY <1>1 DEF ReleaseOnce, MutexType
<1>3. mutex[m].lock_count - 1 \in Nat /\ mutex[m].lock_count - 1 # 0
  BY <1>1 DEF MutexType, ReleaseOnce
<1>4. /\ x \in MutexType /\ x.owner = mutex[m].owner /\ x.lock_count = mutex[m].lock_count - 1
      /\ x.wait_queue = mutex[m].wait_queue /\ x.orig_priority = mutex[m].orig_priority
  BY <1>1, <1>3 DEF MutexType
<1> HIDE DEF x
<1>5. MutexOK(x, DOMAIN PD)
  BY <1>1, <1>3, <1>4 DEF MutexOK
<1>6. Return("NO_ERR", [PD EXCEPT ![c].pri = PD[c].pri])
  BY SamePriority DEF ReleaseOnce
<1> QED BY <1>1, <1>2, <1>4, <1>5, <1>6, ReturnKeepsMutexInv, ReplacedMutexBecomes DEF SameStates

LEMMA ReleaseToNobodyEffect ==
    ASSUME MutexInv, Running, UNCHANGED <<ProcessList, MutexList>>, NEW m, MutexExists(m),
           ReleaseToNobody(m)
    PROVE  MutexInv' /\ SameStates /\ MutexBecame(m, 0, 0, mutex[m].wait_queue)
<1> DEFINE c == Current_Process
           x == [mutex[m] EXCEPT !.lock_count = 0, !.owner = 0]
<1>1. /\ m \in DOMAIN mutex /\ mutex[m] \in MutexType /\ MutexOK(mutex[m], DOMAIN PD)
      /\ mutex[m].wait_queue = <<>>
  BY MutexExistsFacts DEF ReleaseToNobody
<1>2. mutex' = [mutex EXCEPT ![m] = x]
  BY <1>1 DEF ReleaseToNobody, MutexType
<1>3. /\ x \in MutexType /\ x.owner = 0 /\ x.lock_count = 0
      /\ x.wait_queue = mutex[m].wait_queue /\ x.orig_priority = mutex[m].orig_priority
  BY <1>1 DEF MutexType
<1>4. mutex[m].owner_orig_priority \in Nat
  BY <1>1 DEF MutexType
<1> HIDE DEF x
<1>5. MutexOK(x, DOMAIN PD)
  BY <1>1, <1>3 DEF MutexOK
<1>6. Return("NO_ERR", [PD EXCEPT ![c].pri = mutex[m].owner_orig_priority])
  BY DEF ReleaseToNobody, Restored
<1> QED BY <1>1, <1>2, <1>3, <1>4, <1>5, <1>6, ReturnKeepsMutexInv, ReplacedMutexBecomes DEF SameStates

LEMMA WaitEffect ==
    ASSUME MutexInv, Running, UNCHANGED <<ProcessList, MutexList>>, NEW m, MutexExists(m), Wait(m)
    PROVE  /\ MutexInv'
           /\ MutexBecame(m, mutex[m].owner, mutex[m].lock_count,
                     Enqueue(mutex[m].wait_queue, Current_Process))
           /\ Moved(Current_Process, "WAIT_MUTEX") /\ OthersAge({Current_Process})
<1> DEFINE c   == Current_Process
           pri == PD[c].pri
           top == mutex[m].highest_priority
           low == IF pri < top THEN pri ELSE top
           x   == [mutex[m] EXCEPT !.wait_queue = Enqueue(@, c), !.orig_priority = Enqueue(@, pri),
                                   !.highest_priority = low]
           q   == [PD[c] EXCEPT !.pri = IF top < pri THEN top ELSE pri, !.state = "WAIT_MUTEX"]
           f   == [PD EXCEPT ![c] = q]
<1>1. /\ m \in DOMAIN mutex /\ mutex[m] \in MutexType /\ MutexOK(mutex[m], DOMAIN PD)
      /\ c \in DOMAIN PD /\ c \in Nat /\ PD[c] \in Process /\ PD[c].state # "DEAD"
      /\ mutex[m].owner # 0
  BY MutexExistsFacts, CallFacts, ElementOfSeq DEF MutexInv, Wait, Table
<1>2. mutex' = [mutex EXCEPT ![m] = x]
  BY <1>1 DEF Wait, MutexType
<1>3. Switch("NO_ERR", f)
  BY <1>1 DEF Wait, Process
<1>4. pri \in Nat /\ top \in Nat /\ low \in Nat
  BY <1>1 DEF MutexType, Process
<1>5. /\ q \in Process /\ q.state = "WAIT_MUTEX" /\ q.request_timeout = PD[c].request_timeout
  BY <1>1, <1>4 DEF Process, States
<1> HIDE DEF pri, top, low
<1>6. /\ Enqueue(mutex[m].wait_queue, c) \in Seq(Nat)
      /\ Len(Enqueue(mutex[m].wait_queue, c)) = Len(mutex[m].wait_queue) + 1
      /\ ToSet(Enqueue(mutex[m].wait_queue, c)) = ToSet(mutex[m].wait_queue) \cup {c}
      /\ Enqueue(mutex[m].orig_priority, pri) \in Seq(Nat)
      /\ Len(Enqueue(mutex[m].orig_priority, pri)) = Len(mutex[m].orig_priority) + 1
  <2>1. mutex[m].wait_queue \in Seq(Nat) /\ mutex[m].orig_priority \in Seq(Nat)
    BY <1>1 DEF MutexType
  <2>2. ASSUME NEW s \in Seq(Nat), NEW e \in Nat
        PROVE  /\ Enqueue(s, e) \in Seq(Nat) /\ Len(Enqueue(s, e)) = Len(s) + 1
               /\ ToSet(Enqueue(s, e)) = ToSet(s) \cup {e}
    BY EnqueueFacts
  <2> QED BY <1>1, <1>4, <2>1, <2>2
<1>7. /\ x \in MutexType /\ x.owner = mutex[m].owner /\ x.lock_count = mutex[m].lock_count
      /\ x.wait_queue = Enqueue(mutex[m].wait_queue, c)
      /\ x.orig_priority = Enqueue(mutex[m].orig_priority, pri)
  BY <1>1, <1>4, <1>6 DEF MutexType
<1> HIDE DEF x, q
<1>8. MutexOK(x, DOMAIN PD)
  BY <1>1, <1>6, <1>7 DEF MutexOK
<1>9. Table(f, ProcessList) /\ DOMAIN f = DOMAIN PD /\ Len(f) = Len(PD)
  BY <1>1, <1>5, CallFacts, UpdateKeepsTable DEF MutexInv
<1>10. \A r \in DOMAIN PD : f[r] = IF r = c THEN q ELSE PD[r]
  OBVIOUS
<1> HIDE DEF f
<1>11. OnlyCurrentRuns(f)
  BY <1>5, <1>9, <1>10 DEF MutexInv, Inv, OnlyCurrentRuns
<1>12. MutexInv' /\ DOMAIN PD' = DOMAIN PD /\ \A p \in DOMAIN PD : Aged(f[p], PD'[p])
  BY <1>1, <1>2, <1>3, <1>8, <1>9, <1>11, SwitchKeepsMutexInv
<1>13. Moved(c, "WAIT_MUTEX") /\ OthersAge({c})
  BY <1>1, <1>5, <1>10, <1>12 DEF Moved, OthersAge
<1> QED BY <1>1, <1>2, <1>7, <1>12, <1>13, ReplacedMutexBecomes

\* Kernel_Lock_Mutex_From_Queue: the head of the queue is the new owner, with
\* the lock that the caller gives up.
LEMMA HandOverObject ==
    ASSUME MutexInv, NEW m, MutexExists(m), ReleaseToNext(m)
    PROVE  /\ Head(mutex[m].wait_queue) \in DOMAIN PD
           /\ \E x \in MutexType :
                 /\ mutex' = [mutex EXCEPT ![m] = x] /\ MutexOK(x, DOMAIN PD)
                 /\ x.owner = Head(mutex[m].wait_queue) /\ x.lock_count = 1
                 /\ x.wait_queue = Dequeue(mutex[m].wait_queue)
<1> DEFINE next == Head(mutex[m].wait_queue)
           x    == [mutex[m] EXCEPT !.owner = next,
                                    !.owner_orig_priority = Head(mutex[m].orig_priority),
                                    !.lock_count = 1,
                                    !.wait_queue = Dequeue(@),
                                    !.orig_priority = Dequeue(@)]
<1>1. /\ m \in DOMAIN mutex /\ mutex[m] \in MutexType /\ MutexOK(mutex[m], DOMAIN PD)
      /\ mutex[m].wait_queue # <<>>
      /\ mutex[m].wait_queue \in Seq(Nat) /\ mutex[m].orig_priority \in Seq(Nat)
  BY MutexExistsFacts DEF ReleaseToNext, MutexType
<1>2. mutex' = [mutex EXCEPT ![m] = x]
  BY <1>1 DEF ReleaseToNext, MutexType
<1>3. mutex[m].orig_priority # <<>>
  BY <1>1, EmptySeq, LenProperties DEF MutexOK
<1>4. ASSUME NEW q \in Seq(Nat), q # <<>>
      PROVE  /\ Head(q) \in Nat /\ Dequeue(q) \in Seq(Nat) /\ Len(Dequeue(q)) = Len(q) - 1
             /\ ToSet(Dequeue(q)) \subseteq ToSet(q) /\ Head(q) \in ToSet(q)
  BY <1>4, DequeueFacts
<1>5. next \in Nat /\ next \in ToSet(mutex[m].wait_queue)
  BY <1>1, <1>4
<1>6. next \in DOMAIN PD /\ next # 0
  <2>1. next \in DOMAIN PD
    BY <1>1, <1>5 DEF MutexOK
  <2>2. DOMAIN PD = 1..Len(PD) /\ Len(PD) \in Nat
    BY LenProperties DEF MutexInv, Inv, Table
  <2> QED BY <2>1, <2>2
<1> HIDE DEF next
<1>7. /\ x \in MutexType /\ x.owner = next /\ x.lock_count = 1
      /\ x.wait_queue = Dequeue(mutex[m].wait_queue)
      /\ x.orig_priority = Dequeue(mutex[m].orig_priority)
  BY <1>1, <1>3, <1>4, <1>5 DEF MutexType
<1> HIDE DEF x
<1>8. MutexOK(x, DOMAIN PD)
  <2>1. Len(x.orig_priority) = Len(mutex[m].orig_priority) - 1
    BY <1>1, <1>3, <1>4, <1>7
  <2>2. /\ Len(x.wait_queue) = Len(mutex[m].wait_queue) - 1
        /\ ToSet(x.wait_queue) \subseteq ToSet(mutex[m].wait_queue)
    BY <1>1, <1>4, <1>7
  <2> QED BY <1>1, <1>6, <1>7, <2>1, <2>2 DEF MutexOK
<1> QED BY <1>2, <1>6, <1>7, <1>8 DEF next

\* When the head of the queue does not wait any more.
LEMMA ReleaseToAbsentEffect ==
    ASSUME MutexInv, Running, UNCHANGED <<ProcessList, MutexList>>, NEW m, MutexExists(m),
           ReleaseToNext(m), PD[Head(mutex[m].wait_queue)].state # "WAIT_MUTEX"
    PROVE  /\ MutexInv' /\ SameStates
           /\ MutexBecame(m, Head(mutex[m].wait_queue), 1, Dequeue(mutex[m].wait_queue))
<1>1. PICK x \in MutexType :
        /\ mutex' = [mutex EXCEPT ![m] = x] /\ MutexOK(x, DOMAIN PD)
        /\ x.owner = Head(mutex[m].wait_queue) /\ x.lock_count = 1
        /\ x.wait_queue = Dequeue(mutex[m].wait_queue)
  BY HandOverObject
<1>2. m \in DOMAIN mutex /\ mutex[m].owner_orig_priority \in Nat
  BY MutexExistsFacts DEF MutexType
<1>3. Return("NO_ERR", [PD EXCEPT ![Current_Process].pri = mutex[m].owner_orig_priority])
  BY DEF ReleaseToNext, Restored
<1> QED BY <1>1, <1>2, <1>3, ReturnKeepsMutexInv, ReplacedMutexBecomes DEF SameStates

\* When it waits: the caller and the new owner both compete for the processor.
LEMMA ReleaseToWaiterEffect ==
    ASSUME MutexInv, Running, UNCHANGED <<ProcessList, MutexList>>, NEW m, MutexExists(m),
           ReleaseToNext(m), PD[Head(mutex[m].wait_queue)].state = "WAIT_MUTEX"
    PROVE  LET next == Head(mutex[m].wait_queue)
           IN /\ MutexInv' /\ next \in DOMAIN PD
              /\ MutexBecame(m, next, 1, Dequeue(mutex[m].wait_queue))
              /\ Moved(next, "READY") /\ Moved(Current_Process, "READY")
              /\ OthersAge({next, Current_Process})
              /\ Current_Process # next =>
                    PD'[Current_Process].pri = mutex[m].owner_orig_priority
<1> DEFINE c    == Current_Process
           next == Head(mutex[m].wait_queue)
           own  == mutex[m].owner_orig_priority
           high == mutex[m].highest_priority
           q1   == [PD[c] EXCEPT !.pri = own]
           f1   == [PD EXCEPT ![c] = q1]
           q2   == [f1[next] EXCEPT !.state = "READY", !.pri = high]
           f2   == [f1 EXCEPT ![next] = q2]
           q3   == [f2[c] EXCEPT !.state = "READY"]
           f3   == [f2 EXCEPT ![c] = q3]
<1>1. PICK x \in MutexType :
        /\ mutex' = [mutex EXCEPT ![m] = x] /\ MutexOK(x, DOMAIN PD)
        /\ x.owner = next /\ x.lock_count = 1
        /\ x.wait_queue = Dequeue(mutex[m].wait_queue)
  BY HandOverObject
<1>2. /\ m \in DOMAIN mutex /\ own \in Nat /\ high \in Nat /\ next \in DOMAIN PD
  BY MutexExistsFacts, HandOverObject DEF MutexType
<1>3. /\ c \in DOMAIN PD /\ PD[c] \in Process /\ PD[c].state # "DEAD"
      /\ PD[next] \in Process /\ PD[next].state = "WAIT_MUTEX"
      /\ Table(PD, ProcessList)
  BY <1>2, CallFacts, ElementOfSeq DEF MutexInv, Table
<1>4. Switch("NO_ERR", [[PD EXCEPT ![c].pri = own] EXCEPT ![next].state = "READY",
                            ![next].pri = high, ![c].state = "READY"])
  BY <1>3 DEF ReleaseToNext, Restored
<1> HIDE DEF next, own, high, c
<1>5. f1 = [PD EXCEPT ![c].pri = own]
  BY <1>3 DEF Process
<1>6. /\ q1 \in Process /\ q1.state = PD[c].state /\ q1.last_state = PD[c].last_state
      /\ q1.request_timeout = PD[c].request_timeout
  BY <1>2, <1>3 DEF Process
<1>7. /\ DOMAIN f1 = DOMAIN PD /\ f1[c] = q1
      /\ \A p \in DOMAIN PD : p # c => f1[p] = PD[p]
  BY <1>3
<1>8. Table(f1, ProcessList) /\ Len(f1) = Len(PD)
  <2>1. q1.state = "SUSPENDED" => q1.last_state \in {"READY", "SLEEPING"}
    BY <1>3, <1>6 DEF Table
  <2> HIDE DEF q1
  <2> QED BY <1>3, <1>6, <2>1, UpdateKeepsTable
<1> HIDE DEF f1, q1
<1>9. f1[next] \in Process /\ f1[next].state \in {PD[next].state, PD[c].state}
      /\ f1[next].state # "DEAD" /\ f1[next].request_timeout = PD[next].request_timeout
  BY <1>2, <1>3, <1>6, <1>7
<1>10. /\ q2 \in Process /\ q2.state = "READY" /\ q2.request_timeout = PD[next].request_timeout
       /\ f2 = [f1 EXCEPT ![next].state = "READY", ![next].pri = high]
  BY <1>2, <1>9, <1>7 DEF Process, States
<1>11. /\ DOMAIN f2 = DOMAIN PD /\ f2[next] = q2
       /\ \A p \in DOMAIN PD : p # next => f2[p] = f1[p]
  BY <1>2, <1>7
<1>12. Table(f2, ProcessList) /\ Len(f2) = Len(PD)
  <2>1. /\ next \in DOMAIN f1 /\ q2 \in Process
        /\ q2.state = "DEAD" <=> f1[next].state = "DEAD"
        /\ q2.state = "SUSPENDED" => q2.last_state \in {"READY", "SLEEPING"}
    BY <1>2, <1>7, <1>9, <1>10
  <2> HIDE DEF q2, q3, f3
  <2> QED BY <1>7, <1>8, <2>1, UpdateKeepsTable
<1> HIDE DEF f2, q2
<1>13. f2[c] \in Process /\ f2[c].state # "DEAD" /\ f2[c].request_timeout = PD[c].request_timeout
  BY <1>3, <1>6, <1>7, <1>10, <1>11
<1>14. /\ q3 \in Process /\ q3.state = "READY" /\ q3.request_timeout = PD[c].request_timeout
       /\ f3 = [f2 EXCEPT ![c].state = "READY"]
  BY <1>3, <1>11, <1>13 DEF Process, States
<1>15. /\ DOMAIN f3 = DOMAIN PD /\ f3[c] = q3
       /\ \A p \in DOMAIN PD : p # c => f3[p] = f2[p]
  BY <1>3, <1>11
<1>16. Table(f3, ProcessList) /\ Len(f3) = Len(PD)
  <2>1. /\ c \in DOMAIN f2 /\ q3 \in Process
        /\ q3.state = "DEAD" <=> f2[c].state = "DEAD"
        /\ q3.state = "SUSPENDED" => q3.last_state \in {"READY", "SLEEPING"}
    BY <1>3, <1>11, <1>13, <1>14
  <2> HIDE DEF q3
  <2> QED BY <1>11, <1>12, <2>1, UpdateKeepsTable
<1>17. Switch("NO_ERR", f3)
  BY <1>4, <1>5, <1>10, <1>14
<1> HIDE DEF f3, q3
<1>18. \A p \in DOMAIN PD : p \notin {next, c} => f3[p] = PD[p]
  BY <1>7, <1>11, <1>15
<1>19. /\ f3[next] \in Process /\ f3[next].state = "READY"
       /\ f3[next].request_timeout = PD[next].request_timeout
  BY <1>2, <1>10, <1>11, <1>14, <1>15
<1>20. OnlyCurrentRuns(f3)
  BY <1>14, <1>15, <1>18, <1>19 DEF MutexInv, Inv, OnlyCurrentRuns
<1>21. MutexInv' /\ DOMAIN PD' = DOMAIN PD /\ \A p \in DOMAIN PD : Aged(f3[p], PD'[p])
  BY <1>1, <1>2, <1>15, <1>16, <1>17, <1>20, SwitchKeepsMutexInv
<1>22. Moved(next, "READY") /\ Moved(c, "READY") /\ OthersAge({next, c})
  BY <1>2, <1>3, <1>14, <1>15, <1>18, <1>19, <1>21 DEF Moved, OthersAge
<1>23. c # next => PD'[c].pri = own
  <2>1. c # next => f3[c].pri = q1.pri
    BY <1>3, <1>7, <1>11, <1>13, <1>14, <1>15 DEF Process, q3
  <2>2. q1.pri = own
    BY <1>3 DEF Process, q1
  <2> QED BY <1>3, <1>21, <2>1, <2>2 DEF Aged
<1> QED BY <1>1, <1>2, <1>21, <1>22, <1>23, ReplacedMutexBecomes DEF next, c, own

-----------------------------------------------------------------------------
(* What a step can do to the objects: everything a proof about them needs.   *)

\* The outcomes of Mutex_Lock.
LockOutcome(m) ==
    LET c == Current_Process
        q == mutex[m].wait_queue
        n == mutex[m].lock_count
    IN \/ mutex[m].owner = 0 /\ SameStates /\ MutexBecame(m, c, n + 1, q)
       \/ mutex[m].owner = c /\ SameStates /\ MutexBecame(m, c, n + 1, q)
       \/ /\ mutex[m].owner \notin {0, c}
          /\ MutexBecame(m, mutex[m].owner, n, Enqueue(q, c))
          /\ Moved(c, "WAIT_MUTEX") /\ OthersAge({c})

\* The outcomes of Mutex_Unlock.
UnlockOutcome(m) ==
    LET c == Current_Process
        q == mutex[m].wait_queue
        n == mutex[m].lock_count
    IN \/ mutex[m].owner = c /\ n > 1 /\ SameStates /\ MutexBecame(m, c, n - 1, q)
       \/ mutex[m].owner = c /\ n <= 1 /\ q = <<>> /\ SameStates /\ MutexBecame(m, 0, 0, q)
       \/ /\ mutex[m].owner = c /\ n <= 1 /\ q # <<>>
          /\ PD[Head(q)].state # "WAIT_MUTEX"
          /\ SameStates /\ MutexBecame(m, Head(q), 1, Dequeue(q))
       \/ /\ mutex[m].owner = c /\ n <= 1 /\ q # <<>>
          /\ PD[Head(q)].state = "WAIT_MUTEX"
          /\ Head(q) \in DOMAIN PD
          /\ MutexBecame(m, Head(q), 1, Dequeue(q))
          /\ Moved(Head(q), "READY") /\ Moved(c, "READY") /\ OthersAge({Head(q), c})

\* What either of them may do to mutex m.
MutexOutcome(m) == LockOutcome(m) \/ UnlockOutcome(m)

NothingHappens == mutex' = mutex /\ PD' = PD

LockFates == NothingHappens \/ (Running /\ \E m \in DOMAIN mutex : LockOutcome(m))

UnlockFates == NothingHappens \/ (Running /\ \E m \in DOMAIN mutex : UnlockOutcome(m))

\* The outcomes of any step.
MutexFates ==
    \/ Fates /\ mutex' = mutex
    \/ PD' = PD /\ Len(mutex) < MaxMutexID /\ mutex' = Append(mutex, NewMutex)
    \/ Running /\ \E m \in DOMAIN mutex : MutexOutcome(m)

LEMMA CallsAreFates == ASSUME LockFates \/ UnlockFates PROVE MutexFates
  BY NothingIsFate DEF LockFates, UnlockFates, NothingHappens, MutexFates, MutexOutcome

LEMMA LockKeepsMutexInv ==
    ASSUME MutexInv, NEW m, Mutex_Lock(m)
    PROVE  MutexInv' /\ LockFates
<1>1. Running
  BY DEF Mutex_Lock
<1>2. CASE MutexNotFound(m)
  BY <1>1, <1>2, NotFoundKeepsMutexInv DEF LockFates, NothingHappens
<1>3. CASE WriteThroughNull /\ UNCHANGED mutexVars
  BY <1>3, ThroughNullKeepsMutexInv DEF LockFates, NothingHappens, mutexVars
<1>4. CASE MutexExists(m) /\ (Take(m) \/ TakeAgain(m) \/ Wait(m)) /\ UNCHANGED <<ProcessList, MutexList>>
  <2>1. m \in DOMAIN mutex
    BY <1>4, MutexExistsFacts
  <2>2. CASE Take(m)
    <3>1. mutex[m].owner = 0
      BY <2>2 DEF Take
    <3> QED BY <1>1, <1>4, <2>1, <2>2, <3>1, TakeEffect DEF LockFates, LockOutcome
  <2>3. CASE TakeAgain(m)
    <3>1. mutex[m].owner = Current_Process
      BY <2>3 DEF TakeAgain
    <3> QED BY <1>1, <1>4, <2>1, <2>3, <3>1, TakeAgainEffect DEF LockFates, LockOutcome
  <2>4. CASE Wait(m)
    <3>1. mutex[m].owner \notin {0, Current_Process}
      BY <2>4 DEF Wait
    <3> QED BY <1>1, <1>4, <2>1, <2>4, <3>1, WaitEffect DEF LockFates, LockOutcome
  <2> QED BY <1>4, <2>2, <2>3, <2>4
<1> QED BY <1>2, <1>3, <1>4 DEF Mutex_Lock

LEMMA UnlockKeepsMutexInv ==
    ASSUME MutexInv, NEW m, Mutex_Unlock(m)
    PROVE  MutexInv' /\ UnlockFates
<1>1. Running
  BY DEF Mutex_Unlock
<1>2. CASE MutexNotFound(m)
  BY <1>1, <1>2, NotFoundKeepsMutexInv DEF UnlockFates, NothingHappens
<1>3. CASE Return("OBJECT_NOT_FOUND_ERR", PD) /\ UNCHANGED <<ProcessList, mutexVars>>
  <2>1. "OBJECT_NOT_FOUND_ERR" \in Errors /\ mode \in {"boot", "task"}
    BY <1>1 DEF Errors, Running
  <2> QED BY <1>3, <2>1, RefusalKeepsMutexInv DEF UnlockFates, NothingHappens, mutexVars
<1>4. CASE /\ MutexExists(m) /\ mutex[m].owner = Current_Process
           /\ ReleaseOnce(m) \/ ReleaseToNobody(m) \/ ReleaseToNext(m)
           /\ UNCHANGED <<ProcessList, MutexList>>
  <2>1. m \in DOMAIN mutex
    BY <1>4, MutexExistsFacts
  <2>2. CASE ReleaseOnce(m)
    <3>1. mutex[m].lock_count > 1
      BY <2>2 DEF ReleaseOnce
    <3>2. MutexInv' /\ SameStates
          /\ MutexBecame(m, Current_Process, mutex[m].lock_count - 1, mutex[m].wait_queue)
      BY <1>1, <1>4, <2>2, ReleaseOnceEffect
    <3> QED BY <1>1, <1>4, <2>1, <3>1, <3>2 DEF UnlockFates, UnlockOutcome
  <2>3. CASE ReleaseToNobody(m)
    <3>1. mutex[m].lock_count <= 1 /\ mutex[m].wait_queue = <<>>
      BY <2>3 DEF ReleaseToNobody
    <3>2. MutexInv' /\ SameStates /\ MutexBecame(m, 0, 0, mutex[m].wait_queue)
      BY <1>1, <1>4, <2>3, ReleaseToNobodyEffect
    <3> QED BY <1>1, <1>4, <2>1, <3>1, <3>2 DEF UnlockFates, UnlockOutcome
  <2>4. CASE ReleaseToNext(m)
    <3>1. mutex[m].lock_count <= 1 /\ mutex[m].wait_queue # <<>>
      BY <2>4 DEF ReleaseToNext
    <3>2. CASE PD[Head(mutex[m].wait_queue)].state # "WAIT_MUTEX"
      <4>1. MutexInv' /\ SameStates
            /\ MutexBecame(m, Head(mutex[m].wait_queue), 1, Dequeue(mutex[m].wait_queue))
        BY <1>1, <1>4, <2>4, <3>2, ReleaseToAbsentEffect
      <4> QED BY <1>1, <1>4, <2>1, <3>1, <3>2, <4>1 DEF UnlockFates, UnlockOutcome
    <3>3. CASE PD[Head(mutex[m].wait_queue)].state = "WAIT_MUTEX"
      <4> DEFINE next == Head(mutex[m].wait_queue)
      <4>1. /\ MutexInv' /\ next \in DOMAIN PD
            /\ MutexBecame(m, next, 1, Dequeue(mutex[m].wait_queue))
            /\ Moved(next, "READY") /\ Moved(Current_Process, "READY")
            /\ OthersAge({next, Current_Process})
        BY <1>1, <1>4, <2>4, <3>3, ReleaseToWaiterEffect
      <4> QED BY <1>1, <1>4, <2>1, <3>1, <3>3, <4>1 DEF UnlockFates, UnlockOutcome
    <3> QED BY <3>2, <3>3
  <2> QED BY <1>4, <2>2, <2>3, <2>4
<1> QED BY <1>2, <1>3, <1>4 DEF Mutex_Unlock

LEMMA MutexStep ==
    ASSUME MutexInv, [MutexNext]_varsAndMutexes
    PROVE  MutexInv' /\ MutexFates
<1>1. CASE Mutex_Create
  <2>1. PICK noErr \in Errors : mode \in {"boot", "task"} /\ Kernel_Create_Mutex(noErr)
    BY <1>1 DEF Mutex_Create, Running, Errors, MutexInv, Inv, VarTypes
  <2>2. mutex' = mutex \/ (Len(mutex) < MaxMutexID /\ mutex' = Append(mutex, NewMutex))
    BY <2>1 DEF Kernel_Create_Mutex, Last_MutexID, mutexVars
  <2> QED BY <2>1, <2>2, CreateKeepsMutexInv, NothingIsFate DEF MutexFates
<1>2. CASE \E m \in DestroyMutexArgs : Mutex_Destroy(m)
  BY <1>2, DestroyKeepsMutexInv, NothingIsFate DEF MutexFates
<1>3. CASE \E m \in 0..(MaxMutexID + 1) : Mutex_Lock(m) \/ Mutex_Unlock(m)
  BY <1>3, LockKeepsMutexInv, UnlockKeepsMutexInv, CallsAreFates
<1>4. CASE [Next]_vars /\ UNCHANGED mutexVars
  <2>1. Inv' /\ Fates
    BY <1>4, NextKeepsInv, NextFates DEF MutexInv
  <2>2. DOMAIN PD \subseteq DOMAIN PD'
    BY <2>1 DEF Fates
  <2> QED BY <1>4, <2>1, <2>2, MutexesKept DEF MutexInv, MutexFates, mutexVars
<1> QED BY <1>1, <1>2, <1>3, <1>4 DEF MutexNext, MutexCall, varsAndMutexes

LEMMA MutexInitEstablishes == MutexInit => MutexInv
<1> SUFFICES ASSUME MutexInit PROVE MutexInv
  OBVIOUS
<1>1. Inv
  BY InitEstablishesInv DEF MutexInit
<1>2. MutexesOK
  BY EmptySeq DEF MutexInit, MutexesOK
<1> QED BY <1>1, <1>2 DEF MutexInv

-----------------------------------------------------------------------------
(* The queues and the states of the tasks.                                   *)

LEMMA EnqueueMatches ==
    ASSUME NEW w, NEW W, Match(w, W), NEW m \in DOMAIN w, w[m] \in Seq(Nat),
           NEW c \in Nat, c \notin W,
           NEW v, DOMAIN v = DOMAIN w, v[m] = Enqueue(w[m], c),
           \A n \in DOMAIN w : n # m => v[n] = w[n]
    PROVE  Match(v, W \cup {c})
<1> DEFINE k == Len(w[m])
<1>1. /\ k \in Nat /\ DOMAIN w[m] = 1..k /\ DOMAIN v[m] = 1..(k + 1)
      /\ v[m][k + 1] = c /\ \A i \in 1..k : v[m][i] = w[m][i]
  <2>1. ASSUME NEW s \in Seq(Nat)
        PROVE  /\ Len(s) \in Nat /\ DOMAIN s = 1..Len(s)
               /\ DOMAIN Enqueue(s, c) = 1..(Len(s) + 1) /\ Enqueue(s, c)[Len(s) + 1] = c
               /\ \A i \in 1..Len(s) : Enqueue(s, c)[i] = s[i]
    BY EnqueueFacts, LenProperties
  <2> QED BY <2>1
<1> HIDE DEF k
<1>2. \A n \in DOMAIN w : \A i \in DOMAIN v[n] :
        \/ i \in DOMAIN w[n] /\ v[n][i] = w[n][i]
        \/ n = m /\ i = k + 1 /\ v[n][i] = c
  BY <1>1
<1>3. \A n \in DOMAIN w : \A i \in DOMAIN w[n] : i \in DOMAIN v[n] /\ v[n][i] = w[n][i]
  BY <1>1
<1>4. m \in DOMAIN v /\ k + 1 \in DOMAIN v[m] /\ v[m][k + 1] = c
  BY <1>1
<1>5. \A n \in DOMAIN v : \A i \in DOMAIN v[n] : v[n][i] \in W \cup {c}
  BY <1>2 DEF Match
<1>6. \A p \in W \cup {c} : \E n \in DOMAIN v : \E i \in DOMAIN v[n] : v[n][i] = p
  BY <1>3, <1>4 DEF Match
<1>7. ASSUME NEW n1 \in DOMAIN v, NEW n2 \in DOMAIN v,
             NEW i \in DOMAIN v[n1], NEW j \in DOMAIN v[n2], v[n1][i] = v[n2][j]
      PROVE  n1 = n2 /\ i = j
  BY <1>2, <1>7 DEF Match
<1> QED BY <1>5, <1>6, <1>7 DEF Match

LEMMA DequeueMatches ==
    ASSUME NEW w, NEW W, Match(w, W), NEW m \in DOMAIN w, w[m] \in Seq(Nat), w[m] # <<>>,
           NEW v, DOMAIN v = DOMAIN w, v[m] = Dequeue(w[m]),
           \A n \in DOMAIN w : n # m => v[n] = w[n]
    PROVE  Match(v, W \ {Head(w[m])}) /\ Head(w[m]) \notin ToSet(v[m])
<1> DEFINE k == Len(w[m])
           h == Head(w[m])
<1>1. /\ k \in Nat /\ k # 0 /\ DOMAIN w[m] = 1..k /\ DOMAIN v[m] = 1..(k - 1)
      /\ h = w[m][1] /\ \A i \in 1..(k - 1) : v[m][i] = w[m][i + 1]
  BY DequeueFacts, LenProperties, EmptySeq
<1> HIDE DEF k, h
<1> DEFINE from(n, i) == IF n = m THEN i + 1 ELSE i
<1>2. \A n \in DOMAIN w : \A i \in DOMAIN v[n] :
        from(n, i) \in DOMAIN w[n] /\ v[n][i] = w[n][from(n, i)] /\ v[n][i] # h
  <2> SUFFICES ASSUME NEW n \in DOMAIN w, NEW i \in DOMAIN v[n]
               PROVE  from(n, i) \in DOMAIN w[n] /\ v[n][i] = w[n][from(n, i)] /\ v[n][i] # h
    OBVIOUS
  <2>1. from(n, i) \in DOMAIN w[n] /\ v[n][i] = w[n][from(n, i)]
    <3>1. CASE n = m
      <4>1. i \in 1..(k - 1) /\ i + 1 \in 1..k
        BY <1>1, <3>1
      <4> QED BY <1>1, <3>1, <4>1
    <3>2. CASE n # m
      <4>1. v[n] = w[n]
        BY <3>2
      <4> QED BY <3>2, <4>1
    <3> QED BY <3>1, <3>2
  <2>2. n = m => from(n, i) # 1
    BY <1>1
  <2>3. 1 \in DOMAIN w[m]
    BY <1>1
  <2> HIDE DEF from
  <2>4. ASSUME NEW x \in DOMAIN w[n], h = w[n][x] PROVE m = n /\ 1 = x
    <3>1. w[m][1] = w[n][x]
      BY <1>1, <2>4
    <3> QED BY <2>3, <3>1 DEF Match
  <2> QED BY <2>1, <2>2, <2>4
<1>3. \A n \in DOMAIN w : \A i \in DOMAIN w[n] :
        w[n][i] # h => \E j \in DOMAIN v[n] : v[n][j] = w[n][i]
  <2> SUFFICES ASSUME NEW n \in DOMAIN w, NEW i \in DOMAIN w[n], w[n][i] # h
               PROVE  \E j \in DOMAIN v[n] : v[n][j] = w[n][i]
    OBVIOUS
  <2>1. CASE n = m
    <3>1. i - 1 \in DOMAIN v[m] /\ v[m][i - 1] = w[m][i]
      BY <1>1, <2>1
    <3> QED BY <2>1, <3>1
  <2>2. CASE n # m
    BY <2>2
  <2> QED BY <2>1, <2>2
<1>4. \A n \in DOMAIN v : \A i \in DOMAIN v[n] : v[n][i] \in W \ {h}
  BY <1>2 DEF Match
<1>5. \A p \in W \ {h} : \E n \in DOMAIN v : \E i \in DOMAIN v[n] : v[n][i] = p
  BY <1>3 DEF Match
<1>6. ASSUME NEW n1 \in DOMAIN v, NEW n2 \in DOMAIN v,
             NEW i \in DOMAIN v[n1], NEW j \in DOMAIN v[n2], v[n1][i] = v[n2][j]
      PROVE  n1 = n2 /\ i = j
  <2>1. n1 = n2 /\ from(n1, i) = from(n2, j)
    BY <1>2, <1>6 DEF Match
  <2>2. n1 = m => i \in Int /\ j \in Int
    BY <1>1, <2>1
  <2> QED BY <2>1, <2>2
<1>7. h \notin ToSet(v[m])
  BY <1>2 DEF ToSet
<1> QED BY <1>4, <1>5, <1>6, <1>7 DEF Match, h

MutexQueues  == [m \in DOMAIN mutex |-> mutex[m].wait_queue]
MutexWaiters == {p \in DOMAIN PD : PD[p].state = "WAIT_MUTEX"}

MutexWaitInv ==
    /\ AllTimely
    /\ Match(MutexQueues, MutexWaiters)
    /\ \A m \in DOMAIN mutex : mutex[m].owner \notin ToSet(mutex[m].wait_queue)

\* A task on a queue waits.
LEMMA MutexQueuedWaits ==
    ASSUME Match(MutexQueues, MutexWaiters), NEW m \in DOMAIN mutex, NEW p \in ToSet(mutex[m].wait_queue)
    PROVE  p \in DOMAIN PD /\ PD[p].state = "WAIT_MUTEX"
  BY DEF Match, MutexQueues, MutexWaiters, ToSet

LEMMA MutexWaitInvImplies == MutexWaitInv => WaitersWait
<1> SUFFICES ASSUME MutexWaitInv PROVE WaitersWait
  OBVIOUS
<1>1. \A m \in DOMAIN mutex : MutexQueues[m] = mutex[m].wait_queue
  BY DEF MutexQueues
<1>2. DOMAIN MutexQueues = DOMAIN mutex
  BY DEF MutexQueues
<1>3. ASSUME NEW p \in DOMAIN PD
      PROVE  /\ PD[p].state = "WAIT_MUTEX" => MutexQueued(p) # {}
             /\ MutexQueued(p) # {} => PD[p].state = "WAIT_MUTEX"
             /\ \A m, n \in MutexQueued(p) : m = n
  <2>1. PD[p].state = "WAIT_MUTEX" => \E m \in DOMAIN mutex : p \in ToSet(mutex[m].wait_queue)
    BY <1>1, <1>2 DEF MutexWaitInv, Match, MutexWaiters, ToSet
  <2>2. \A m, n \in DOMAIN mutex :
          p \in ToSet(mutex[m].wait_queue) /\ p \in ToSet(mutex[n].wait_queue) => m = n
    BY <1>1, <1>2 DEF MutexWaitInv, Match, ToSet
  <2> QED BY <2>1, <2>2, MutexQueuedWaits DEF MutexWaitInv, MutexQueued
<1>4. \A m \in DOMAIN mutex : \A i, j \in DOMAIN mutex[m].wait_queue :
        mutex[m].wait_queue[i] = mutex[m].wait_queue[j] => i = j
  BY <1>1, <1>2 DEF MutexWaitInv, Match
<1> QED BY <1>3, <1>4 DEF MutexWaitInv, WaitersWait

\* A call that leaves the states of the tasks and the queues alone.
LEMMA StatesAndQueuesKept ==
    ASSUME MutexWaitInv, SameStates, NEW m \in DOMAIN mutex, NEW owner, NEW n,
           MutexBecame(m, owner, n, mutex[m].wait_queue), owner \notin ToSet(mutex[m].wait_queue)
    PROVE  MutexWaitInv'
<1>1. AllTimely'
  BY DEF MutexWaitInv, AllTimely, Timely, SameStates
<1>2. MutexWaiters' = MutexWaiters
  BY DEF MutexWaiters, SameStates
<1>3. MutexQueues' = MutexQueues
  BY DEF MutexQueues, MutexBecame
<1>4. Match(MutexQueues, MutexWaiters)'
  BY <1>2, <1>3 DEF MutexWaitInv, Match
<1>5. \A k \in DOMAIN mutex' : mutex'[k].owner \notin ToSet(mutex'[k].wait_queue)
  BY DEF MutexWaitInv, MutexBecame
<1> QED BY <1>1, <1>4, <1>5 DEF MutexWaitInv

\* The caller is RUNNING, and nobody else becomes or ceases to be a waiter.
LEMMA CallerMoves ==
    ASSUME MutexInv, MutexWaitInv, ~SelfSuspend, Running
    PROVE  /\ Current_Process \in DOMAIN PD /\ PD[Current_Process].state = "RUNNING"
           /\ Current_Process \in Nat
           /\ \A p \in DOMAIN PD : \A state \in States :
                 /\ Moved(p, state) /\ PD[p].state \in {"RUNNING", "WAIT_MUTEX"} =>
                       Timely(PD'[p]) /\ WaitsAlike([state |-> state], PD'[p])
                 /\ Aged(PD[p], PD'[p]) =>
                       Timely(PD'[p]) /\ (PD'[p].state = "WAIT_MUTEX" <=> PD[p].state = "WAIT_MUTEX")
<1>1. Current_Process \in DOMAIN PD /\ PD[Current_Process].state = "RUNNING"
      /\ Current_Process \in Nat
  BY CallFacts DEF MutexInv, Inv, CallerRuns, CurrentIsRunning, Running
<1>2. ASSUME NEW p \in DOMAIN PD, NEW state \in States, Moved(p, state),
             PD[p].state \in {"RUNNING", "WAIT_MUTEX"}
      PROVE  Timely(PD'[p]) /\ WaitsAlike([state |-> state], PD'[p])
  <2>1. PICK a \in Process : a.state = state /\ a.request_timeout = PD[p].request_timeout
                             /\ Aged(a, PD'[p])
    BY <1>2 DEF Moved
  <2>2. Timely(a)
    BY <1>2, <2>1 DEF MutexWaitInv, AllTimely, Timely
  <2> QED BY <2>1, <2>2, AgedWaitsAlike DEF WaitsAlike
<1>3. ASSUME NEW p \in DOMAIN PD, Aged(PD[p], PD'[p])
      PROVE  Timely(PD'[p]) /\ (PD'[p].state = "WAIT_MUTEX" <=> PD[p].state = "WAIT_MUTEX")
  BY <1>3, AgedWaitsAlike DEF MutexWaitInv, AllTimely, WaitsAlike, Waiting
<1> QED BY <1>1, <1>2, <1>3

\* The caller waits: it is RUNNING, so it is on no queue.
LEMMA WaitKeepsWaitInv ==
    ASSUME MutexInv, MutexWaitInv, ~SelfSuspend, Running, NEW m \in DOMAIN mutex,
           mutex[m].owner # Current_Process,
           MutexBecame(m, mutex[m].owner, mutex[m].lock_count,
                  Enqueue(mutex[m].wait_queue, Current_Process)),
           Moved(Current_Process, "WAIT_MUTEX"), OthersAge({Current_Process})
    PROVE  MutexWaitInv'
<1> DEFINE c == Current_Process
<1>1. c \in DOMAIN PD /\ PD[c].state = "RUNNING" /\ c \in Nat
  BY CallerMoves
<1>2. Timely(PD'[c]) /\ PD'[c].state = "WAIT_MUTEX"
  BY <1>1, CallerMoves DEF WaitsAlike, Waiting, States
<1>3. \A p \in DOMAIN PD \ {c} :
        Timely(PD'[p]) /\ (PD'[p].state = "WAIT_MUTEX" <=> PD[p].state = "WAIT_MUTEX")
  BY CallerMoves DEF OthersAge, States
<1>4. DOMAIN PD' = DOMAIN PD
  BY DEF OthersAge
<1>5. MutexWaiters' = MutexWaiters \cup {c} /\ c \notin MutexWaiters /\ AllTimely'
  BY <1>1, <1>2, <1>3, <1>4 DEF MutexWaiters, AllTimely
<1>6. mutex[m].wait_queue \in Seq(Nat)
  BY DEF MutexInv, MutexesOK, MutexOK, MutexType
<1>7. /\ DOMAIN MutexQueues' = DOMAIN MutexQueues /\ m \in DOMAIN MutexQueues
      /\ MutexQueues[m] = mutex[m].wait_queue /\ MutexQueues'[m] = Enqueue(MutexQueues[m], c)
      /\ \A n \in DOMAIN MutexQueues : n # m => MutexQueues'[n] = MutexQueues[n]
  BY DEF MutexQueues, MutexBecame
<1>8. Match(MutexQueues', MutexWaiters \cup {c})
  BY <1>1, <1>5, <1>6, <1>7, EnqueueMatches DEF MutexWaitInv
<1>9. ToSet(mutex'[m].wait_queue) = ToSet(mutex[m].wait_queue) \cup {c}
  <2>1. \A s \in Seq(Nat) : ToSet(Enqueue(s, c)) = ToSet(s) \cup {c}
    BY <1>1, EnqueueFacts
  <2> QED BY <1>6, <2>1 DEF MutexBecame
<1>10. \A k \in DOMAIN mutex' : mutex'[k].owner \notin ToSet(mutex'[k].wait_queue)
  BY <1>9 DEF MutexWaitInv, MutexBecame
<1> QED BY <1>5, <1>8, <1>10 DEF MutexWaitInv

\* The head of the queue has the mutex and waits no more.
LEMMA HandOverKeepsWaitInv ==
    ASSUME MutexInv, MutexWaitInv, ~SelfSuspend, Running, NEW m \in DOMAIN mutex,
           mutex[m].wait_queue # <<>>, NEW next, next = Head(mutex[m].wait_queue),
           MutexBecame(m, next, 1, Dequeue(mutex[m].wait_queue)),
           Moved(next, "READY"), Moved(Current_Process, "READY"),
           OthersAge({next, Current_Process})
    PROVE  MutexWaitInv'
<1> DEFINE c == Current_Process
<1>1. c \in DOMAIN PD /\ PD[c].state = "RUNNING"
  BY CallerMoves
<1>2. mutex[m].wait_queue \in Seq(Nat)
  BY DEF MutexInv, MutexesOK, MutexOK, MutexType
<1>3. next \in DOMAIN PD /\ PD[next].state = "WAIT_MUTEX"
  <2>1. next \in ToSet(mutex[m].wait_queue)
    BY <1>2, DequeueFacts
  <2> QED BY <2>1, MutexQueuedWaits DEF MutexWaitInv
<1>4. \A p \in {next, c} : Timely(PD'[p]) /\ PD'[p].state # "WAIT_MUTEX"
  BY <1>1, <1>3, CallerMoves DEF WaitsAlike, Waiting, States
<1>5. \A p \in DOMAIN PD \ {next, c} :
        Timely(PD'[p]) /\ (PD'[p].state = "WAIT_MUTEX" <=> PD[p].state = "WAIT_MUTEX")
  BY CallerMoves DEF OthersAge, States
<1>6. DOMAIN PD' = DOMAIN PD
  BY DEF OthersAge
<1>7. MutexWaiters' = MutexWaiters \ {next} /\ AllTimely'
  BY <1>1, <1>4, <1>5, <1>6 DEF MutexWaiters, AllTimely
<1>8. /\ DOMAIN MutexQueues' = DOMAIN MutexQueues /\ m \in DOMAIN MutexQueues
      /\ MutexQueues[m] = mutex[m].wait_queue /\ MutexQueues'[m] = Dequeue(MutexQueues[m])
      /\ \A n \in DOMAIN MutexQueues : n # m => MutexQueues'[n] = MutexQueues[n]
  BY DEF MutexQueues, MutexBecame
<1>9. Match(MutexQueues', MutexWaiters \ {next}) /\ next \notin ToSet(MutexQueues'[m])
  BY <1>2, <1>8, DequeueMatches DEF MutexWaitInv
<1>10. \A k \in DOMAIN mutex' : mutex'[k].owner \notin ToSet(mutex'[k].wait_queue)
  BY <1>8, <1>9 DEF MutexWaitInv, MutexBecame
<1> QED BY <1>7, <1>9, <1>10 DEF MutexWaitInv

LEMMA OutcomeKeepsWaitInv ==
    ASSUME MutexInv, MutexWaitInv, ~SelfSuspend, Running, NEW m \in DOMAIN mutex, MutexOutcome(m)
    PROVE  MutexWaitInv'
<1> DEFINE c == Current_Process
           q == mutex[m].wait_queue
           n == mutex[m].lock_count
<1>1. mutex[m].owner = 0 => q = <<>>
  BY DEF MutexInv, MutexesOK, MutexOK
<1>2. mutex[m].owner \notin ToSet(q) /\ ToSet(<<>>) = {}
  BY DEF MutexWaitInv, ToSet
<1>4. ASSUME NEW k, mutex[m].owner \in {0, c}, SameStates, MutexBecame(m, c, k, q)
      PROVE  MutexWaitInv'
  BY <1>1, <1>2, <1>4, StatesAndQueuesKept
<1>5. CASE mutex[m].owner \notin {0, c} /\ MutexBecame(m, mutex[m].owner, n, Enqueue(q, c))
           /\ Moved(c, "WAIT_MUTEX") /\ OthersAge({c})
  BY <1>5, WaitKeepsWaitInv
<1>6. CASE q = <<>> /\ SameStates /\ MutexBecame(m, 0, 0, q)
  BY <1>2, <1>6, StatesAndQueuesKept
<1>7. CASE q # <<>> /\ PD[Head(q)].state # "WAIT_MUTEX"
  <2>1. q \in Seq(Nat)
    BY DEF MutexInv, MutexesOK, MutexOK, MutexType
  <2>2. Head(q) \in ToSet(q)
    BY <1>7, <2>1, DequeueFacts
  <2> QED BY <1>7, <2>2, MutexQueuedWaits DEF MutexWaitInv
<1>8. CASE /\ q # <<>> /\ MutexBecame(m, Head(q), 1, Dequeue(q))
           /\ Moved(Head(q), "READY") /\ Moved(c, "READY") /\ OthersAge({Head(q), c})
  BY <1>8, HandOverKeepsWaitInv
<1> QED BY <1>4, <1>5, <1>6, <1>7, <1>8 DEF MutexOutcome, LockOutcome, UnlockOutcome

\* Every step keeps the queues matched with the states.
LEMMA StepKeepsMutexWaitInv ==
    ASSUME ~SelfSuspend, FreshTimeouts \subseteq {0}, MutexInv, MutexWaitInv, MutexFates
    PROVE  MutexWaitInv'
<1>1. CASE Fates /\ mutex' = mutex
  <2>1. /\ AllTimely' /\ DOMAIN PD \subseteq DOMAIN PD'
        /\ \A p \in DOMAIN PD : WaitsAlike(PD[p], PD'[p])
        /\ \A p \in DOMAIN PD' \ DOMAIN PD : PD'[p].state \notin Waiting
    BY <1>1, FatesWaitAlike DEF MutexInv, MutexWaitInv
  <2>2. MutexWaiters' = MutexWaiters
    BY <2>1 DEF MutexWaiters, WaitsAlike, Waiting
  <2>3. Match(MutexQueues, MutexWaiters)'
    BY <1>1, <2>2 DEF MutexWaitInv, Match, MutexQueues
  <2> QED BY <1>1, <2>1, <2>3 DEF MutexWaitInv
<1>2. CASE PD' = PD /\ mutex' = Append(mutex, NewMutex)
  <2> DEFINE n == Len(mutex)
  <2>1. mutex \in Seq(MutexType) /\ NewMutex \in MutexType /\ n \in Nat /\ DOMAIN mutex = 1..n
    BY ConfigAssumption, LenProperties DEF MutexInv, MutexesOK, NewMutex, MutexType
  <2>2. /\ DOMAIN mutex' = 1..(n + 1) /\ mutex'[n + 1] = NewMutex
        /\ \A m \in 1..n : mutex'[m] = mutex[m]
    <3> HIDE DEF n
    <3>1. n = Len(mutex)
      BY DEF n
    <3> QED BY <1>2, <2>1, <3>1, AppendProperties, LenProperties
  <2>3. NewMutex.wait_queue = <<>> /\ ToSet(<<>>) = {} /\ DOMAIN <<>> = {}
    BY DEF NewMutex, ToSet
  <2> HIDE DEF n
  <2>4. \A m \in DOMAIN MutexQueues' :
          \/ m \in DOMAIN MutexQueues /\ MutexQueues'[m] = MutexQueues[m]
          \/ m = n + 1 /\ MutexQueues'[m] = <<>>
    BY <2>1, <2>2, <2>3 DEF MutexQueues
  <2>5. \A m \in DOMAIN MutexQueues : m \in DOMAIN MutexQueues' /\ MutexQueues'[m] = MutexQueues[m]
    BY <2>1, <2>2 DEF MutexQueues
  <2>6. MutexWaiters' = MutexWaiters /\ AllTimely'
    BY <1>2 DEF MutexWaiters, AllTimely, MutexWaitInv
  <2>7. Match(MutexQueues', MutexWaiters)
    BY <2>3, <2>4, <2>5 DEF MutexWaitInv, Match
  <2>8. \A m \in DOMAIN mutex' : mutex'[m].owner \notin ToSet(mutex'[m].wait_queue)
    BY <2>1, <2>2, <2>3 DEF MutexWaitInv
  <2> QED BY <2>6, <2>7, <2>8 DEF MutexWaitInv
<1>3. CASE Running /\ \E m \in DOMAIN mutex : MutexOutcome(m)
  BY <1>3, OutcomeKeepsWaitInv
<1> QED BY <1>1, <1>2, <1>3 DEF MutexFates

-----------------------------------------------------------------------------
(* The theorems.                                                           *)

\* The invariant of the scheduler and of the mutexes holds in every reachable state.
THEOREM MutexInvariance == MutexSpec => []MutexInv
  BY MutexInitEstablishes, MutexStep, PTL DEF MutexSpec

\* Every variable keeps its type: no owner and no queue ever names a process
\* that was not created.
THEOREM MutexTypeCorrect == MutexSpec => []MutexTypeOK
  BY MutexInvariance, MutexInvImplies, PTL

\* A mutex that is free has no waiters, and the queue of the waiters never gets
\* out of step with that of their priorities, whoever locks, unlocks, destroys,
\* suspends or terminates, in whatever order, and whatever the timers do.
THEOREM HandOverCorrect == MutexSpec => []NoLostHandOver
  BY MutexInvariance, MutexInvImplies, PTL

\* The calls on mutexes do not break the scheduler: its properties hold with them.
THEOREM MutexKeepsScheduler == MutexSpec => [](AtMostOneRunning /\ ListIsLive)
<1>1. MutexInv => AtMostOneRunning /\ ListIsLive
  BY InvImplies DEF MutexInv
<1> QED BY <1>1, MutexInvariance, PTL

-----------------------------------------------------------------------------
(* The queues, when the timers are those of sleepers only and nobody suspends *)
(* itself in the middle of a call.                                           *)

LEMMA InitEstablishesWaitInv == MutexInit => MutexWaitInv
  BY DEF MutexInit, Init, MutexWaitInv, AllTimely, Match, MutexQueues, MutexWaiters

\* A task waits for a mutex if and only if it is on a queue, on one and once, and
\* never on that of a mutex it owns: Mutex_Lock does not return early, and nobody
\* is woken twice, as long as a new descriptor has no timer.
THEOREM MutexWaitersWait ==
    ASSUME ~SelfSuspend, FreshTimeouts \subseteq {0}
    PROVE  MutexSpec => []WaitersWait
<1>1. MutexInit => MutexInv /\ MutexWaitInv
  BY MutexInitEstablishes, InitEstablishesWaitInv
<1>2. MutexInv /\ MutexWaitInv /\ [MutexNext]_varsAndMutexes => (MutexInv /\ MutexWaitInv)'
  BY MutexStep, StepKeepsMutexWaitInv
<1> QED BY <1>1, <1>2, MutexWaitInvImplies, PTL DEF MutexSpec

\* What the outcome of a call on mutex 1 means for the abstract lock.
LEMMA OutcomeIsLockStep ==
    ASSUME MutexInv, MutexWaitInv, ~SelfSuspend, Running, NEW m \in DOMAIN mutex, MutexOutcome(m)
    PROVE  [Lock1!LockNext]_(Lock1!lockVars)
<1> DEFINE c == Current_Process
           o == mutex[1].owner
           n == mutex[1].lock_count
           q == mutex[1].wait_queue
<1>1. DOMAIN mutex = 1..Len(mutex) /\ Len(mutex) \in Nat /\ 1 \in DOMAIN mutex /\ mutex # <<>>
  <2>1. mutex \in Seq(MutexType)
    BY DEF MutexInv, MutexesOK
  <2>2. DOMAIN mutex = 1..Len(mutex) /\ Len(mutex) \in Nat
    BY <2>1, LenProperties
  <2> QED BY <2>2
<1>2. mutex' # <<>>
  <2>1. DOMAIN mutex' = DOMAIN mutex
    BY DEF MutexOutcome, LockOutcome, UnlockOutcome, MutexBecame
  <2> QED BY <1>1, <2>1
<1>3. mutex[1] \in MutexType /\ MutexOK(mutex[1], DOMAIN PD)
  BY <1>1 DEF MutexInv, MutexesOK, MutexOK
<1>4. /\ n \in Nat /\ q \in Seq(Nat) /\ (o = 0 <=> n = 0) /\ (o = 0 => q = <<>>)
  BY <1>3 DEF MutexType, MutexOK
<1>5. c \in 1..MaxPid /\ c # 0 /\ PD[c].state = "RUNNING"
  BY EnvironmentAssumption, CallFacts, CallerMoves DEF MutexInv
<1>6. \A i \in DOMAIN q : q[i] # c
  BY <1>1, <1>5, MutexQueuedWaits DEF MutexWaitInv, ToSet
<1> DEFINE Out(o1, n1, q1) ==
        mutex'[1].owner = o1 /\ mutex'[1].lock_count = n1 /\ mutex'[1].wait_queue = q1
<1>7. \/ Out(o, n, q)
      \/ o = 0 /\ Out(c, n + 1, q)
      \/ o = c /\ Out(o, n + 1, q)
      \/ o = c /\ n > 1 /\ Out(o, n - 1, q)
      \/ o \notin {0, c} /\ Out(o, n, Enqueue(q, c))
      \/ o = c /\ n <= 1 /\ q = <<>> /\ Out(0, 0, q)
      \/ o = c /\ n <= 1 /\ q # <<>> /\ Out(Head(q), 1, Dequeue(q))
  <2>1. CASE m = 1
    BY <2>1 DEF MutexOutcome, LockOutcome, UnlockOutcome, MutexBecame
  <2>2. CASE m # 1
    BY <1>1, <2>2 DEF MutexOutcome, LockOutcome, UnlockOutcome, MutexBecame
  <2> QED BY <2>1, <2>2
<1> HIDE DEF o, n, q, c, Out
<1>8. CASE Out(o, n, q)
  BY <1>1, <1>2, <1>8 DEF Out, Lock1!lockVars, o, n, q
<1>9. CASE o = 0 /\ Out(c, n + 1, q)
  <2>1. Lock1!Acquire(c)
    BY <1>1, <1>2, <1>4, <1>9 DEF Out, Lock1!Acquire, Lock1!Free, o, n, q
  <2> QED BY <1>5, <2>1 DEF Lock1!LockNext
<1>10. CASE o = c /\ Out(o, n + 1, q)
  <2>1. Lock1!Reenter
    BY <1>1, <1>2, <1>5, <1>10 DEF Out, Lock1!Reenter, o, n, q
  <2> QED BY <2>1 DEF Lock1!LockNext
<1>11. CASE o = c /\ n > 1 /\ Out(o, n - 1, q)
  <2>1. Lock1!Leave
    BY <1>1, <1>2, <1>11 DEF Out, Lock1!Leave, o, n, q
  <2> QED BY <2>1 DEF Lock1!LockNext
<1>12. CASE o \notin {0, c} /\ Out(o, n, Enqueue(q, c))
  <2>1. Lock1!Ask(c)
    BY <1>1, <1>2, <1>6, <1>12 DEF Out, Lock1!Ask, Enqueue, o, n, q
  <2> QED BY <1>5, <2>1 DEF Lock1!LockNext
<1>13. CASE o = c /\ n <= 1 /\ q = <<>> /\ Out(0, 0, q)
  <2>1. n = 1 /\ o # 0
    BY <1>4, <1>5, <1>13
  <2>2. Lock1!Release
    BY <1>1, <1>2, <1>13, <2>1 DEF Out, Lock1!Release, o, n, q
  <2> QED BY <2>2 DEF Lock1!LockNext
<1>14. CASE o = c /\ n <= 1 /\ q # <<>> /\ Out(Head(q), 1, Dequeue(q))
  <2>1. n = 1 /\ o # 0
    BY <1>4, <1>5, <1>14
  <2>2. Lock1!Release
    BY <1>1, <1>2, <1>14, <2>1 DEF Out, Lock1!Release, Dequeue, o, n, q
  <2> QED BY <2>2 DEF Lock1!LockNext
<1> QED BY <1>7, <1>8, <1>9, <1>10, <1>11, <1>12, <1>13, <1>14

\* Every step is one of the abstract lock, or none.
LEMMA StepIsLockStep ==
    ASSUME ~SelfSuspend, MutexInv, MutexWaitInv, MutexFates
    PROVE  [Lock1!LockNext]_(Lock1!lockVars)
<1>1. CASE mutex' = mutex
  BY <1>1 DEF Lock1!lockVars
<1>2. CASE mutex' = Append(mutex, NewMutex)
  <2>1. mutex \in Seq(MutexType) /\ NewMutex \in MutexType
    BY ConfigAssumption DEF MutexInv, MutexesOK, NewMutex, MutexType
  <2>2. /\ DOMAIN mutex' = 1..(Len(mutex) + 1) /\ mutex'[Len(mutex) + 1] = NewMutex
        /\ \A m \in 1..Len(mutex) : mutex'[m] = mutex[m]
        /\ Len(mutex) \in Nat /\ (mutex = <<>> <=> Len(mutex) = 0)
    BY <1>2, <2>1, AppendProperties, LenProperties, EmptySeq
  <2>3. mutex' # <<>>
    BY <2>2
  <2>4. CASE mutex = <<>>
    BY <2>2, <2>3, <2>4 DEF Lock1!lockVars, NewMutex
  <2>5. CASE mutex # <<>>
    BY <2>2, <2>3, <2>5 DEF Lock1!lockVars
  <2> QED BY <2>4, <2>5
<1>3. CASE Running /\ \E m \in DOMAIN mutex : MutexOutcome(m)
  BY <1>3, OutcomeIsLockStep
<1> QED BY <1>1, <1>2, <1>3 DEF MutexFates

\* The mutex of the code implements the reentrant first-come-first-served lock,
\* under any schedule, with preemption or without it.
THEOREM MutexImplementsLock ==
    ASSUME ~SelfSuspend, FreshTimeouts \subseteq {0}
    PROVE  MutexSpec => ImplementsFifoLock
<1>1. MutexInit => Lock1!LockInit
  BY DEF MutexInit, Lock1!LockInit, Lock1!Free
<1>2. MutexInit => MutexInv /\ MutexWaitInv
  BY MutexInitEstablishes, InitEstablishesWaitInv
<1>3. MutexInv /\ MutexWaitInv /\ [MutexNext]_varsAndMutexes =>
        (MutexInv /\ MutexWaitInv)' /\ [Lock1!LockNext]_(Lock1!lockVars)
  BY MutexStep, StepKeepsMutexWaitInv, StepIsLockStep
<1> QED BY <1>1, <1>2, <1>3, PTL DEF MutexSpec, ImplementsFifoLock, Lock1!LockSpec

-----------------------------------------------------------------------------
(* The priorities, when no task has or waits for two mutexes at a time.      *)

\* A task has the mutex x, or is on its queue.
Uses(p, x) == x.owner = p \/ p \in ToSet(x.wait_queue)

\* Destroyed mutexes count: who has one keeps it.
OneAtATime == \A p \in DOMAIN PD : \A m, n \in Owned(p) \cup MutexQueued(p) : m = n

\* What a mutex holds for its owner and its waiters are their own priorities.
Remembers(x) ==
    /\ x.owner # 0 => x.owner_orig_priority = Prio[x.owner]
    /\ \A i \in DOMAIN x.wait_queue : x.orig_priority[i] = Prio[x.wait_queue[i]]

UsesNone(p) == \A m \in DOMAIN mutex : ~Uses(p, mutex[m])

PriInv ==
    /\ \A m \in DOMAIN mutex : Remembers(mutex[m])
    /\ \A p \in DOMAIN PD : UsesNone(p) => PD[p].pri = Prio[p]

\* A task that does not wait for a mutex is on no queue.
LEMMA PriInvImplies == MutexInv /\ MutexWaitInv /\ PriInv => PriorityRestored
<1> SUFFICES ASSUME MutexInv, MutexWaitInv, PriInv,
                    NEW p \in Listed(ProcessList), Owned(p) = {}, PD[p].state # "WAIT_MUTEX"
             PROVE  PD[p].pri = Prio[p]
  BY DEF PriorityRestored
<1>1. p \in DOMAIN PD
  BY DEF MutexInv, Inv, Table
<1>2. UsesNone(p)
  BY MutexQueuedWaits DEF MutexWaitInv, UsesNone, Uses, Owned
<1> QED BY <1>1, <1>2 DEF PriInv

\* One mutex is replaced by x; who does not use x has its own priority, or did
\* not use the mutex before and keeps the priority it had.
LEMMA ReplacedKeepsPriInv ==
    ASSUME PriInv, DOMAIN PD' = DOMAIN PD, NEW m \in DOMAIN mutex, NEW x, Remembers(x),
           mutex' = [mutex EXCEPT ![m] = x],
           \A p \in DOMAIN PD : ~Uses(p, x) =>
               \/ PD'[p].pri = Prio[p]
               \/ ~Uses(p, mutex[m]) /\ PD'[p].pri = PD[p].pri
    PROVE  PriInv'
<1>1. DOMAIN mutex' = DOMAIN mutex /\ mutex'[m] = x
      /\ \A n \in DOMAIN mutex : n # m => mutex'[n] = mutex[n]
  OBVIOUS
<1>2. \A n \in DOMAIN mutex' : Remembers(mutex'[n])
  BY <1>1 DEF PriInv
<1>3. ASSUME NEW p \in DOMAIN PD, \A n \in DOMAIN mutex' : ~Uses(p, mutex'[n])
      PROVE  PD'[p].pri = Prio[p]
  <2>1. ~Uses(p, x)
    BY <1>1, <1>3
  <2>2. \A n \in DOMAIN mutex : n # m => ~Uses(p, mutex[n])
    BY <1>1, <1>3
  <2>3. CASE ~Uses(p, mutex[m]) /\ PD'[p].pri = PD[p].pri
    BY <2>2, <2>3 DEF PriInv, UsesNone
  <2> QED BY <2>1, <2>3
<1> QED BY <1>2, <1>3 DEF PriInv, UsesNone, Remembers, Uses

\* Who uses m after a step that leaves the other mutexes alone uses none of them.
LEMMA UsesNoOther ==
    ASSUME OneAtATime', DOMAIN PD' = DOMAIN PD, NEW m \in DOMAIN mutex, NEW x,
           mutex' = [mutex EXCEPT ![m] = x], NEW p \in DOMAIN PD, Uses(p, x),
           ~Uses(p, mutex[m])
    PROVE  UsesNone(p)
<1> SUFFICES ASSUME NEW n \in DOMAIN mutex, Uses(p, mutex[n]) PROVE FALSE
  BY DEF UsesNone
<1>1. m # n /\ m \in DOMAIN mutex' /\ n \in DOMAIN mutex'
      /\ mutex'[m] = x /\ mutex'[n] = mutex[n]
  OBVIOUS
<1>2. m \in Owned(p)' \cup MutexQueued(p)' /\ n \in Owned(p)' \cup MutexQueued(p)'
  BY <1>1 DEF Owned, MutexQueued, Uses
<1> QED BY <1>1, <1>2 DEF OneAtATime

\* The caller is RUNNING: it is on no queue.
LEMMA CallerOnNoQueue ==
    ASSUME MutexInv, MutexWaitInv, ~SelfSuspend, Running, NEW m \in DOMAIN mutex
    PROVE  Current_Process \notin ToSet(mutex[m].wait_queue)
  BY CallerMoves, MutexQueuedWaits DEF MutexWaitInv

\* The priority that the new owner remembers, and those that are queued.
LEMMA TakeKeepsPriInv ==
    ASSUME MutexInv, MutexWaitInv, PriInv, ~SelfSuspend, Running, OneAtATime',
           NEW m, MutexExists(m), Take(m)
    PROVE  PriInv'
<1> DEFINE c == Current_Process
           x == [mutex[m] EXCEPT !.owner = c, !.owner_orig_priority = PD[c].pri,
                                 !.highest_priority = PD[c].pri, !.lock_count = @ + 1]
<1>1. /\ m \in DOMAIN mutex /\ mutex[m] \in MutexType /\ MutexOK(mutex[m], DOMAIN PD)
      /\ c \in DOMAIN PD /\ c # 0
  BY MutexExistsFacts, CallFacts DEF MutexInv
<1>2. mutex' = [mutex EXCEPT ![m] = x] /\ PD' = PD /\ mutex[m].owner = 0
  BY <1>1 DEF Take, MutexType, Return
<1>3. /\ x.owner = c /\ x.owner_orig_priority = PD[c].pri
      /\ x.wait_queue = mutex[m].wait_queue /\ mutex[m].wait_queue = <<>>
  BY <1>1, <1>2 DEF MutexType, MutexOK
<1> HIDE DEF x
<1>4. ToSet(<<>>) = {} /\ DOMAIN <<>> = {}
  BY DEF ToSet
<1>5. \A p \in DOMAIN PD : ~Uses(p, mutex[m])
  <2>1. 0 \notin DOMAIN PD
    BY LenProperties DEF MutexInv, Inv, Table
  <2> QED BY <1>2, <1>3, <1>4, <2>1 DEF Uses
<1>6. UsesNone(c)
  <2>1. Uses(c, x)
    BY <1>3 DEF Uses
  <2> QED BY <1>1, <1>2, <1>5, <2>1, UsesNoOther
<1>7. Remembers(x)
  BY <1>1, <1>3, <1>4, <1>6 DEF Remembers, PriInv
<1> QED BY <1>1, <1>2, <1>5, <1>7, ReplacedKeepsPriInv

LEMMA CountKeepsPriInv ==
    ASSUME MutexInv, PriInv, NEW m, MutexExists(m), NEW n,
           mutex' = [mutex EXCEPT ![m].lock_count = n], PD' = PD
    PROVE  PriInv'
<1> DEFINE x == [mutex[m] EXCEPT !.lock_count = n]
<1>1. m \in DOMAIN mutex /\ mutex[m] \in MutexType
  BY MutexExistsFacts
<1>2. mutex' = [mutex EXCEPT ![m] = x]
  BY <1>1 DEF MutexType
<1>3. /\ x.owner = mutex[m].owner /\ x.owner_orig_priority = mutex[m].owner_orig_priority
      /\ x.wait_queue = mutex[m].wait_queue /\ x.orig_priority = mutex[m].orig_priority
  BY <1>1 DEF MutexType
<1> HIDE DEF x
<1>4. Remembers(x)
  BY <1>1, <1>3 DEF PriInv, Remembers
<1>5. \A p \in DOMAIN PD : Uses(p, x) <=> Uses(p, mutex[m])
  BY <1>3 DEF Uses
<1> QED BY <1>1, <1>2, <1>4, <1>5, ReplacedKeepsPriInv

LEMMA WaitKeepsPriInv ==
    ASSUME MutexInv, MutexWaitInv, PriInv, ~SelfSuspend, Running, OneAtATime',
           UNCHANGED <<ProcessList, MutexList>>, NEW m, MutexExists(m), Wait(m)
    PROVE  PriInv'
<1> DEFINE c   == Current_Process
           pri == PD[c].pri
           top == mutex[m].highest_priority
           low == IF pri < top THEN pri ELSE top
           x   == [mutex[m] EXCEPT !.wait_queue = Enqueue(@, c), !.orig_priority = Enqueue(@, pri),
                                   !.highest_priority = low]
<1>1. /\ m \in DOMAIN mutex /\ mutex[m] \in MutexType /\ MutexOK(mutex[m], DOMAIN PD)
      /\ c \in DOMAIN PD /\ c \in Nat /\ mutex[m].owner \notin {0, c} /\ pri \in Nat
  BY MutexExistsFacts, CallFacts, SamePriority DEF MutexInv, Wait
<1>2. mutex' = [mutex EXCEPT ![m] = x]
  BY <1>1 DEF Wait, MutexType
<1>3. /\ x.owner = mutex[m].owner /\ x.owner_orig_priority = mutex[m].owner_orig_priority
      /\ x.wait_queue = Enqueue(mutex[m].wait_queue, c)
      /\ x.orig_priority = Enqueue(mutex[m].orig_priority, pri)
  BY <1>1 DEF MutexType
<1> HIDE DEF x
<1>4. DOMAIN PD' = DOMAIN PD /\ \A p \in DOMAIN PD : p # c => PD'[p].pri = PD[p].pri
  BY WaitEffect DEF OthersAge, Aged
<1> DEFINE k == Len(mutex[m].wait_queue)
<1>5. /\ k \in Nat /\ DOMAIN x.wait_queue = 1..(k + 1) /\ DOMAIN mutex[m].wait_queue = 1..k
      /\ x.wait_queue[k + 1] = c /\ x.orig_priority[k + 1] = pri
      /\ \A i \in 1..k : /\ x.wait_queue[i] = mutex[m].wait_queue[i]
                         /\ x.orig_priority[i] = mutex[m].orig_priority[i]
      /\ ToSet(x.wait_queue) = ToSet(mutex[m].wait_queue) \cup {c}
  <2>1. /\ mutex[m].wait_queue \in Seq(Nat) /\ mutex[m].orig_priority \in Seq(Nat)
        /\ Len(mutex[m].orig_priority) = k /\ k \in Nat
    BY <1>1, LenProperties DEF MutexType, MutexOK
  <2> DEFINE q == mutex[m].wait_queue
             o == mutex[m].orig_priority
  <2>2. x.wait_queue = Enqueue(q, c) /\ x.orig_priority = Enqueue(o, pri)
    BY <1>3
  <2>3. q \in Seq(Nat) /\ o \in Seq(Nat) /\ Len(q) = k /\ Len(o) = k /\ k \in Nat
        /\ c \in Nat /\ pri \in Nat
    BY <1>1, <2>1
  <2> HIDE DEF q, o, k, c, pri
  <2>4. /\ DOMAIN Enqueue(q, c) = 1..(Len(q) + 1) /\ DOMAIN q = 1..Len(q)
        /\ Enqueue(q, c)[Len(q) + 1] = c
        /\ \A i \in 1..Len(q) : Enqueue(q, c)[i] = q[i]
        /\ ToSet(Enqueue(q, c)) = ToSet(q) \cup {c}
    BY <2>3, EnqueueFacts
  <2>5. /\ Enqueue(o, pri)[Len(o) + 1] = pri
        /\ \A i \in 1..Len(o) : Enqueue(o, pri)[i] = o[i]
    BY <2>3, EnqueueFacts
  <2> QED BY <2>2, <2>3, <2>4, <2>5 DEF q, o
<1> HIDE DEF k
<1>6. UsesNone(c)
  <2>1. Uses(c, x)
    BY <1>5 DEF Uses
  <2>2. ~Uses(c, mutex[m])
    BY <1>1, CallerOnNoQueue DEF Uses
  <2> QED BY <1>1, <1>2, <1>4, <2>1, <2>2, UsesNoOther
<1>7. Remembers(x)
  <2>1. pri = Prio[c]
    BY <1>1, <1>6 DEF PriInv
  <2>2. Remembers(mutex[m])
    BY <1>1 DEF PriInv
  <2>3. ASSUME NEW i \in DOMAIN x.wait_queue PROVE x.orig_priority[i] = Prio[x.wait_queue[i]]
    <3>1. CASE i = k + 1
      BY <1>5, <2>1, <3>1
    <3>2. CASE i \in 1..k
      BY <1>5, <2>2, <3>2 DEF Remembers
    <3> QED BY <1>5, <3>1, <3>2
  <2> QED BY <1>3, <2>2, <2>3 DEF Remembers
<1>8. \A p \in DOMAIN PD : ~Uses(p, x) => p # c /\ ~Uses(p, mutex[m])
  BY <1>3, <1>5 DEF Uses
<1> QED BY <1>1, <1>2, <1>4, <1>7, <1>8, ReplacedKeepsPriInv

\* The last unlock: the caller has its own priority again.
LEMMA ReleaseKeepsPriInv ==
    ASSUME MutexInv, PriInv, Running, NEW m, MutexExists(m),
           mutex[m].owner = Current_Process, ReleaseToNobody(m)
    PROVE  PriInv'
<1> DEFINE c == Current_Process
           x == [mutex[m] EXCEPT !.lock_count = 0, !.owner = 0]
<1>1. /\ m \in DOMAIN mutex /\ mutex[m] \in MutexType /\ MutexOK(mutex[m], DOMAIN PD)
      /\ mutex[m].wait_queue = <<>> /\ c \in DOMAIN PD /\ c # 0 /\ PD[c] \in Process
  BY MutexExistsFacts, CallFacts, ElementOfSeq DEF MutexInv, Table, ReleaseToNobody
<1>2. mutex' = [mutex EXCEPT ![m] = x]
  BY <1>1 DEF ReleaseToNobody, MutexType
<1>3. x.owner = 0 /\ x.wait_queue = <<>> /\ DOMAIN <<>> = {}
  BY <1>1 DEF MutexType
<1> HIDE DEF x
<1>4. Remembers(x)
  BY <1>3 DEF Remembers
<1>5. /\ DOMAIN PD' = DOMAIN PD /\ PD'[c].pri = mutex[m].owner_orig_priority
      /\ \A p \in DOMAIN PD : p # c => PD'[p] = PD[p]
  BY <1>1 DEF ReleaseToNobody, Return, Restored, Process
<1>6. PD'[c].pri = Prio[c]
  BY <1>1, <1>5 DEF PriInv, Remembers
<1>7. \A p \in DOMAIN PD : p # c => ~Uses(p, mutex[m])
  BY <1>1 DEF Uses, ToSet
<1> QED BY <1>1, <1>2, <1>4, <1>5, <1>6, <1>7, ReplacedKeepsPriInv

\* The head of the queue is the new owner, and its own priority comes with it.
LEMMA HandOverKeepsPriInv ==
    ASSUME MutexInv, MutexWaitInv, PriInv, ~SelfSuspend, Running,
           UNCHANGED <<ProcessList, MutexList>>, NEW m, MutexExists(m),
           mutex[m].owner = Current_Process, ReleaseToNext(m)
    PROVE  PriInv'
<1> DEFINE c    == Current_Process
           next == Head(mutex[m].wait_queue)
           x    == [mutex[m] EXCEPT !.owner = next,
                                    !.owner_orig_priority = Head(mutex[m].orig_priority),
                                    !.lock_count = 1,
                                    !.wait_queue = Dequeue(@),
                                    !.orig_priority = Dequeue(@)]
<1>1. /\ m \in DOMAIN mutex /\ mutex[m] \in MutexType /\ MutexOK(mutex[m], DOMAIN PD)
      /\ c \in DOMAIN PD /\ c # 0 /\ mutex[m].wait_queue # <<>>
      /\ mutex[m].wait_queue \in Seq(Nat) /\ mutex[m].orig_priority \in Seq(Nat)
  <2>1. m \in DOMAIN mutex /\ mutex[m] \in MutexType /\ MutexOK(mutex[m], DOMAIN PD)
    BY MutexExistsFacts
  <2>2. c \in DOMAIN PD /\ c # 0
    BY CallFacts DEF MutexInv
  <2>3. mutex[m].wait_queue # <<>>
    BY DEF ReleaseToNext
  <2>4. mutex[m].wait_queue \in Seq(Nat) /\ mutex[m].orig_priority \in Seq(Nat)
    BY <2>1 DEF MutexType
  <2> QED BY <2>1, <2>2, <2>3, <2>4
<1>2. mutex' = [mutex EXCEPT ![m] = x]
  BY <1>1 DEF ReleaseToNext, MutexType
<1>3. /\ x.owner = next /\ x.owner_orig_priority = Head(mutex[m].orig_priority)
      /\ x.wait_queue = Dequeue(mutex[m].wait_queue)
      /\ x.orig_priority = Dequeue(mutex[m].orig_priority)
  BY <1>1 DEF MutexType
<1> HIDE DEF x
<1> DEFINE k == Len(mutex[m].wait_queue)
<1>4. /\ k \in Nat /\ next = mutex[m].wait_queue[1] /\ next \in ToSet(mutex[m].wait_queue)
      /\ 1 \in DOMAIN mutex[m].wait_queue
      /\ x.owner_orig_priority = mutex[m].orig_priority[1]
      /\ DOMAIN x.wait_queue = 1..(k - 1)
      /\ \A i \in 1..(k - 1) : /\ i + 1 \in DOMAIN mutex[m].wait_queue
                               /\ x.wait_queue[i] = mutex[m].wait_queue[i + 1]
                               /\ x.orig_priority[i] = mutex[m].orig_priority[i + 1]
  <2>1. Len(mutex[m].orig_priority) = k /\ k \in Nat
    BY <1>1, LenProperties DEF MutexOK
  <2>2. mutex[m].orig_priority # <<>>
    BY <1>1, <2>1, EmptySeq, LenProperties
  <2>3. ASSUME NEW q \in Seq(Nat), q # <<>>
        PROVE  /\ Head(q) = q[1] /\ 1 \in DOMAIN q /\ Head(q) \in ToSet(q)
               /\ DOMAIN Dequeue(q) = 1..(Len(q) - 1)
               /\ \A i \in 1..(Len(q) - 1) : i + 1 \in DOMAIN q /\ Dequeue(q)[i] = q[i + 1]
    BY <2>3, DequeueFacts
  <2> QED BY <1>1, <1>3, <2>1, <2>2, <2>3
<1>5. PD[next].state = "WAIT_MUTEX" /\ next # c
  BY <1>1, <1>4, MutexQueuedWaits, CallerOnNoQueue DEF MutexWaitInv
<1>6. /\ DOMAIN PD' = DOMAIN PD /\ PD'[c].pri = mutex[m].owner_orig_priority
      /\ \A p \in DOMAIN PD : p \notin {next, c} => PD'[p].pri = PD[p].pri
  BY <1>5, ReleaseToWaiterEffect DEF OthersAge, Aged
<1>7. \A p \in DOMAIN PD : ~Uses(p, x) => p # next /\ (p # c => ~Uses(p, mutex[m]))
  <2> SUFFICES ASSUME NEW p \in DOMAIN PD, ~Uses(p, x), p # c, p \in ToSet(mutex[m].wait_queue)
               PROVE  FALSE
    BY <1>1, <1>3 DEF Uses
  <2>1. p # next /\ p \notin ToSet(x.wait_queue)
    BY <1>3 DEF Uses
  <2>2. PICK i \in DOMAIN mutex[m].wait_queue : mutex[m].wait_queue[i] = p
    BY DEF ToSet
  <2>3. i \in 1..k
    BY <1>1, <2>2, LenProperties
  <2>4. i # 1
    BY <1>4, <2>1, <2>2
  <2>5. i - 1 \in 1..(k - 1) /\ (i - 1) + 1 = i
    BY <1>4, <2>3, <2>4
  <2>6. x.wait_queue[i - 1] = p
    BY <1>4, <2>2, <2>5
  <2> QED BY <1>4, <2>1, <2>5, <2>6 DEF ToSet
<1> HIDE DEF next, k
<1>8. Remembers(mutex[m])
  BY <1>1 DEF PriInv
<1>9. Remembers(x)
  BY <1>3, <1>4, <1>8 DEF Remembers
<1>10. PD'[c].pri = Prio[c]
  BY <1>1, <1>6, <1>8 DEF Remembers
<1> QED BY <1>1, <1>2, <1>6, <1>7, <1>9, <1>10, ReplacedKeepsPriInv

\* The scheduler lends no priority, and a new task has its own.
LEMMA FatesKeepPriorities ==
    ASSUME Inv, Fates
    PROVE  /\ \A p \in DOMAIN PD : PD'[p].pri = PD[p].pri
           /\ \A p \in DOMAIN PD' \ DOMAIN PD : PD'[p].pri = Prio[p]
<1> SUFFICES ASSUME NEW p \in DOMAIN PD PROVE PD'[p].pri = PD[p].pri
  BY DEF Fates
<1>1. PD[p] \in Process
  BY ElementOfSeq DEF Inv, Table
<1>2. CASE Aged(PD[p], PD'[p])
  BY <1>2 DEF Aged
<1>3. CASE Suspended(PD[p], PD'[p]) \/ Resumed(PD[p], PD'[p])
  BY <1>3 DEF Suspended, Resumed
<1>4. CASE Retired(PD[p], PD'[p])
  BY <1>1, <1>4 DEF Retired, Aged, Process
<1> QED BY <1>2, <1>3, <1>4 DEF Fates, Fate

LEMMA FatesKeepPriInv ==
    ASSUME MutexInv, PriInv, Fates, mutex' = mutex
    PROVE  PriInv'
<1>1. /\ \A p \in DOMAIN PD : PD'[p].pri = PD[p].pri
      /\ \A p \in DOMAIN PD' \ DOMAIN PD : PD'[p].pri = Prio[p]
  BY FatesKeepPriorities DEF MutexInv
<1>2. \A p \in DOMAIN PD : UsesNone(p)' <=> UsesNone(p)
  BY DEF UsesNone, Uses
<1>3. \A p \in DOMAIN PD' : UsesNone(p)' => PD'[p].pri = Prio[p]
  BY <1>1, <1>2 DEF PriInv
<1> QED BY <1>3 DEF PriInv, Remembers

\* A new mutex is nobody's.
LEMMA CreateKeepsPriInv ==
    ASSUME MutexInv, PriInv, PD' = PD, mutex' = Append(mutex, NewMutex)
    PROVE  PriInv'
<1> DEFINE n == Len(mutex)
<1>1. mutex \in Seq(MutexType) /\ NewMutex \in MutexType /\ n \in Nat /\ DOMAIN mutex = 1..n
  BY ConfigAssumption, LenProperties DEF MutexInv, MutexesOK, NewMutex, MutexType
<1>2. /\ DOMAIN mutex' = 1..(n + 1) /\ mutex'[n + 1] = NewMutex
      /\ \A m \in 1..n : mutex'[m] = mutex[m]
  <2> HIDE DEF n
  <2>1. n = Len(mutex)
    BY DEF n
  <2> QED BY <1>1, <2>1, AppendProperties, LenProperties
<1> HIDE DEF n
<1>3. Remembers(NewMutex)
  <2>1. NewMutex.owner = 0 /\ DOMAIN NewMutex.wait_queue = {}
    BY DEF NewMutex
  <2> QED BY <2>1 DEF Remembers
<1>4. \A m \in DOMAIN mutex' : Remembers(mutex'[m])
  BY <1>1, <1>2, <1>3 DEF PriInv
<1>5. ASSUME NEW p \in DOMAIN PD, \A m \in DOMAIN mutex' : ~Uses(p, mutex'[m])
      PROVE  PD'[p].pri = Prio[p]
  <2>1. \A m \in DOMAIN mutex : ~Uses(p, mutex[m])
    BY <1>1, <1>2, <1>5
  <2> QED BY <2>1 DEF PriInv, UsesNone
<1> QED BY <1>4, <1>5 DEF PriInv, UsesNone, Remembers, Uses

LEMMA LockKeepsPriInv ==
    ASSUME MutexInv, MutexWaitInv, PriInv, ~SelfSuspend, OneAtATime', NEW m, Mutex_Lock(m)
    PROVE  PriInv'
<1>1. Running
  BY DEF Mutex_Lock
<1>2. CASE MutexNotFound(m) \/ (WriteThroughNull /\ UNCHANGED mutexVars)
  <2>1. PD' = PD /\ mutex' = mutex
    BY <1>1, <1>2, NotFoundKeepsMutexInv DEF WriteThroughNull, mutexVars
  <2> QED BY <2>1, NothingIsFate, FatesKeepPriInv
<1>3. CASE MutexExists(m) /\ Take(m)
  BY <1>1, <1>3, TakeKeepsPriInv
<1>4. CASE MutexExists(m) /\ TakeAgain(m)
  <2>1. PD' = PD /\ mutex' = [mutex EXCEPT ![m].lock_count = mutex[m].lock_count + 1]
    BY <1>4, MutexExistsFacts DEF TakeAgain, Return, MutexType
  <2> QED BY <1>4, <2>1, CountKeepsPriInv
<1>5. CASE MutexExists(m) /\ Wait(m) /\ UNCHANGED <<ProcessList, MutexList>>
  BY <1>1, <1>5, WaitKeepsPriInv
<1> QED BY <1>2, <1>3, <1>4, <1>5 DEF Mutex_Lock

LEMMA UnlockKeepsPriInv ==
    ASSUME MutexInv, MutexWaitInv, PriInv, ~SelfSuspend, NEW m, Mutex_Unlock(m)
    PROVE  PriInv'
<1>1. Running
  BY DEF Mutex_Unlock
<1>2. CASE MutexNotFound(m) \/ (Return("OBJECT_NOT_FOUND_ERR", PD) /\ UNCHANGED <<ProcessList, mutexVars>>)
  <2>1. PD' = PD /\ mutex' = mutex
    BY <1>1, <1>2, NotFoundKeepsMutexInv DEF Return, mutexVars
  <2> QED BY <2>1, NothingIsFate, FatesKeepPriInv
<1>3. CASE MutexExists(m) /\ ReleaseOnce(m)
  <2>1. PD' = PD /\ mutex' = [mutex EXCEPT ![m].lock_count = mutex[m].lock_count - 1]
    BY <1>3, MutexExistsFacts DEF ReleaseOnce, Return, MutexType
  <2> QED BY <1>3, <2>1, CountKeepsPriInv
<1>4. CASE MutexExists(m) /\ mutex[m].owner = Current_Process /\ ReleaseToNobody(m)
  BY <1>1, <1>4, ReleaseKeepsPriInv
<1>5. CASE /\ MutexExists(m) /\ mutex[m].owner = Current_Process /\ ReleaseToNext(m)
           /\ UNCHANGED <<ProcessList, MutexList>>
  BY <1>1, <1>5, HandOverKeepsPriInv
<1> QED BY <1>2, <1>3, <1>4, <1>5 DEF Mutex_Unlock

LEMMA StepKeepsPriInv ==
    ASSUME ~SelfSuspend, MutexInv, MutexWaitInv, PriInv, OneAtATime', [MutexNext]_varsAndMutexes
    PROVE  PriInv'
<1>1. CASE Mutex_Create
  <2>1. PICK noErr \in Errors : mode \in {"boot", "task"} /\ Kernel_Create_Mutex(noErr)
    BY <1>1 DEF Mutex_Create, Running, Errors, MutexInv, Inv, VarTypes
  <2>2. PD' = PD /\ (mutex' = mutex \/ mutex' = Append(mutex, NewMutex))
    BY <2>1 DEF Kernel_Create_Mutex, Return, WriteThroughNull, mutexVars
  <2> QED BY <2>2, NothingIsFate, FatesKeepPriInv, CreateKeepsPriInv
<1>2. CASE \E m \in DestroyMutexArgs : Mutex_Destroy(m)
  <2>1. PD' = PD /\ mutex' = mutex
    BY <1>2, DestroyKeepsMutexInv
  <2> QED BY <2>1, NothingIsFate, FatesKeepPriInv
<1>3. CASE \E m \in 0..(MaxMutexID + 1) : Mutex_Lock(m) \/ Mutex_Unlock(m)
  BY <1>3, LockKeepsPriInv, UnlockKeepsPriInv
<1>4. CASE [Next]_vars /\ UNCHANGED mutexVars
  <2>1. Fates
    BY <1>4, NextFates DEF MutexInv
  <2> QED BY <1>4, <2>1, FatesKeepPriInv DEF mutexVars
<1> QED BY <1>1, <1>2, <1>3, <1>4 DEF MutexNext, MutexCall, varsAndMutexes

LEMMA InitEstablishesPriInv == MutexInit => PriInv
  BY DEF MutexInit, Init, PriInv

LEMMA FewMutexes ==
    ASSUME MutexInv, DOMAIN mutex \subseteq 1..MaxMutexID, MutexFates
    PROVE  DOMAIN mutex' \subseteq 1..MaxMutexID
<1>1. CASE DOMAIN mutex' = DOMAIN mutex
  BY <1>1
<1>2. CASE Len(mutex) < MaxMutexID /\ mutex' = Append(mutex, NewMutex)
  <2>1. mutex \in Seq(MutexType) /\ NewMutex \in MutexType
    BY ConfigAssumption DEF MutexInv, MutexesOK, NewMutex, MutexType
  <2>2. DOMAIN mutex' = 1..(Len(mutex) + 1) /\ Len(mutex) \in Nat
    BY <1>2, <2>1, AppendProperties, LenProperties
  <2> QED BY <1>2, <2>2, MutexAssumption
<1> QED BY <1>1, <1>2 DEF MutexFates, MutexOutcome, LockOutcome, UnlockOutcome, MutexBecame

\* A task that has no mutex and waits for none has the priority it was created
\* with: what it was lent it gives back with the mutex, as long as no task has or
\* waits for two mutexes at a time.  With two, the priority lent on account of
\* the one can be taken for its own when it takes the other.
THEOREM PriorityIsRestored ==
    ASSUME ~SelfSuspend, FreshTimeouts \subseteq {0}
    PROVE  MutexSpec /\ []OneAtATime => []PriorityRestored
<1>1. MutexInit => MutexInv /\ MutexWaitInv /\ PriInv
  BY MutexInitEstablishes, InitEstablishesWaitInv, InitEstablishesPriInv
<1>2. MutexInv /\ MutexWaitInv /\ PriInv /\ OneAtATime' /\ [MutexNext]_varsAndMutexes
        => (MutexInv /\ MutexWaitInv /\ PriInv)'
  BY MutexStep, StepKeepsMutexWaitInv, StepKeepsPriInv
<1> QED BY <1>1, <1>2, PriInvImplies, PTL DEF MutexSpec

\* With a single mutex that is always so.
THEOREM OnlyMutexIsRestored ==
    ASSUME ~SelfSuspend, FreshTimeouts \subseteq {0}, MaxMutexID = 1
    PROVE  MutexSpec => []PriorityRestored
<1> DEFINE Few == DOMAIN mutex \subseteq 1..MaxMutexID
<1>1. MutexInit => Few
  BY DEF MutexInit
<1>2. MutexInv /\ Few /\ [MutexNext]_varsAndMutexes => Few'
  BY MutexStep, FewMutexes
<1>3. Few => OneAtATime
  BY DEF OneAtATime, Owned, MutexQueued
<1> HIDE DEF Few
<1> QED BY <1>1, <1>2, <1>3, MutexInvariance, PriorityIsRestored, PTL DEF MutexSpec

=============================================================================
