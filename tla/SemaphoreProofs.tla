--------------------------- MODULE SemaphoreProofs ---------------------------
(***************************************************************************)
(* Theorems about Semaphore, for every value of its constants with         *)
(* Amounts \subseteq Nat: an amount of 2^15 or more is negative for the    *)
(* kernel.                                                                 *)
(***************************************************************************)
EXTENDS Semaphore, TimerProofs

-----------------------------------------------------------------------------
(* What the waiters of a queue need together.                              *)

\* Sums of the first k values of a function exist ...
LEMMA PartialSumsExist ==
    ASSUME NEW n \in Nat, NEW a \in [1..n -> Nat]
    PROVE  \E f \in [0..n -> Nat] : f[0] = 0 /\ \A j \in 1..n : f[j] = f[j - 1] + a[j]
<1> DEFINE Sums(m, f) == f[0] = 0 /\ \A j \in 1..m : f[j] = f[j - 1] + a[j]
           T == {m \in 0..n : ~\E f \in [0..n -> Nat] : Sums(m, f)}
<1>0. \A m \in 0..n : m \notin T => \E f \in [0..n -> Nat] : Sums(m, f)
  <2> HIDE DEF Sums
  <2> QED OBVIOUS
<1>1. CASE T = {}
  <2>1. n \in 0..n
    OBVIOUS
  <2> HIDE DEF T
  <2> QED BY <1>0, <1>1, <2>1
<1>2. CASE T # {}
  <2>1. PICK m \in T : \A l \in T : m <= l
    <3>1. T \subseteq Nat
      OBVIOUS
    <3> QED BY <1>2, <3>1, LeastElement
  <2>2. m \in 0..n /\ ~\E f \in [0..n -> Nat] : Sums(m, f)
    BY <2>1
  <2>3. m # 0
    <3> DEFINE zero == [j \in 0..n |-> 0]
    <3>1. zero \in [0..n -> Nat] /\ Sums(0, zero)
      OBVIOUS
    <3> QED BY <2>2, <3>1
  <2>4. m - 1 \in 0..n /\ m - 1 \notin T
    <3>1. m \in Nat /\ m - 1 \in 0..n /\ ~(m <= m - 1)
      BY <2>2, <2>3
    <3> HIDE DEF T
    <3> QED BY <2>1, <3>1
  <2>5. PICK f \in [0..n -> Nat] : Sums(m - 1, f)
    <3> HIDE DEF T, Sums
    <3> QED BY <1>0, <2>4
  <2> DEFINE g == [f EXCEPT ![m] = f[m - 1] + a[m]]
  <2>6. g \in [0..n -> Nat]
    <3>1. f[m - 1] \in Nat /\ a[m] \in Nat
      BY <2>2, <2>3, <2>4
    <3> QED BY <3>1
  <2>7. \A j \in 0..n : g[j] = IF j = m THEN f[m - 1] + a[m] ELSE f[j]
    OBVIOUS
  <2> HIDE DEF g
  <2>8. Sums(m, g)
    <3>1. g[0] = 0
      BY <2>2, <2>3, <2>5, <2>7
    <3>2. ASSUME NEW j \in 1..m PROVE g[j] = g[j - 1] + a[j]
      <4>1. j \in 0..n /\ j - 1 \in 0..n /\ j - 1 # m
        BY <2>2
      <4>2. j # m => j \in 1..(m - 1)
        BY <2>2
      <4> QED BY <2>5, <2>7, <4>1, <4>2
    <3> QED BY <3>1, <3>2
  <2> QED BY <2>2, <2>6, <2>8
<1> QED BY <1>1, <1>2

\* ... so what the first k waiters of a queue need is what its definition says.
LEMMA NeedFacts ==
    ASSUME NEW q \in Seq(0..MaxPid), amount' \in [0..MaxPid -> Nat]
    PROVE  /\ \A k \in 0..Len(q) : Need(q, k) \in Nat
           /\ \A k \in 0..(Len(q) - 1) : Need(q, k + 1) = Need(q, k) + amount'[q[k + 1]]
           /\ Need(q, 0) = 0
<1> DEFINE n == Len(q)
           a == [j \in 1..n |-> amount'[q[j]]]
           Is(f) == f = [j \in 0..n |-> IF j = 0 THEN 0 ELSE f[j - 1] + amount'[q[j]]]
           need == CHOOSE f : Is(f)
<1>1. n \in Nat /\ DOMAIN q = 1..n /\ \A j \in 1..n : q[j] \in 0..MaxPid
  BY LenProperties, ElementOfSeq
<1>2. \A k : Need(q, k) = need[k]
  BY DEF Need
<1>3. a \in [1..n -> Nat]
  BY <1>1
<1> HIDE DEF n
<1>4. PICK f \in [0..n -> Nat] : f[0] = 0 /\ \A j \in 1..n : f[j] = f[j - 1] + a[j]
  <2> HIDE DEF a
  <2> QED BY <1>1, <1>3, PartialSumsExist
<1>5. Is(f)
  <2> DEFINE h == [j \in 0..n |-> IF j = 0 THEN 0 ELSE f[j - 1] + amount'[q[j]]]
  <2>1. \A j \in 0..n : f[j] = h[j]
    BY <1>1, <1>4
  <2>2. DOMAIN h = DOMAIN f /\ f = [j \in 0..n |-> f[j]] /\ h = [j \in 0..n |-> h[j]]
    BY <1>4
  <2> HIDE DEF h
  <2>3. f = h
    BY <2>1, <2>2
  <2> QED BY <2>3 DEF h
<1>6. Is(need)
  <2> HIDE DEF Is
  <2> QED BY <1>5
<1> HIDE DEF need
<1>7. need[0] = 0 /\ \A j \in 1..n : need[j] = need[j - 1] + amount'[q[j]]
  BY <1>1, <1>6
<1> HIDE DEF Is
<1>8. ASSUME NEW k \in 0..n PROVE need[k] \in Nat
  <2> DEFINE T == {j \in 0..n : need[j] \notin Nat}
  <2>1. CASE T = {}
    BY <2>1
  <2>2. CASE T # {}
    <3>1. PICK m \in T : \A l \in T : m <= l
      <4>1. T \subseteq Nat
        OBVIOUS
      <4> QED BY <2>2, <4>1, LeastElement
    <3>2. m # 0
      BY <1>7, <3>1
    <3>3. m \in 1..n /\ m - 1 \in 0..n /\ m - 1 \notin T
      BY <1>1, <3>1, <3>2
    <3>4. need[m - 1] \in Nat /\ amount'[q[m]] \in Nat
      BY <1>1, <3>3
    <3>5. need[m] \in Nat
      BY <1>7, <3>3, <3>4
    <3> QED BY <3>1, <3>5
  <2> QED BY <2>1, <2>2
<1>9. ASSUME NEW k \in 0..(n - 1) PROVE need[k + 1] = need[k] + amount'[q[k + 1]]
  BY <1>1, <1>7
<1> QED BY <1>2, <1>7, <1>8, <1>9 DEF n

-----------------------------------------------------------------------------
(* The semaphore objects.                                                  *)

\* One object, when the processes are those of tasks.
ObjectOK(x, tasks) ==
    /\ x \in SemaphoreType
    /\ x.is_binary => x.count <= 1
    /\ ToSet(x.wait_queue) \subseteq tasks

ObjectsOK ==
    /\ SemaphoreList \in Seq(DOMAIN semaphore)
    /\ semaphore \in Seq(SemaphoreType)
    /\ \A s \in DOMAIN semaphore : ObjectOK(semaphore[s], DOMAIN PD)

AmountsOK == amount \in [0..MaxPid -> Nat]

SemaphoreInv == Inv /\ ObjectsOK /\ AmountsOK

\* The invariant is strong enough for the types.
LEMMA SemaphoreInvImplies == SemaphoreInv => SemaphoreTypeOK
<1> SUFFICES ASSUME SemaphoreInv PROVE SemaphoreTypeOK
  OBVIOUS
<1>1. TypeOK
  BY InvImplies DEF SemaphoreInv
<1>2. amount \in [0..MaxPid -> Int]
  BY DEF SemaphoreInv, AmountsOK
<1> QED BY <1>1, <1>2 DEF SemaphoreInv, ObjectsOK, ObjectOK, SemaphoreTypeOK

\* More processes and fewer listed objects do not disturb them.
LEMMA ObjectsKept ==
    ASSUME ObjectsOK, DOMAIN PD \subseteq DOMAIN PD', UNCHANGED <<SemaphoreList, semaphore>>
    PROVE  ObjectsOK'
  BY DEF ObjectsOK, ObjectOK

\* One object is replaced.
LEMMA ObjectReplaced ==
    ASSUME ObjectsOK, DOMAIN PD \subseteq DOMAIN PD', UNCHANGED SemaphoreList,
           NEW s \in DOMAIN semaphore, NEW x, ObjectOK(x, DOMAIN PD'),
           semaphore' = [semaphore EXCEPT ![s] = x]
    PROVE  ObjectsOK'
<1>1. x \in SemaphoreType /\ semaphore \in Seq(SemaphoreType)
  BY DEF ObjectsOK, ObjectOK
<1>2. semaphore' \in Seq(SemaphoreType) /\ DOMAIN semaphore' = DOMAIN semaphore
  BY <1>1, ExceptSeq
<1>3. \A r \in DOMAIN semaphore : semaphore'[r] = IF r = s THEN x ELSE semaphore[r]
  OBVIOUS
<1>4. \A r \in DOMAIN semaphore : ObjectOK(semaphore[r], DOMAIN PD')
  BY DEF ObjectsOK, ObjectOK
<1>5. \A r \in DOMAIN semaphore' : ObjectOK(semaphore'[r], DOMAIN PD')
  BY <1>2, <1>3, <1>4
<1> QED BY <1>2, <1>5 DEF ObjectsOK

\* The id of an object on the list is that of an object.
LEMMA ExistsFacts ==
    ASSUME SemaphoreInv, NEW s, Exists(s)
    PROVE  /\ s \in DOMAIN semaphore /\ semaphore[s] \in SemaphoreType
           /\ ObjectOK(semaphore[s], DOMAIN PD)
           /\ semaphore[s].wait_queue \in Seq(Nat) /\ semaphore[s].count \in Int
           /\ semaphore[s].is_binary \in BOOLEAN
<1>1. s \in DOMAIN semaphore
  BY ElementOfSeq, LenProperties DEF Exists, ToSet, SemaphoreInv, ObjectsOK
<1> QED BY <1>1 DEF SemaphoreInv, ObjectsOK, ObjectOK, SemaphoreType

-----------------------------------------------------------------------------
(* What a step can do to the objects: everything a proof about them needs. *)

\* What a call did to semaphore s, and to no other.
Became(s, count, wait_queue) ==
    /\ DOMAIN semaphore' = DOMAIN semaphore
    /\ \A r \in DOMAIN semaphore : r # s => semaphore'[r] = semaphore[r]
    /\ semaphore'[s].count = count
    /\ semaphore'[s].wait_queue = wait_queue
    /\ semaphore'[s].is_binary = semaphore[s].is_binary

\* The k tasks at the head of queue q are made READY.
Woken(q, k) ==
    [p \in DOMAIN PD |-> IF \E j \in 1..k : q[j] = p
                         THEN [PD[p] EXCEPT !.state = "READY"] ELSE PD[p]]

Got(s, n) ==
    /\ HasEnough(s, Asked(s, n)) /\ PD' = PD
    /\ Became(s, semaphore[s].count - Asked(s, n), semaphore[s].wait_queue)

Joined(s, n) ==
    /\ ~HasEnough(s, Asked(s, n)) /\ amount'[Current_Process] = Asked(s, n)
    /\ Became(s, semaphore[s].count, Append(semaphore[s].wait_queue, Current_Process))
    /\ Moved(Current_Process, "WAIT_SEMAPHORE") /\ OthersAge({Current_Process})

GaveToNobody(s, n) ==
    /\ ~MayServe(s, n) /\ PD' = PD
    /\ Became(s, Given(s, n), semaphore[s].wait_queue)

GaveToWaiters(s, n) ==
    LET q == semaphore[s].wait_queue
    IN \E k \in 0..Len(q) :
          /\ MayServe(s, n) /\ Serves(Given(s, n), q, k)
          /\ PD' = Woken(q, k)
          /\ Became(s, Given(s, n) - Need(q, k), SubSeq(q, k + 1, Len(q)))

\* The outcomes of Semaphore_Get and Semaphore_Give that concern an object.
Outcome(s, n) == Got(s, n) \/ Joined(s, n) \/ GaveToNobody(s, n) \/ GaveToWaiters(s, n)

\* Nobody but the running task changes an amount, and only its own.
OwnAmount ==
    \A p \in 0..MaxPid : amount'[p] = amount[p] \/ (Running /\ p = Current_Process)

\* The outcomes of any step.
SemaphoreFates ==
    /\ OwnAmount
    /\ \/ Fates /\ semaphore' = semaphore /\ ToSet(SemaphoreList') \subseteq ToSet(SemaphoreList)
       \/ /\ PD' = PD
          /\ \E c \in InitialCounts, b \in Binary :
                semaphore' = Append(semaphore, NewSemaphore(c, b))
          /\ ToSet(SemaphoreList') = ToSet(SemaphoreList) \cup {Len(semaphore) + 1}
       \/ /\ Running /\ SemaphoreList' = SemaphoreList
          /\ \E s \in ToSet(SemaphoreList), n \in Nat : s \in DOMAIN semaphore /\ Outcome(s, n)

\* The caller speaks.
LEMMA ArgumentFacts ==
    ASSUME SemaphoreInv, Running, NEW n \in Nat, Argument(n)
    PROVE  AmountsOK' /\ OwnAmount /\ amount'[Current_Process] = n
<1>1. Current_Process \in 0..MaxPid
  BY CallFacts, EnvironmentAssumption DEF SemaphoreInv
<1> QED BY <1>1 DEF Argument, SemaphoreInv, AmountsOK, OwnAmount

LEMMA SilenceFacts ==
    ASSUME SemaphoreInv, UNCHANGED amount
    PROVE  AmountsOK' /\ OwnAmount
  BY DEF SemaphoreInv, AmountsOK, OwnAmount

\* A call that changes neither a descriptor nor an object.
LEMMA RefusalKeepsSemaphores ==
    ASSUME SemaphoreInv, mode \in {"boot", "task"}, NEW error \in Errors,
           Return(error, PD), UNCHANGED <<ProcessList, SemaphoreList, semaphore>>,
           AmountsOK', OwnAmount
    PROVE  SemaphoreInv' /\ SemaphoreFates
<1>1. Inv' /\ PD' = PD
  BY RefusalKeepsInv DEF SemaphoreInv, Return
<1>2. ObjectsOK'
  BY <1>1, ObjectsKept DEF SemaphoreInv
<1> QED BY <1>1, <1>2, NothingIsFate DEF SemaphoreInv, SemaphoreFates

\* A call that ends in undefined behaviour before it has changed an object.
LEMMA StopKeepsSemaphores ==
    ASSUME SemaphoreInv, mode' = "halted",
           UNCHANGED <<PD, ProcessList, sched, SemaphoreList, semaphore>>,
           err' \in Errors, AmountsOK', OwnAmount
    PROVE  SemaphoreInv' /\ SemaphoreFates
<1>1. Inv' /\ PD' = PD
  BY StopKeepsInv DEF SemaphoreInv
<1>2. ObjectsOK'
  BY <1>1, ObjectsKept DEF SemaphoreInv
<1> QED BY <1>1, <1>2, NothingIsFate DEF SemaphoreInv, SemaphoreFates

LEMMA ThroughNullKeepsSemaphores ==
    ASSUME SemaphoreInv, WriteThroughNull, UNCHANGED <<SemaphoreList, semaphore>>,
           AmountsOK', OwnAmount
    PROVE  SemaphoreInv' /\ SemaphoreFates
<1>1. err' \in Errors
  BY DEF WriteThroughNull, SemaphoreInv, Inv, VarTypes
<1> QED BY <1>1, StopKeepsSemaphores DEF WriteThroughNull

LEMMA NotFoundKeepsSemaphores ==
    ASSUME SemaphoreInv, Running, NEW s, NotFound(s), AmountsOK', OwnAmount
    PROVE  SemaphoreInv' /\ SemaphoreFates
<1>1. mode \in {"boot", "task"} /\ "OBJECT_NOT_FOUND_ERR" \in Errors
  BY DEF Running, Errors
<1> QED BY <1>1, RefusalKeepsSemaphores DEF NotFound

\* A new semaphore has its count, at most 1 when it is binary, and no waiters.
LEMMA CreateKeepsSemaphores ==
    ASSUME SemaphoreInv, mode \in {"boot", "task"}, NEW c \in InitialCounts, NEW b \in Binary,
           NEW noErr \in Errors, Kernel_Create_Semaphore_Direct(c, b, noErr),
           AmountsOK', OwnAmount
    PROVE  SemaphoreInv' /\ SemaphoreFates
<1>1. CASE Return("MAX_OBJECT_ERR", PD) /\ UNCHANGED <<ProcessList, SemaphoreList, semaphore>>
  <2>1. "MAX_OBJECT_ERR" \in Errors
    BY DEF Errors
  <2> QED BY <1>1, <2>1, RefusalKeepsSemaphores
<1>2. CASE WriteThroughNull /\ UNCHANGED <<SemaphoreList, semaphore>>
  BY <1>2, ThroughNullKeepsSemaphores
<1>3. CASE /\ Return(noErr, PD) /\ UNCHANGED ProcessList
           /\ semaphore' = Append(semaphore, NewSemaphore(c, b))
           /\ SemaphoreList' = Append(SemaphoreList, Last_SemaphoreID + 1)
  <2> DEFINE n == Len(semaphore)
             x == NewSemaphore(c, b)
  <2>1. Inv' /\ PD' = PD
    BY <1>3, RefusalKeepsInv DEF SemaphoreInv, Return
  <2>2. /\ semaphore \in Seq(SemaphoreType) /\ SemaphoreList \in Seq(DOMAIN semaphore)
        /\ n \in Nat /\ DOMAIN semaphore = 1..n
    BY LenProperties DEF SemaphoreInv, ObjectsOK
  <2>3. x \in SemaphoreType /\ \A tasks : ObjectOK(x, tasks)
    <3>1. c \in Int /\ b \in BOOLEAN /\ <<>> \in Seq(Nat) /\ ToSet(<<>>) = {}
      BY SemaphoreAssumption DEF ToSet
    <3> QED BY <3>1 DEF NewSemaphore, SemaphoreType, ObjectOK
  <2> HIDE DEF x
  <2>4. /\ semaphore' \in Seq(SemaphoreType) /\ DOMAIN semaphore' = 1..(n + 1)
        /\ semaphore'[n + 1] = x /\ \A s \in 1..n : semaphore'[s] = semaphore[s]
    <3>1. n = Len(semaphore) /\ semaphore' = Append(semaphore, x)
      BY <1>3 DEF x
    <3> HIDE DEF n
    <3> QED BY <2>2, <2>3, <3>1, AppendProperties, LenProperties
  <2>5. /\ SemaphoreList' \in Seq(DOMAIN semaphore')
        /\ ToSet(SemaphoreList') = ToSet(SemaphoreList) \cup {n + 1}
    <3>1. SemaphoreList \in Seq(DOMAIN semaphore')
      BY <2>2, <2>4, SeqMonotonic
    <3>2. n + 1 \in DOMAIN semaphore' /\ SemaphoreList' = Append(SemaphoreList, n + 1)
      BY <1>3, <2>2, <2>4 DEF Last_SemaphoreID
    <3> HIDE DEF n
    <3>3. /\ SemaphoreList' \in Seq(DOMAIN semaphore')
          /\ Len(SemaphoreList') = Len(SemaphoreList) + 1 /\ Len(SemaphoreList) \in Nat
          /\ SemaphoreList'[Len(SemaphoreList) + 1] = n + 1
          /\ \A i \in 1..Len(SemaphoreList) : SemaphoreList'[i] = SemaphoreList[i]
      BY <3>1, <3>2, AppendProperties, LenProperties
    <3>4. /\ DOMAIN SemaphoreList' = 1..(Len(SemaphoreList) + 1)
          /\ DOMAIN SemaphoreList = 1..Len(SemaphoreList)
      BY <3>1, <3>3, LenProperties
    <3> QED BY <3>3, <3>4 DEF ToSet
  <2>6. \A s \in DOMAIN semaphore' : ObjectOK(semaphore'[s], DOMAIN PD)
    <3> SUFFICES ASSUME NEW s \in DOMAIN semaphore' PROVE ObjectOK(semaphore'[s], DOMAIN PD)
      OBVIOUS
    <3>1. CASE s = n + 1
      BY <3>1, <2>3, <2>4
    <3>2. CASE s # n + 1
      BY <3>2, <2>2, <2>4 DEF SemaphoreInv, ObjectsOK
    <3> QED BY <3>1, <3>2
  <2>7. ObjectsOK'
    BY <2>1, <2>4, <2>5, <2>6 DEF ObjectsOK
  <2> QED BY <1>3, <2>1, <2>5, <2>7 DEF SemaphoreInv, SemaphoreFates
<1> QED BY <1>1, <1>2, <1>3 DEF Kernel_Create_Semaphore_Direct

\* A new object comes after the others, which stay as they are.
LEMMA NewObject ==
    ASSUME SemaphoreInv, NEW c \in InitialCounts, NEW b \in Binary,
           semaphore' = Append(semaphore, NewSemaphore(c, b))
    PROVE  LET n == Len(semaphore) + 1
           IN /\ DOMAIN semaphore' = DOMAIN semaphore \cup {n} /\ n \notin DOMAIN semaphore
              /\ semaphore'[n] = NewSemaphore(c, b)
              /\ semaphore'[n].wait_queue = <<>>
              /\ c >= 0 => semaphore'[n].count >= 0
              /\ \A s \in DOMAIN semaphore : semaphore'[s] = semaphore[s]
<1> DEFINE m == Len(semaphore)
           x == NewSemaphore(c, b)
<1>1. semaphore \in Seq(SemaphoreType) /\ m \in Nat /\ DOMAIN semaphore = 1..m
  BY LenProperties DEF SemaphoreInv, ObjectsOK
<1>2. /\ x \in SemaphoreType /\ x.wait_queue = <<>>
      /\ c >= 0 => x.count >= 0
  <2>1. c \in Int /\ b \in BOOLEAN
    BY SemaphoreAssumption
  <2> QED BY <2>1 DEF NewSemaphore, SemaphoreType
<1> HIDE DEF x
<1>3. /\ DOMAIN semaphore' = 1..(m + 1) /\ semaphore'[m + 1] = x
      /\ \A s \in 1..m : semaphore'[s] = semaphore[s]
  <2>1. m = Len(semaphore) /\ semaphore' = Append(semaphore, x)
    BY DEF x
  <2> HIDE DEF m
  <2> QED BY <1>1, <1>2, <2>1, AppendProperties, LenProperties
<1>4. 1..(m + 1) = 1..m \cup {m + 1} /\ m + 1 \notin 1..m
  BY <1>1
<1>5. semaphore'[m + 1] = NewSemaphore(c, b)
  BY <1>3 DEF x
<1> QED BY <1>1, <1>2, <1>3, <1>4, <1>5

\* A destroyed semaphore is off the list, and keeps its contents.
LEMMA DestroyKeepsSemaphores ==
    ASSUME SemaphoreInv, NEW s, Semaphore_Destroy(s)
    PROVE  SemaphoreInv' /\ SemaphoreFates
<1>0. /\ Running /\ mode \in {"boot", "task"} /\ UNCHANGED ProcessList
      /\ "NO_ERR" \in Errors /\ "OBJECT_NOT_FOUND_ERR" \in Errors
  BY DEF Semaphore_Destroy, Running, Errors
<1>1. UNCHANGED amount /\ AmountsOK' /\ OwnAmount
  BY SilenceFacts DEF Semaphore_Destroy, semVars
<1>2. CASE Return("OBJECT_NOT_FOUND_ERR", PD) /\ UNCHANGED semVars
  BY <1>0, <1>1, <1>2, RefusalKeepsSemaphores DEF semVars
<1>3. CASE /\ Return("NO_ERR", PD) /\ UNCHANGED semaphore
           /\ \E i \in DOMAIN SemaphoreList : SemaphoreList' = RemoveAt(SemaphoreList, i)
  <2>1. Inv' /\ PD' = PD
    BY <1>0, <1>3, RefusalKeepsInv DEF SemaphoreInv, Return
  <2>2. SemaphoreList \in Seq(DOMAIN semaphore)
    BY DEF SemaphoreInv, ObjectsOK
  <2>3. PICK i \in 1..Len(SemaphoreList) : SemaphoreList' = RemoveAt(SemaphoreList, i)
    BY <1>3, <2>2, LenProperties
  <2> DEFINE n == Len(SemaphoreList)
  <2>4. /\ SemaphoreList' \in Seq(DOMAIN semaphore) /\ Len(SemaphoreList') = n - 1
        /\ \A j \in 1..(n - 1) :
              SemaphoreList'[j] = IF j < i THEN SemaphoreList[j] ELSE SemaphoreList[j + 1]
    BY <2>2, <2>3, RemoveAtFacts
  <2>5. n \in Nat /\ DOMAIN SemaphoreList = 1..n /\ DOMAIN SemaphoreList' = 1..(n - 1)
    BY <2>2, <2>4, LenProperties
  <2>6. ToSet(SemaphoreList') \subseteq ToSet(SemaphoreList)
    <3> HIDE DEF n
    <3>1. ASSUME NEW j \in 1..(n - 1)
          PROVE  \E k \in 1..n : SemaphoreList'[j] = SemaphoreList[k]
      <4>1. j \in 1..n /\ j + 1 \in 1..n
        BY <2>5
      <4> QED BY <2>4, <4>1
    <3> QED BY <2>5, <3>1 DEF ToSet
  <2>7. ObjectsOK'
    BY <1>3, <2>1, <2>4 DEF SemaphoreInv, ObjectsOK, ObjectOK
  <2> QED BY <1>1, <1>3, <2>1, <2>6, <2>7, NothingIsFate DEF SemaphoreInv, SemaphoreFates
<1>4. CASE err' = "NO_ERR" /\ mode' = "halted" /\ UNCHANGED <<PD, sched, semVars>>
  BY <1>0, <1>1, <1>4, StopKeepsSemaphores DEF semVars
<1> QED BY <1>2, <1>3, <1>4 DEF Semaphore_Destroy

-----------------------------------------------------------------------------
(* Getting and giving.                                                     *)

\* The queue of an object with one more at its end.
LEMMA AppendFacts ==
    ASSUME NEW q \in Seq(Nat), NEW x \in Nat
    PROVE  /\ Append(q, x) \in Seq(Nat) /\ Len(q) \in Nat /\ Len(Append(q, x)) = Len(q) + 1
           /\ DOMAIN Append(q, x) = 1..(Len(q) + 1) /\ DOMAIN q = 1..Len(q)
           /\ Append(q, x)[Len(q) + 1] = x
           /\ \A i \in 1..Len(q) : Append(q, x)[i] = q[i]
           /\ ToSet(Append(q, x)) = ToSet(q) \cup {x}
<1>1. /\ Append(q, x) \in Seq(Nat) /\ Len(Append(q, x)) = Len(q) + 1 /\ Len(q) \in Nat
      /\ Append(q, x)[Len(q) + 1] = x
      /\ \A i \in 1..Len(q) : Append(q, x)[i] = q[i]
  BY AppendProperties, LenProperties
<1>2. DOMAIN Append(q, x) = 1..(Len(q) + 1) /\ DOMAIN q = 1..Len(q)
  BY <1>1, LenProperties
<1>3. ToSet(Append(q, x)) = ToSet(q) \cup {x}
  BY <1>1, <1>2 DEF ToSet
<1> QED BY <1>1, <1>2, <1>3

\* The queue without its first k elements.
LEMMA RestFacts ==
    ASSUME NEW q \in Seq(Nat), NEW k \in 0..Len(q)
    PROVE  LET r == SubSeq(q, k + 1, Len(q))
           IN /\ r \in Seq(Nat) /\ Len(q) \in Nat /\ Len(r) = Len(q) - k
              /\ DOMAIN r = 1..(Len(q) - k) /\ DOMAIN q = 1..Len(q)
              /\ \A i \in 1..(Len(q) - k) : r[i] = q[k + i]
              /\ ToSet(r) \subseteq ToSet(q)
<1> DEFINE n == Len(q)
           r == SubSeq(q, k + 1, n)
<1>1. n \in Nat /\ DOMAIN q = 1..n
  BY LenProperties
<1>2. r \in Seq(Nat) /\ Len(r) = n - k /\ \A i \in 1..(n - k) : r[i] = q[k + i]
  <2>1. \A i \in (k + 1)..n : q[i] \in Nat
    BY <1>1, ElementOfSeq
  <2>2. k + 1 \in Int /\ n \in Int /\ k + 1 <= n + 1
    BY <1>1
  <2>3. \A i \in 1..(n - k) : (k + 1) + i - 1 = k + i
    BY <1>1
  <2> HIDE DEF n
  <2>4. /\ r \in Seq(Nat) /\ Len(r) = (IF k + 1 <= n THEN n - (k + 1) + 1 ELSE 0)
        /\ \A i \in 1..(n - (k + 1) + 1) : r[i] = q[(k + 1) + i - 1]
    BY <2>1, <2>2, SubSeqProperties
  <2>5. n - (k + 1) + 1 = n - k /\ (IF k + 1 <= n THEN n - (k + 1) + 1 ELSE 0) = n - k
    BY <1>1, <2>2
  <2> HIDE DEF r
  <2> QED BY <2>3, <2>4, <2>5
<1>3. DOMAIN r = 1..(n - k)
  BY <1>2, LenProperties
<1> HIDE DEF r, n
<1>4. ToSet(r) \subseteq ToSet(q)
  <2>1. \A i \in 1..(n - k) : k + i \in 1..n
    BY <1>1
  <2> QED BY <1>1, <1>2, <1>3, <2>1 DEF ToSet
<1> QED BY <1>1, <1>2, <1>3, <1>4 DEF n, r

\* One object is replaced by x.
LEMMA ReplacedBecomes ==
    ASSUME NEW s \in DOMAIN semaphore, NEW x \in SemaphoreType,
           x.is_binary = semaphore[s].is_binary, semaphore' = [semaphore EXCEPT ![s] = x]
    PROVE  Became(s, x.count, x.wait_queue)
  BY DEF Became

\* A request of a natural number stays one.
LEMMA AskedFacts ==
    ASSUME NEW s, NEW n \in Nat, semaphore[s].is_binary \in BOOLEAN
    PROVE  Asked(s, n) \in Nat
  BY DEF Asked

\* The counts are there: the call returns with them.
LEMMA GotEffect ==
    ASSUME SemaphoreInv, Running, NEW s, Exists(s), NEW n \in Nat,
           Argument(Asked(s, n)), HasEnough(s, Asked(s, n)),
           semaphore' = [semaphore EXCEPT ![s].count = @ - Asked(s, n)],
           Return("NO_ERR", PD), UNCHANGED <<ProcessList, SemaphoreList>>
    PROVE  /\ SemaphoreInv' /\ SemaphoreFates
           /\ Got(s, n) /\ amount'[Current_Process] = Asked(s, n)
<1> DEFINE a == Asked(s, n)
           x == [semaphore[s] EXCEPT !.count = @ - a]
<1>1. /\ s \in DOMAIN semaphore /\ semaphore[s] \in SemaphoreType
      /\ ObjectOK(semaphore[s], DOMAIN PD) /\ semaphore[s].count \in Int
      /\ semaphore[s].is_binary \in BOOLEAN
  BY ExistsFacts
<1>2. a \in Nat
  BY <1>1, AskedFacts
<1>3. AmountsOK' /\ OwnAmount /\ amount'[Current_Process] = a
  BY <1>2, ArgumentFacts
<1>4. Inv' /\ PD' = PD
  <2>1. "NO_ERR" \in Errors /\ mode \in {"boot", "task"}
    BY DEF Errors, Running
  <2> QED BY <2>1, RefusalKeepsInv DEF SemaphoreInv, Return
<1>5. semaphore' = [semaphore EXCEPT ![s] = x]
  BY <1>1 DEF SemaphoreType
<1> HIDE DEF a
<1>6. /\ x \in SemaphoreType /\ x.count = semaphore[s].count - a
      /\ x.is_binary = semaphore[s].is_binary /\ x.wait_queue = semaphore[s].wait_queue
  BY <1>1, <1>2 DEF SemaphoreType
<1> HIDE DEF x
<1>7. ObjectOK(x, DOMAIN PD)
  BY <1>1, <1>2, <1>6 DEF ObjectOK
<1>8. ObjectsOK'
  BY <1>1, <1>4, <1>5, <1>7, ObjectReplaced DEF SemaphoreInv
<1>9. Got(s, n)
  BY <1>1, <1>4, <1>5, <1>6, ReplacedBecomes DEF Got, a
<1>10. s \in ToSet(SemaphoreList)
  BY DEF Exists
<1> QED BY <1>1, <1>3, <1>4, <1>8, <1>9, <1>10 DEF SemaphoreInv, SemaphoreFates, Outcome, a

\* They are not: the caller waits.
LEMMA JoinedEffect ==
    ASSUME SemaphoreInv, Running, NEW s, Exists(s), NEW n \in Nat,
           Argument(Asked(s, n)), ~HasEnough(s, Asked(s, n)),
           semaphore' = [semaphore EXCEPT ![s].wait_queue = Append(@, Current_Process)],
           Switch("NO_ERR", [PD EXCEPT ![Current_Process].state = "WAIT_SEMAPHORE"]),
           UNCHANGED <<ProcessList, SemaphoreList>>
    PROVE  SemaphoreInv' /\ SemaphoreFates /\ Joined(s, n)
<1> DEFINE c == Current_Process
           a == Asked(s, n)
           x == [semaphore[s] EXCEPT !.wait_queue = Append(@, c)]
           p == [PD[c] EXCEPT !.state = "WAIT_SEMAPHORE"]
<1>1. /\ s \in DOMAIN semaphore /\ semaphore[s] \in SemaphoreType
      /\ ObjectOK(semaphore[s], DOMAIN PD) /\ semaphore[s].wait_queue \in Seq(Nat)
      /\ semaphore[s].is_binary \in BOOLEAN
  BY ExistsFacts
<1>2. a \in Nat
  BY <1>1, AskedFacts
<1>3. AmountsOK' /\ OwnAmount /\ amount'[c] = a
  BY <1>2, ArgumentFacts
<1>4. /\ c \in DOMAIN PD /\ c \in Nat /\ PD[c] \in Process /\ PD[c].state # "DEAD"
  BY CallFacts, ElementOfSeq DEF SemaphoreInv, Table
<1>5. /\ p \in Process /\ p.state = "WAIT_SEMAPHORE"
      /\ p.request_timeout = PD[c].request_timeout
  BY <1>4 DEF Process, States
<1>6. Switch("NO_ERR", [PD EXCEPT ![c] = p])
  BY <1>4 DEF Process
<1>7. semaphore' = [semaphore EXCEPT ![s] = x]
  BY <1>1 DEF SemaphoreType
<1>8. /\ Append(semaphore[s].wait_queue, c) \in Seq(Nat)
      /\ ToSet(Append(semaphore[s].wait_queue, c)) = ToSet(semaphore[s].wait_queue) \cup {c}
  <2> HIDE DEF c
  <2> QED BY <1>1, <1>4, AppendFacts
<1> HIDE DEF c, p, a
<1>9. Inv' /\ Aged(p, PD'[c]) /\ OthersAge({c})
  BY <1>4, <1>5, <1>6, SwitchMoves DEF SemaphoreInv
<1>10. Moved(c, "WAIT_SEMAPHORE")
  BY <1>5, <1>9 DEF Moved
<1>11. /\ x \in SemaphoreType /\ x.count = semaphore[s].count
       /\ x.is_binary = semaphore[s].is_binary
       /\ x.wait_queue = Append(semaphore[s].wait_queue, c)
  BY <1>1, <1>8 DEF SemaphoreType
<1> HIDE DEF x
<1>12. ObjectOK(x, DOMAIN PD)
  BY <1>1, <1>4, <1>8, <1>11 DEF ObjectOK
<1>13. ObjectsOK'
  BY <1>1, <1>7, <1>9, <1>12, ObjectReplaced DEF SemaphoreInv, OthersAge
<1>14. Joined(s, n)
  BY <1>1, <1>3, <1>7, <1>9, <1>10, <1>11, ReplacedBecomes DEF Joined, a, c
<1>15. s \in ToSet(SemaphoreList)
  BY DEF Exists
<1> QED BY <1>1, <1>3, <1>9, <1>13, <1>14, <1>15 DEF SemaphoreInv, SemaphoreFates, Outcome

LEMMA GetKeepsSemaphores ==
    ASSUME SemaphoreInv, NEW s, NEW n \in Nat, Semaphore_Get(s, n)
    PROVE  /\ SemaphoreInv' /\ SemaphoreFates
           /\ Exists(s) => \/ mode' = "halted"
                           \/ Got(s, n) /\ amount'[Current_Process] = Asked(s, n)
                           \/ Joined(s, n)
<1>1. Running
  BY DEF Semaphore_Get
<1>2. CASE NotFound(s) /\ Argument(n)
  <2>1. SemaphoreInv' /\ SemaphoreFates
    BY <1>1, <1>2, ArgumentFacts, NotFoundKeepsSemaphores
  <2> QED BY <1>2, <2>1 DEF NotFound
<1>3. CASE Exists(s) /\ Argument(Asked(s, n))
  <2>1. Asked(s, n) \in Nat
    BY <1>3, ExistsFacts, AskedFacts
  <2>2. AmountsOK' /\ OwnAmount
    BY <1>1, <1>3, <2>1, ArgumentFacts
  <2>3. CASE WriteThroughNull /\ UNCHANGED <<SemaphoreList, semaphore>>
    BY <2>2, <2>3, ThroughNullKeepsSemaphores DEF WriteThroughNull
  <2>4. CASE ~(WriteThroughNull /\ UNCHANGED <<SemaphoreList, semaphore>>)
    BY <1>1, <1>3, <2>4, GotEffect, JoinedEffect DEF Semaphore_Get, NotFound
  <2> QED BY <2>3, <2>4
<1> QED BY <1>2, <1>3 DEF Semaphore_Get

\* What a semaphore has after a Semaphore_Give.
LEMMA GivenFacts ==
    ASSUME NEW s, NEW n \in Nat, semaphore[s].count \in Int, semaphore[s].is_binary \in BOOLEAN
    PROVE  /\ Given(s, n) \in Int
           /\ semaphore[s].is_binary => Given(s, n) <= 1
           /\ semaphore[s].count >= 0 => Given(s, n) >= 0
  BY DEF Given

\* Nobody waits, or there is nothing to give yet.
LEMMA NobodyEffect ==
    ASSUME SemaphoreInv, Running, NEW s, Exists(s), NEW n \in Nat,
           AmountsOK', OwnAmount, ~MayServe(s, n),
           semaphore' = [semaphore EXCEPT ![s].count = Given(s, n)],
           Return("NO_ERR", PD), UNCHANGED <<ProcessList, SemaphoreList>>
    PROVE  SemaphoreInv' /\ SemaphoreFates /\ GaveToNobody(s, n)
<1> DEFINE g == Given(s, n)
           x == [semaphore[s] EXCEPT !.count = g]
<1>1. /\ s \in DOMAIN semaphore /\ semaphore[s] \in SemaphoreType
      /\ ObjectOK(semaphore[s], DOMAIN PD)
      /\ g \in Int /\ (semaphore[s].is_binary => g <= 1)
  BY ExistsFacts, GivenFacts
<1>2. Inv' /\ PD' = PD
  <2>1. "NO_ERR" \in Errors /\ mode \in {"boot", "task"}
    BY DEF Errors, Running
  <2> QED BY <2>1, RefusalKeepsInv DEF SemaphoreInv, Return
<1>3. semaphore' = [semaphore EXCEPT ![s] = x]
  BY <1>1 DEF SemaphoreType
<1> HIDE DEF g
<1>4. /\ x \in SemaphoreType /\ x.count = g /\ x.is_binary = semaphore[s].is_binary
      /\ x.wait_queue = semaphore[s].wait_queue
  BY <1>1 DEF SemaphoreType
<1> HIDE DEF x
<1>5. ObjectOK(x, DOMAIN PD)
  BY <1>1, <1>4 DEF ObjectOK
<1>6. ObjectsOK'
  BY <1>1, <1>2, <1>3, <1>5, ObjectReplaced DEF SemaphoreInv
<1>7. GaveToNobody(s, n)
  BY <1>1, <1>2, <1>3, <1>4, ReplacedBecomes DEF GaveToNobody, g
<1>8. s \in ToSet(SemaphoreList)
  BY DEF Exists
<1> QED BY <1>1, <1>2, <1>6, <1>7, <1>8 DEF SemaphoreInv, SemaphoreFates, Outcome

\* Waking tasks that wait keeps the table, and the caller is not one of them.
LEMMA WokenKeepsInv ==
    ASSUME SemaphoreInv, Running, UNCHANGED ProcessList,
           NEW q, NEW k, \A j \in 1..k : PD[q[j]].state = "WAIT_SEMAPHORE",
           NEW error \in Errors, Return(error, Woken(q, k))
    PROVE  Inv' /\ DOMAIN PD' = DOMAIN PD
<1> DEFINE f == Woken(q, k)
<1>1. f = [p \in DOMAIN PD |-> f[p]]
  BY DEF Woken
<1>2. ASSUME NEW p \in DOMAIN PD
      PROVE  /\ f[p] \in Process
             /\ f[p].state = "DEAD" <=> PD[p].state = "DEAD"
             /\ f[p].state = "SUSPENDED" => f[p].last_state \in {"READY", "SLEEPING"}
             /\ f[p].state = "RUNNING" => p = Current_Process
             /\ PD[p].state = "RUNNING" => f[p] = PD[p]
  <2>1. PD[p] \in Process
    BY ElementOfSeq, LenProperties DEF SemaphoreInv, Inv, Table
  <2>2. CASE \E j \in 1..k : q[j] = p
    <3>1. f[p] = [PD[p] EXCEPT !.state = "READY"] /\ PD[p].state = "WAIT_SEMAPHORE"
      BY <2>2 DEF Woken
    <3> QED BY <2>1, <3>1 DEF Process, States
  <2>3. CASE ~\E j \in 1..k : q[j] = p
    <3>1. f[p] = PD[p]
      BY <2>3 DEF Woken
    <3> QED BY <2>1, <3>1 DEF SemaphoreInv, Inv, Table, OnlyCurrentRuns
  <2> QED BY <2>2, <2>3
<1> HIDE DEF f
<1>3. Table(f, ProcessList) /\ DOMAIN f = DOMAIN PD /\ Len(f) = Len(PD)
  BY <1>1, <1>2, CallFacts, TableKept DEF SemaphoreInv
<1>4. OnlyCurrentRuns(f)
  BY <1>2, <1>3 DEF OnlyCurrentRuns
<1>5. CallerRuns => (~SelfSuspend /\ mode = "task" => f[Current_Process].state = "RUNNING")
  BY <1>2, CallFacts DEF SemaphoreInv, CallerRuns, CurrentIsRunning
<1>6. Return(error, f)
  BY DEF f
<1>7. Inv'
  BY <1>3, <1>4, <1>5, <1>6, CallFacts, ReturnKeepsInv DEF SemaphoreInv
<1> QED BY <1>3, <1>6, <1>7 DEF Return

\* What the waiters of an object need together.
LEMMA QueueNeeds ==
    ASSUME SemaphoreInv, AmountsOK', NEW s \in DOMAIN semaphore
    PROVE  LET q == semaphore[s].wait_queue
           IN /\ \A k \in 0..Len(q) : Need(q, k) \in Nat
              /\ \A k \in 0..(Len(q) - 1) : /\ Need(q, k + 1) = Need(q, k) + amount'[q[k + 1]]
                                            /\ amount'[q[k + 1]] \in Nat
              /\ Need(q, 0) = 0
<1> DEFINE q == semaphore[s].wait_queue
<1>1. q \in Seq(Nat) /\ \A i \in DOMAIN q : q[i] \in DOMAIN PD
  BY DEF SemaphoreInv, ObjectsOK, ObjectOK, SemaphoreType, ToSet
<1>2. DOMAIN PD \subseteq 0..MaxPid
  BY LenProperties, EnvironmentAssumption DEF SemaphoreInv, Inv, Table, VarTypes
<1>3. Len(q) \in Nat /\ DOMAIN q = 1..Len(q) /\ q = [i \in 1..Len(q) |-> q[i]]
  BY <1>1, LenProperties
<1> HIDE DEF q
<1>4. q \in [1..Len(q) -> 0..MaxPid]
  BY <1>1, <1>2, <1>3
<1>5. q \in Seq(0..MaxPid)
  BY <1>3, <1>4, SegmentIsSeq
<1>6. \A k \in 0..(Len(q) - 1) : amount'[q[k + 1]] \in Nat
  BY <1>3, <1>4 DEF AmountsOK
<1> QED BY <1>5, <1>6, NeedFacts DEF AmountsOK, q

\* The waiters at the head of the queue are served, as many as possible.
LEMMA WaitersEffect ==
    ASSUME SemaphoreInv, Running, NEW s, Exists(s), NEW n \in Nat,
           AmountsOK', OwnAmount, MayServe(s, n),
           Kernel_Semaphore_Get_From_Queue(s, Given(s, n)),
           UNCHANGED <<ProcessList, SemaphoreList>>
    PROVE  /\ SemaphoreInv' /\ SemaphoreFates
           /\ mode' = "halted" \/ GaveToWaiters(s, n)
<1> DEFINE g == Given(s, n)
           q == semaphore[s].wait_queue
<1>0. PICK k \in 0..Len(q) : \E outcome \in Outcomes(g, q, k) :
        /\ Serves(g, q, k)
        /\ IF outcome = "halted"
           THEN mode' = "halted" /\ UNCHANGED <<PD, sched, err, semaphore>>
           ELSE /\ semaphore' = [semaphore EXCEPT ![s].wait_queue = SubSeq(q, k + 1, Len(q)),
                                                  ![s].count = CountAfter(g, q, k)]
                /\ Return(outcome, Woken(q, k))
  BY DEF Kernel_Semaphore_Get_From_Queue, Woken
<1>1. PICK outcome \in Outcomes(g, q, k) :
        /\ Serves(g, q, k)
        /\ IF outcome = "halted"
           THEN mode' = "halted" /\ UNCHANGED <<PD, sched, err, semaphore>>
           ELSE /\ semaphore' = [semaphore EXCEPT ![s].wait_queue = SubSeq(q, k + 1, Len(q)),
                                                  ![s].count = CountAfter(g, q, k)]
                /\ Return(outcome, Woken(q, k))
  BY <1>0
<1>2. CASE outcome = "halted"
  <2>1. err' \in Errors
    BY <1>1, <1>2 DEF SemaphoreInv, Inv, VarTypes
  <2> QED BY <1>1, <1>2, <2>1, StopKeepsSemaphores
<1>3. CASE outcome # "halted"
  <2> DEFINE rest == SubSeq(q, k + 1, Len(q))
             left == CountAfter(g, q, k)
             x    == [semaphore[s] EXCEPT !.wait_queue = rest, !.count = left]
  <2>1. /\ s \in DOMAIN semaphore /\ semaphore[s] \in SemaphoreType
        /\ ObjectOK(semaphore[s], DOMAIN PD) /\ q \in Seq(Nat)
        /\ g \in Int /\ (semaphore[s].is_binary => g <= 1)
    BY ExistsFacts, GivenFacts
  <2>2. outcome \in Errors
    BY <1>3 DEF Outcomes, Errors
  <2>3. \A j \in 1..k : PD[q[j]].state = "WAIT_SEMAPHORE"
    BY <1>1 DEF Serves, StillWaits
  <2>4. semaphore' = [semaphore EXCEPT ![s] = x] /\ Return(outcome, Woken(q, k))
    BY <1>1, <1>3, <2>1 DEF SemaphoreType
  <2>5. Inv' /\ DOMAIN PD' = DOMAIN PD /\ PD' = Woken(q, k)
    BY <2>2, <2>3, <2>4, WokenKeepsInv DEF Return
  <2>6. rest \in Seq(Nat) /\ ToSet(rest) \subseteq ToSet(q)
    <3> HIDE DEF q
    <3> QED BY <2>1, RestFacts
  <2>7. left = g - Need(q, k) /\ Need(q, k) \in Nat
    BY <2>1, QueueNeeds DEF CountAfter
  <2> HIDE DEF rest, left, q, g
  <2>8. /\ x \in SemaphoreType /\ x.count = left /\ x.wait_queue = rest
        /\ x.is_binary = semaphore[s].is_binary
    <3>1. left \in Int
      BY <2>1, <2>7
    <3> QED BY <2>1, <2>6, <3>1 DEF SemaphoreType
  <2> HIDE DEF x
  <2>9. ObjectOK(x, DOMAIN PD)
    <3>1. ToSet(q) \subseteq DOMAIN PD
      BY <2>1 DEF ObjectOK, q
    <3> QED BY <2>1, <2>6, <2>7, <2>8, <3>1 DEF ObjectOK
  <2>10. ObjectsOK'
    BY <2>1, <2>4, <2>5, <2>9, ObjectReplaced DEF SemaphoreInv
  <2>11. Became(s, g - Need(q, k), SubSeq(q, k + 1, Len(q)))
    BY <2>1, <2>4, <2>7, <2>8, ReplacedBecomes DEF rest
  <2>12. GaveToWaiters(s, n)
    BY <1>1, <2>5, <2>11 DEF GaveToWaiters, q, g
  <2>13. s \in ToSet(SemaphoreList)
    BY DEF Exists
  <2> QED BY <2>1, <2>5, <2>10, <2>12, <2>13 DEF SemaphoreInv, SemaphoreFates, Outcome
<1> QED BY <1>2, <1>3

LEMMA GiveKeepsSemaphores ==
    ASSUME SemaphoreInv, NEW s, NEW n \in Nat, Semaphore_Give(s, n)
    PROVE  /\ SemaphoreInv' /\ SemaphoreFates
           /\ Exists(s) => mode' = "halted" \/ GaveToNobody(s, n) \/ GaveToWaiters(s, n)
<1>1. Running /\ Argument(n)
  BY DEF Semaphore_Give
<1>2. AmountsOK' /\ OwnAmount
  BY <1>1, ArgumentFacts
<1>3. CASE NotFound(s)
  <2>1. SemaphoreInv' /\ SemaphoreFates
    BY <1>1, <1>2, <1>3, NotFoundKeepsSemaphores
  <2> QED BY <1>3, <2>1 DEF NotFound
<1>4. CASE ~NotFound(s)
  BY <1>1, <1>2, <1>4, NobodyEffect, WaitersEffect DEF Semaphore_Give
<1> QED BY <1>3, <1>4

\* Every step.
LEMMA SemaphoreStep ==
    ASSUME Amounts \subseteq Nat, SemaphoreInv, [SemaphoreNext]_allVars
    PROVE  SemaphoreInv' /\ SemaphoreFates
<1>1. ASSUME NEW c \in InitialCounts, NEW b \in Binary, Semaphore_Create(c, b)
      PROVE  SemaphoreInv' /\ SemaphoreFates
  <2>1. PICK noErr \in Errors :
          mode \in {"boot", "task"} /\ Kernel_Create_Semaphore_Direct(c, b, noErr)
    BY <1>1 DEF Semaphore_Create, Running, Errors, SemaphoreInv, Inv, VarTypes
  <2>2. UNCHANGED amount \/ (Running /\ \E n \in Nat : Argument(n))
    BY <1>1 DEF Semaphore_Create
  <2>3. AmountsOK' /\ OwnAmount
    BY <2>2, ArgumentFacts, SilenceFacts
  <2> QED BY <2>1, <2>3, CreateKeepsSemaphores
<1>2. CASE \E s \in DestroyArgs : Semaphore_Destroy(s)
  BY <1>2, DestroyKeepsSemaphores
<1>3. CASE \E s \in 0..MaxSemaphoreID, n \in Amounts : Semaphore_Get(s, n) \/ Semaphore_Give(s, n)
  BY <1>3, GetKeepsSemaphores, GiveKeepsSemaphores
<1>4. CASE (KernelStep \/ UNCHANGED <<vars, amount>>) /\ UNCHANGED <<SemaphoreList, semaphore>>
  <2>1. [Next]_vars
    BY <1>4 DEF KernelStep, Next, SysCall
  <2>2. UNCHANGED amount \/ (Running /\ Argument(StackSize))
    BY <1>4 DEF KernelStep, Task_Create
  <2>3. AmountsOK' /\ OwnAmount
    BY <2>2, ArgumentFacts, SilenceFacts, SemaphoreAssumption
  <2>4. Inv' /\ Fates
    BY <2>1, NextKeepsInv, NextFates DEF SemaphoreInv
  <2>5. ObjectsOK'
    BY <1>4, <2>4, ObjectsKept DEF SemaphoreInv, Fates
  <2> QED BY <1>4, <2>3, <2>4, <2>5 DEF SemaphoreInv, SemaphoreFates
<1> QED BY <1>1, <1>2, <1>3, <1>4 DEF SemaphoreNext, SemaphoreCall, allVars, semVars

LEMMA SemaphoreInitEstablishes == SemaphoreInit => SemaphoreInv
<1> SUFFICES ASSUME SemaphoreInit PROVE SemaphoreInv
  OBVIOUS
<1>1. Inv
  BY InitEstablishesInv DEF SemaphoreInit
<1>2. ObjectsOK
  BY EmptySeq DEF SemaphoreInit, ObjectsOK
<1> QED BY <1>1, <1>2 DEF SemaphoreInv, SemaphoreInit, AmountsOK

-----------------------------------------------------------------------------
(* The queues and the states of the tasks.                                 *)

LEMMA JoinMatches ==
    ASSUME NEW w, NEW W, Match(w, W), NEW s \in DOMAIN w, w[s] \in Seq(Nat),
           NEW c \in Nat, c \notin W,
           NEW v, DOMAIN v = DOMAIN w, v[s] = Append(w[s], c),
           \A r \in DOMAIN w : r # s => v[r] = w[r]
    PROVE  Match(v, W \cup {c})
<1> DEFINE k == Len(w[s])
<1>1. /\ k \in Nat /\ DOMAIN w[s] = 1..k /\ DOMAIN v[s] = 1..(k + 1)
      /\ v[s][k + 1] = c /\ \A i \in 1..k : v[s][i] = w[s][i]
  BY AppendFacts
<1> HIDE DEF k
<1>2. \A r \in DOMAIN w : \A i \in DOMAIN v[r] :
        \/ i \in DOMAIN w[r] /\ v[r][i] = w[r][i]
        \/ r = s /\ i = k + 1 /\ v[r][i] = c
  BY <1>1
<1>3. \A r \in DOMAIN w : \A i \in DOMAIN w[r] : i \in DOMAIN v[r] /\ v[r][i] = w[r][i]
  BY <1>1
<1>4. s \in DOMAIN v /\ k + 1 \in DOMAIN v[s] /\ v[s][k + 1] = c
  BY <1>1
<1>5. \A r \in DOMAIN v : \A i \in DOMAIN v[r] : v[r][i] \in W \cup {c}
  BY <1>2 DEF Match
<1>6. \A p \in W \cup {c} : \E r \in DOMAIN v : \E i \in DOMAIN v[r] : v[r][i] = p
  BY <1>3, <1>4 DEF Match
<1>7. ASSUME NEW r1 \in DOMAIN v, NEW r2 \in DOMAIN v,
             NEW i \in DOMAIN v[r1], NEW j \in DOMAIN v[r2], v[r1][i] = v[r2][j]
      PROVE  r1 = r2 /\ i = j
  BY <1>2, <1>7 DEF Match
<1> QED BY <1>5, <1>6, <1>7 DEF Match

LEMMA ServeMatches ==
    ASSUME NEW w, NEW W, Match(w, W), NEW s \in DOMAIN w, w[s] \in Seq(Nat),
           NEW k \in 0..Len(w[s]),
           NEW v, DOMAIN v = DOMAIN w, v[s] = SubSeq(w[s], k + 1, Len(w[s])),
           \A r \in DOMAIN w : r # s => v[r] = w[r]
    PROVE  Match(v, W \ {w[s][j] : j \in 1..k})
<1> DEFINE n == Len(w[s])
           served == {w[s][j] : j \in 1..k}
           from(r, i) == IF r = s THEN k + i ELSE i
<1>1. /\ n \in Nat /\ DOMAIN w[s] = 1..n /\ DOMAIN v[s] = 1..(n - k)
      /\ \A i \in 1..(n - k) : v[s][i] = w[s][k + i]
  BY RestFacts
<1>2. k \in 0..n
  OBVIOUS
<1> HIDE DEF n
<1>3. \A r \in DOMAIN w : \A i \in DOMAIN v[r] :
        from(r, i) \in DOMAIN w[r] /\ v[r][i] = w[r][from(r, i)] /\ v[r][i] \notin served
  <2> SUFFICES ASSUME NEW r \in DOMAIN w, NEW i \in DOMAIN v[r]
               PROVE  /\ from(r, i) \in DOMAIN w[r] /\ v[r][i] = w[r][from(r, i)]
                      /\ v[r][i] \notin served
    OBVIOUS
  <2>1. from(r, i) \in DOMAIN w[r] /\ v[r][i] = w[r][from(r, i)]
    <3>1. CASE r = s
      <4>1. i \in 1..(n - k) /\ k + i \in 1..n
        BY <1>1, <1>2, <3>1
      <4> QED BY <1>1, <3>1, <4>1
    <3>2. CASE r # s
      <4>1. v[r] = w[r]
        BY <3>2
      <4> QED BY <3>2, <4>1
    <3> QED BY <3>1, <3>2
  <2>2. r = s => from(r, i) \notin 1..k
    BY <1>1, <1>2
  <2> HIDE DEF from
  <2>3. ASSUME NEW j \in 1..k, v[r][i] = w[s][j] PROVE FALSE
    <3>1. j \in DOMAIN w[s]
      BY <1>1, <1>2
    <3>2. w[r][from(r, i)] = w[s][j]
      BY <2>1, <2>3
    <3> HIDE DEF served
    <3>3. r = s /\ from(r, i) = j
      BY <2>1, <3>1, <3>2 DEF Match
    <3> QED BY <2>2, <3>3
  <2> QED BY <2>1, <2>3
<1>4. \A r \in DOMAIN w : \A i \in DOMAIN w[r] :
        w[r][i] \notin served => \E j \in DOMAIN v[r] : v[r][j] = w[r][i]
  <2> SUFFICES ASSUME NEW r \in DOMAIN w, NEW i \in DOMAIN w[r], w[r][i] \notin served
               PROVE  \E j \in DOMAIN v[r] : v[r][j] = w[r][i]
    OBVIOUS
  <2>1. CASE r = s
    <3>1. i \in 1..n /\ i \notin 1..k
      BY <1>1, <2>1
    <3>2. i - k \in 1..(n - k) /\ k + (i - k) = i
      BY <1>1, <1>2, <3>1
    <3> QED BY <1>1, <2>1, <3>2
  <2>2. CASE r # s
    BY <2>2
  <2> QED BY <2>1, <2>2
<1>5. \A r \in DOMAIN v : \A i \in DOMAIN v[r] : v[r][i] \in W \ served
  <2> HIDE DEF served, from
  <2> QED BY <1>3 DEF Match
<1>6. \A p \in W \ served : \E r \in DOMAIN v : \E i \in DOMAIN v[r] : v[r][i] = p
  <2> HIDE DEF served
  <2> QED BY <1>4 DEF Match
<1>7. ASSUME NEW r1 \in DOMAIN v, NEW r2 \in DOMAIN v,
             NEW i \in DOMAIN v[r1], NEW j \in DOMAIN v[r2], v[r1][i] = v[r2][j]
      PROVE  r1 = r2 /\ i = j
  <2>1. r1 = r2 /\ from(r1, i) = from(r2, j)
    <3> HIDE DEF served, from
    <3> QED BY <1>3, <1>7 DEF Match
  <2>2. r1 = s => i \in Int /\ j \in Int
    BY <1>1, <2>1
  <2> QED BY <1>2, <2>1, <2>2
<1> HIDE DEF served
<1>8. Match(v, W \ served)
  BY <1>5, <1>6, <1>7 DEF Match
<1> QED BY <1>8 DEF served

Queues  == [s \in DOMAIN semaphore |-> semaphore[s].wait_queue]
Waiters == {p \in DOMAIN PD : PD[p].state = "WAIT_SEMAPHORE"}

WaitInv == AllTimely /\ Match(Queues, Waiters)

\* A task on a queue waits, and is on the queue once.
LEMMA QueuedWaits ==
    ASSUME WaitInv, NEW s \in DOMAIN semaphore, NEW i \in DOMAIN semaphore[s].wait_queue
    PROVE  LET q == semaphore[s].wait_queue
           IN /\ q[i] \in DOMAIN PD /\ PD[q[i]].state = "WAIT_SEMAPHORE"
              /\ \A j \in DOMAIN q : q[j] = q[i] => j = i
<1>1. \A r \in DOMAIN semaphore : Queues[r] = semaphore[r].wait_queue
  BY DEF Queues
<1>2. DOMAIN Queues = DOMAIN semaphore
  BY DEF Queues
<1> QED BY <1>1, <1>2 DEF WaitInv, Match, Waiters

LEMMA WaitInvImplies == WaitInv => GettersWait
<1> SUFFICES ASSUME WaitInv PROVE GettersWait
  OBVIOUS
<1>1. \A s \in DOMAIN semaphore : Queues[s] = semaphore[s].wait_queue
  BY DEF Queues
<1>2. DOMAIN Queues = DOMAIN semaphore
  BY DEF Queues
<1>3. ASSUME NEW p \in DOMAIN PD
      PROVE  /\ PD[p].state = "WAIT_SEMAPHORE" => Queued(p) # {}
             /\ Queued(p) # {} => PD[p].state = "WAIT_SEMAPHORE"
             /\ \A s, t \in Queued(p) : s = t
  <2>1. PD[p].state = "WAIT_SEMAPHORE" =>
          \E s \in DOMAIN semaphore : p \in ToSet(semaphore[s].wait_queue)
    BY <1>1, <1>2 DEF WaitInv, Match, Waiters, ToSet
  <2>2. \A s, t \in DOMAIN semaphore :
          p \in ToSet(semaphore[s].wait_queue) /\ p \in ToSet(semaphore[t].wait_queue) => s = t
    BY <1>1, <1>2 DEF WaitInv, Match, ToSet
  <2>3. \A s \in DOMAIN semaphore :
          p \in ToSet(semaphore[s].wait_queue) => PD[p].state = "WAIT_SEMAPHORE"
    BY <1>1, <1>2 DEF WaitInv, Match, Waiters, ToSet
  <2> QED BY <2>1, <2>2, <2>3 DEF Queued
<1>4. \A s \in DOMAIN semaphore : \A i, j \in DOMAIN semaphore[s].wait_queue :
        semaphore[s].wait_queue[i] = semaphore[s].wait_queue[j] => i = j
  BY <1>1, <1>2 DEF WaitInv, Match
<1> QED BY <1>3, <1>4 DEF GettersWait

\* The caller is RUNNING: it is on no queue.
LEMMA CallerWaitsNot ==
    ASSUME SemaphoreInv, ~SelfSuspend, Running
    PROVE  /\ Current_Process \in DOMAIN PD /\ Current_Process \in Nat
           /\ PD[Current_Process].state = "RUNNING" /\ Current_Process \notin Waiters
  BY CallFacts DEF SemaphoreInv, Inv, CallerRuns, CurrentIsRunning, Running, Waiters

\* A call that touches neither the states nor the queues.
LEMMA QueuesKept ==
    ASSUME WaitInv, PD' = PD, NEW s \in DOMAIN semaphore, NEW count,
           Became(s, count, semaphore[s].wait_queue)
    PROVE  WaitInv'
<1>1. Queues' = Queues
  BY DEF Queues, Became
<1> QED BY <1>1 DEF WaitInv, AllTimely, Waiters, Match

LEMMA JoinedKeepsWaitInv ==
    ASSUME SemaphoreInv, WaitInv, ~SelfSuspend, Running,
           NEW s \in DOMAIN semaphore, NEW n, Joined(s, n)
    PROVE  WaitInv'
<1> DEFINE c == Current_Process
<1>1. c \in DOMAIN PD /\ c \in Nat /\ PD[c].state = "RUNNING" /\ c \notin Waiters
  BY CallerWaitsNot
<1>2. Timely(PD'[c]) /\ PD'[c].state = "WAIT_SEMAPHORE"
  <2>1. PICK a \in Process : /\ a.state = "WAIT_SEMAPHORE" /\ Aged(a, PD'[c])
                             /\ a.request_timeout = PD[c].request_timeout
    BY DEF Joined, Moved
  <2>2. Timely(a)
    BY <1>1, <2>1 DEF WaitInv, AllTimely, Timely
  <2> QED BY <2>1, <2>2, AgedWaitsAlike DEF WaitsAlike, Waiting
<1>3. \A p \in DOMAIN PD \ {c} :
        Timely(PD'[p]) /\ (PD'[p].state = "WAIT_SEMAPHORE" <=> PD[p].state = "WAIT_SEMAPHORE")
  BY AgedWaitsAlike DEF WaitInv, AllTimely, Joined, OthersAge, WaitsAlike, Waiting
<1>4. DOMAIN PD' = DOMAIN PD
  BY DEF Joined, OthersAge
<1>5. Waiters' = Waiters \cup {c} /\ AllTimely'
  BY <1>1, <1>2, <1>3, <1>4 DEF Waiters, AllTimely
<1>6. semaphore[s].wait_queue \in Seq(Nat)
  BY DEF SemaphoreInv, ObjectsOK, ObjectOK, SemaphoreType
<1>7. /\ DOMAIN Queues' = DOMAIN Queues /\ s \in DOMAIN Queues
      /\ Queues[s] = semaphore[s].wait_queue /\ Queues'[s] = Append(Queues[s], c)
      /\ \A r \in DOMAIN Queues : r # s => Queues'[r] = Queues[r]
  BY DEF Queues, Joined, Became
<1>8. Match(Queues', Waiters \cup {c})
  BY <1>1, <1>6, <1>7, JoinMatches DEF WaitInv
<1> QED BY <1>5, <1>8 DEF WaitInv

LEMMA GiveKeepsWaitInv ==
    ASSUME SemaphoreInv, WaitInv, Running,
           NEW s \in DOMAIN semaphore, NEW n, GaveToWaiters(s, n)
    PROVE  WaitInv'
<1> DEFINE q == semaphore[s].wait_queue
<1>1. PICK k \in 0..Len(q) : /\ PD' = Woken(q, k)
                             /\ Became(s, Given(s, n) - Need(q, k), SubSeq(q, k + 1, Len(q)))
  BY DEF GaveToWaiters
<1> DEFINE served == {q[j] : j \in 1..k}
<1>2. q \in Seq(Nat)
  BY DEF SemaphoreInv, ObjectsOK, ObjectOK, SemaphoreType
<1>3. /\ DOMAIN Queues' = DOMAIN Queues /\ s \in DOMAIN Queues /\ Queues[s] = q
      /\ Queues'[s] = SubSeq(q, k + 1, Len(q))
      /\ \A r \in DOMAIN Queues : r # s => Queues'[r] = Queues[r]
  BY <1>1 DEF Queues, Became
<1> HIDE DEF q
<1>4. Match(Queues', Waiters \ served)
  <2>1. Match(Queues', Waiters \ {Queues[s][j] : j \in 1..k})
    BY <1>2, <1>3, ServeMatches DEF WaitInv
  <2> QED BY <1>3, <2>1
<1>5. DOMAIN PD' = DOMAIN PD
  BY <1>1 DEF Woken
<1>6. \A p \in DOMAIN PD : p \notin served => PD'[p] = PD[p]
  BY <1>1 DEF Woken
<1>7. ASSUME NEW p \in DOMAIN PD, p \in served
      PROVE  PD'[p].state = "READY" /\ Timely(PD'[p])
  <2>1. PD[p] \in Process
    BY ElementOfSeq, LenProperties DEF SemaphoreInv, Inv, Table
  <2>2. p \in Waiters
    <3>1. DOMAIN q = 1..Len(q) /\ Len(q) \in Nat
      BY <1>2, LenProperties
    <3>2. PICK j \in DOMAIN q : p = q[j]
      BY <1>7, <3>1
    <3> QED BY <1>3, <3>2 DEF WaitInv, Match
  <2>3. Timely(PD[p]) /\ PD[p].state = "WAIT_SEMAPHORE"
    BY <2>2 DEF WaitInv, AllTimely, Waiters
  <2>4. PD'[p] = [PD[p] EXCEPT !.state = "READY"]
    BY <1>1, <1>7 DEF Woken
  <2> QED BY <2>1, <2>3, <2>4 DEF Timely, Process
<1> HIDE DEF served
<1>8. Waiters' = Waiters \ served
  BY <1>5, <1>6, <1>7 DEF Waiters
<1>9. AllTimely'
  BY <1>5, <1>6, <1>7 DEF WaitInv, AllTimely
<1> QED BY <1>4, <1>8, <1>9 DEF WaitInv

\* Every step keeps the queues matched with the states.
LEMMA StepKeepsWaitInv ==
    ASSUME ~SelfSuspend, FreshTimeouts \subseteq {0}, SemaphoreInv, WaitInv, SemaphoreFates
    PROVE  WaitInv'
<1>1. CASE Fates /\ semaphore' = semaphore
  <2>1. /\ AllTimely' /\ DOMAIN PD \subseteq DOMAIN PD'
        /\ \A p \in DOMAIN PD : WaitsAlike(PD[p], PD'[p])
        /\ \A p \in DOMAIN PD' \ DOMAIN PD : PD'[p].state \notin Waiting
    BY <1>1, FatesWaitAlike DEF SemaphoreInv, WaitInv
  <2>2. Waiters' = Waiters
    BY <2>1 DEF Waiters, WaitsAlike, Waiting
  <2>3. Match(Queues, Waiters)'
    BY <1>1, <2>2 DEF WaitInv, Match, Queues
  <2> QED BY <2>1, <2>3 DEF WaitInv
<1>2. ASSUME NEW c \in InitialCounts, NEW b \in Binary, PD' = PD,
             semaphore' = Append(semaphore, NewSemaphore(c, b))
      PROVE  WaitInv'
  <2>1. /\ DOMAIN Queues \subseteq DOMAIN Queues'
        /\ \A s \in DOMAIN Queues : Queues'[s] = Queues[s]
        /\ \A s \in DOMAIN Queues' \ DOMAIN Queues : Queues'[s] = <<>>
    BY <1>2, NewObject DEF Queues
  <2>2. DOMAIN <<>> = {}
    OBVIOUS
  <2>3. Waiters' = Waiters /\ AllTimely'
    BY <1>2 DEF Waiters, AllTimely, WaitInv
  <2>4. Match(Queues', Waiters)
    BY <2>1, <2>2 DEF WaitInv, Match
  <2> QED BY <2>3, <2>4 DEF WaitInv
<1>3. ASSUME Running, NEW s \in DOMAIN semaphore, NEW n, Outcome(s, n)
      PROVE  WaitInv'
  <2>1. CASE Got(s, n) \/ GaveToNobody(s, n)
    BY <2>1, QueuesKept DEF Got, GaveToNobody
  <2>2. CASE Joined(s, n)
    BY <1>3, <2>2, JoinedKeepsWaitInv
  <2>3. CASE GaveToWaiters(s, n)
    BY <1>3, <2>3, GiveKeepsWaitInv
  <2> QED BY <1>3, <2>1, <2>2, <2>3 DEF Outcome
<1> QED BY <1>1, <1>2, <1>3 DEF SemaphoreFates

-----------------------------------------------------------------------------
(* The counts.                                                             *)

NoDebt == \A s \in DOMAIN semaphore : semaphore[s].count >= 0

\* A call pays with what the semaphore has.
LEMMA StepKeepsNoDebt ==
    ASSUME InitialCounts \subseteq Nat, Amounts \subseteq Nat,
           SemaphoreInv, SemaphoreInv', NoDebt, SemaphoreFates
    PROVE  NoDebt'
<1>1. CASE semaphore' = semaphore
  BY <1>1 DEF NoDebt
<1>2. ASSUME NEW c \in InitialCounts, NEW b \in Binary,
             semaphore' = Append(semaphore, NewSemaphore(c, b))
      PROVE  NoDebt'
  <2>1. c >= 0
    OBVIOUS
  <2> QED BY <1>2, <2>1, NewObject DEF NoDebt
<1>3. ASSUME NEW s \in DOMAIN semaphore, NEW n \in Nat, Outcome(s, n)
      PROVE  NoDebt'
  <2>1. /\ semaphore[s].count \in Int /\ semaphore[s].count >= 0
        /\ semaphore[s].is_binary \in BOOLEAN /\ n \in Nat
    BY DEF SemaphoreInv, ObjectsOK, ObjectOK, SemaphoreType, NoDebt
  <2>2. Asked(s, n) \in Nat /\ Given(s, n) \in Int /\ Given(s, n) >= 0
    BY <2>1, AskedFacts, GivenFacts
  <2>3. ASSUME NEW count, NEW q, Became(s, count, q), count >= 0
        PROVE  NoDebt'
    BY <2>3 DEF Became, NoDebt
  <2>4. CASE Got(s, n)
    BY <2>1, <2>2, <2>3, <2>4 DEF Got, HasEnough
  <2>5. CASE Joined(s, n)
    BY <2>1, <2>3, <2>5 DEF Joined
  <2>6. CASE GaveToNobody(s, n)
    BY <2>2, <2>3, <2>6 DEF GaveToNobody
  <2>7. CASE GaveToWaiters(s, n)
    <3> DEFINE q == semaphore[s].wait_queue
    <3>1. PICK k \in 0..Len(q) :
            /\ Serves(Given(s, n), q, k)
            /\ Became(s, Given(s, n) - Need(q, k), SubSeq(q, k + 1, Len(q)))
      BY <2>7 DEF GaveToWaiters
    <3>2. Need(q, 0) = 0 /\ Need(q, k) \in Nat
      BY QueueNeeds DEF SemaphoreInv
    <3>3. k = 0 \/ k \in 1..k
      OBVIOUS
    <3>4. Need(q, k) <= Given(s, n)
      BY <2>2, <3>1, <3>2, <3>3 DEF Serves
    <3> QED BY <2>2, <2>3, <3>1, <3>2, <3>4
  <2> QED BY <1>3, <2>4, <2>5, <2>6, <2>7 DEF Outcome
<1> QED BY <1>1, <1>2, <1>3 DEF SemaphoreFates

\* The head of a queue waits, so its amount is what it has asked for.
LEMMA HeadFacts ==
    ASSUME SemaphoreInv, WaitInv, ~SelfSuspend, OwnAmount,
           NEW s \in DOMAIN semaphore, semaphore[s].wait_queue # <<>>
    PROVE  LET q == semaphore[s].wait_queue
           IN /\ Head(q) = q[1] /\ 1 \in DOMAIN q /\ q[1] \in 0..MaxPid
              /\ amount'[q[1]] = amount[q[1]]
<1> DEFINE q == semaphore[s].wait_queue
<1>1. q \in Seq(Nat)
  BY DEF SemaphoreInv, ObjectsOK, ObjectOK, SemaphoreType
<1>2. Head(q) = q[1] /\ 1 \in DOMAIN q
  <2> HIDE DEF q
  <2>1. q # <<>>
    BY DEF q
  <2>2. Len(q) \in Nat \ {0} /\ DOMAIN q = 1..Len(q)
    BY <1>1, <2>1, EmptySeq, LenProperties
  <2> QED BY <1>1, <2>1, <2>2, HeadTailProperties
<1>3. q[1] \in DOMAIN PD /\ PD[q[1]].state = "WAIT_SEMAPHORE"
  BY <1>2, QueuedWaits
<1>4. q[1] \in 0..MaxPid
  BY <1>3, LenProperties, EnvironmentAssumption DEF SemaphoreInv, Inv, Table, VarTypes
<1>5. Running => q[1] # Current_Process
  BY <1>3, CallerWaitsNot
<1> QED BY <1>2, <1>4, <1>5 DEF OwnAmount

\* The head of one queue is still short of counts.
Short(s) ==
    semaphore[s].wait_queue # <<>> => semaphore[s].count < amount[Head(semaphore[s].wait_queue)]

LEMMA StaysShort ==
    ASSUME SemaphoreInv, WaitInv, ~SelfSuspend, OwnAmount, NEW s \in DOMAIN semaphore, Short(s),
           semaphore'[s].wait_queue = semaphore[s].wait_queue,
           semaphore'[s].count \in Int, semaphore'[s].count <= semaphore[s].count
    PROVE  Short(s)'
<1> DEFINE q == semaphore[s].wait_queue
<1> SUFFICES ASSUME q # <<>> PROVE semaphore'[s].count < amount'[Head(q)]
  BY DEF Short
<1>1. amount'[Head(q)] = amount[Head(q)] /\ Head(q) \in 0..MaxPid
  BY HeadFacts
<1>2. semaphore[s].count < amount[Head(q)]
  BY DEF Short
<1>3. amount[Head(q)] \in Nat /\ semaphore[s].count \in Int
  BY <1>1 DEF SemaphoreInv, AmountsOK, ObjectsOK, ObjectOK, SemaphoreType
<1> QED BY <1>1, <1>2, <1>3

\* Whoever joins an empty queue is short, and the head of another one stays it.
LEMMA JoinedStaysShort ==
    ASSUME SemaphoreInv, WaitInv, ~SelfSuspend, OwnAmount, Running,
           NEW s \in DOMAIN semaphore, Short(s), NEW n \in Nat, Joined(s, n)
    PROVE  Short(s)'
<1> DEFINE c == Current_Process
           q == semaphore[s].wait_queue
<1>1. /\ q \in Seq(Nat) /\ c \in Nat /\ semaphore[s].count \in Int
      /\ semaphore[s].is_binary \in BOOLEAN
  BY CallerWaitsNot DEF SemaphoreInv, ObjectsOK, ObjectOK, SemaphoreType
<1>2. /\ semaphore'[s].count = semaphore[s].count /\ semaphore'[s].wait_queue = Append(q, c)
      /\ ~(semaphore[s].count - amount'[c] >= 0) /\ amount'[c] \in Nat
  <2>1. Asked(s, n) \in Nat
    BY <1>1, AskedFacts
  <2> QED BY <2>1 DEF Joined, Became, HasEnough
<1> HIDE DEF c
<1>3. /\ Append(q, c) \in Seq(Nat) /\ Len(Append(q, c)) = Len(q) + 1 /\ Len(q) \in Nat
      /\ Append(q, c)[Len(q) + 1] = c
      /\ \A i \in 1..Len(q) : Append(q, c)[i] = q[i]
  <2> HIDE DEF q
  <2> QED BY <1>1, AppendFacts
<1>4. Head(Append(q, c)) = Append(q, c)[1]
  <2> DEFINE a == Append(q, c)
  <2>1. a \in Seq(Nat) /\ a # <<>>
    <3>1. Len(a) \in Nat \ {0} /\ a \in Seq(Nat)
      BY <1>3
    <3> HIDE DEF a
    <3> QED BY <3>1, EmptySeq
  <2> HIDE DEF a
  <2>2. Head(a) = a[1]
    BY <2>1, HeadTailProperties
  <2> QED BY <2>2 DEF a
<1>5. CASE q = <<>>
  <2>1. Len(q) = 0
    BY <1>5
  <2>2. Head(Append(q, c)) = c
    BY <1>3, <1>4, <2>1
  <2> QED BY <1>1, <1>2, <2>2 DEF Short
<1>6. CASE q # <<>>
  <2>1. /\ Head(q) = q[1] /\ 1 \in DOMAIN q /\ amount'[q[1]] = amount[q[1]]
    BY <1>6, HeadFacts
  <2>2. Append(q, c)[1] = q[1]
    BY <1>1, <1>3, <2>1, LenProperties
  <2>3. semaphore[s].count < amount[Head(q)]
    BY <1>6 DEF Short
  <2> QED BY <1>2, <1>4, <2>1, <2>2, <2>3 DEF Short
<1> QED BY <1>5, <1>6

\* Everybody for whom there was enough has been served.
LEMMA ServedStaysShort ==
    ASSUME SemaphoreInv, SemaphoreInv', WaitInv, NEW s \in DOMAIN semaphore, NEW n \in Nat,
           GaveToWaiters(s, n)
    PROVE  Short(s)'
<1> DEFINE q == semaphore[s].wait_queue
           g == Given(s, n)
<1>1. PICK k \in 0..Len(q) :
        /\ Serves(g, q, k)
        /\ Became(s, g - Need(q, k), SubSeq(q, k + 1, Len(q)))
  BY DEF GaveToWaiters
<1> DEFINE rest == SubSeq(q, k + 1, Len(q))
<1>2. semaphore'[s].count = g - Need(q, k) /\ semaphore'[s].wait_queue = rest
  BY <1>1 DEF Became
<1> SUFFICES ASSUME rest # <<>> PROVE g - Need(q, k) < amount'[Head(rest)]
  BY <1>2 DEF Short
<1>3. q \in Seq(Nat) /\ g \in Int
  <2>1. semaphore[s].count \in Int /\ semaphore[s].is_binary \in BOOLEAN
        /\ semaphore[s].wait_queue \in Seq(Nat)
    BY DEF SemaphoreInv, ObjectsOK, ObjectOK, SemaphoreType
  <2> QED BY <2>1, GivenFacts
<1>4. /\ rest \in Seq(Nat) /\ Len(rest) = Len(q) - k /\ Len(q) \in Nat /\ DOMAIN q = 1..Len(q)
      /\ \A i \in 1..(Len(q) - k) : rest[i] = q[k + i]
  <2> HIDE DEF q
  <2> QED BY <1>3, RestFacts
<1>5. k < Len(q) /\ Head(rest) = rest[1] /\ rest[1] = q[k + 1]
  <2> HIDE DEF rest
  <2>1. Len(rest) \in Nat \ {0}
    BY <1>4, EmptySeq, LenProperties
  <2>2. Head(rest) = rest[1]
    BY <1>4, HeadTailProperties
  <2> QED BY <1>4, <2>1, <2>2
<1>6. StillWaits(q, k + 1)
  <2>1. k + 1 \in DOMAIN q /\ \A j \in 1..k : j \in DOMAIN q /\ j # k + 1
    <3> HIDE DEF q, rest
    <3> QED BY <1>4, <1>5
  <2>2. PD[q[k + 1]].state = "WAIT_SEMAPHORE" /\ \A j \in 1..k : q[j] # q[k + 1]
    BY <2>1, QueuedWaits
  <2>3. 1..(k + 1 - 1) = 1..k
    OBVIOUS
  <2> QED BY <2>2, <2>3 DEF StillWaits
<1>7. Need(q, k + 1) > g
  BY <1>1, <1>5, <1>6 DEF Serves
<1>8. /\ Need(q, k) \in Nat /\ Need(q, k + 1) = Need(q, k) + amount'[q[k + 1]]
      /\ amount'[q[k + 1]] \in Nat
  <2>1. k \in 0..(Len(q) - 1)
    BY <1>4, <1>5
  <2> QED BY <2>1, QueueNeeds DEF SemaphoreInv
<1>9. Head(rest) = q[k + 1] /\ Need(q, k) + amount'[q[k + 1]] > g
  BY <1>5, <1>7, <1>8
<1> HIDE DEF g, q, rest
<1> QED BY <1>3, <1>8, <1>9

LEMMA StepKeepsShort ==
    ASSUME InitialCounts \subseteq Nat, Amounts \subseteq Nat, ~SelfSuspend,
           SemaphoreInv, SemaphoreInv', WaitInv, NoDebt, CountsAreNotIdle, SemaphoreFates
    PROVE  CountsAreNotIdle'
<1>0. /\ CountsAreNotIdle <=> \A s \in ToSet(SemaphoreList) : Short(s)
      /\ CountsAreNotIdle' <=> \A s \in ToSet(SemaphoreList') : Short(s)'
  BY DEF CountsAreNotIdle, Short
<1>1. \A s \in ToSet(SemaphoreList) : s \in DOMAIN semaphore /\ semaphore[s].count \in Int
  BY ExistsFacts DEF Exists
<1>2. OwnAmount
  BY DEF SemaphoreFates
<1>3. ASSUME NEW s \in ToSet(SemaphoreList), semaphore'[s] = semaphore[s]
      PROVE  Short(s)'
  BY <1>0, <1>1, <1>2, <1>3, StaysShort
<1>4. CASE semaphore' = semaphore /\ ToSet(SemaphoreList') \subseteq ToSet(SemaphoreList)
  BY <1>0, <1>3, <1>4
<1>5. ASSUME NEW c \in InitialCounts, NEW b \in Binary,
             semaphore' = Append(semaphore, NewSemaphore(c, b)),
             ToSet(SemaphoreList') = ToSet(SemaphoreList) \cup {Len(semaphore) + 1}
      PROVE  CountsAreNotIdle'
  <2>0. PICK m : m = Len(semaphore) + 1
    OBVIOUS
  <2>1. /\ \A s \in DOMAIN semaphore : semaphore'[s] = semaphore[s]
        /\ semaphore'[m].wait_queue = <<>>
    BY <1>5, <2>0, NewObject
  <2>2. Short(m)'
    BY <2>1 DEF Short
  <2>3. \A s \in ToSet(SemaphoreList) : Short(s)'
    BY <1>1, <1>3, <2>1
  <2> QED BY <1>0, <1>5, <2>0, <2>2, <2>3
<1>6. ASSUME Running, SemaphoreList' = SemaphoreList,
             NEW s \in ToSet(SemaphoreList), NEW n \in Nat, Outcome(s, n)
      PROVE  CountsAreNotIdle'
  <2>1. /\ s \in DOMAIN semaphore /\ semaphore[s].count \in Int /\ semaphore[s].count >= 0
        /\ semaphore[s].is_binary \in BOOLEAN /\ n \in Nat /\ Short(s)
    BY <1>0, <1>6, ExistsFacts DEF Exists, NoDebt
  <2>2. Asked(s, n) \in Nat /\ Given(s, n) \in Int
    BY <2>1, AskedFacts, GivenFacts
  <2>3. \A r \in DOMAIN semaphore : r # s => semaphore'[r] = semaphore[r]
    BY <1>6 DEF Outcome, Got, Joined, GaveToNobody, GaveToWaiters, Became
  <2>4. CASE Got(s, n)
    <3>1. /\ semaphore'[s].wait_queue = semaphore[s].wait_queue
          /\ semaphore'[s].count = semaphore[s].count - Asked(s, n)
      BY <2>4 DEF Got, Became
    <3>2. Short(s)'
      BY <1>2, <2>1, <2>2, <3>1, StaysShort
    <3> QED BY <1>0, <1>1, <1>3, <1>6, <2>3, <3>2
  <2>5. CASE Joined(s, n)
    <3>1. Short(s)'
      BY <1>2, <1>6, <2>1, <2>5, JoinedStaysShort
    <3> QED BY <1>0, <1>1, <1>3, <1>6, <2>3, <3>1
  <2>6. CASE GaveToNobody(s, n)
    <3> DEFINE q == semaphore[s].wait_queue
    <3>1. semaphore'[s].wait_queue = q /\ semaphore'[s].count = Given(s, n)
      BY <2>6 DEF GaveToNobody, Became
    <3>2. CASE q = <<>>
      <4>1. Short(s)'
        BY <3>1, <3>2 DEF Short
      <4> QED BY <1>0, <1>1, <1>3, <1>6, <2>3, <4>1
    <3>3. CASE q # <<>>
      <4>1. Given(s, n) <= 0
        BY <2>2, <2>6, <3>3 DEF GaveToNobody, MayServe
      <4>2. Given(s, n) <= semaphore[s].count
        BY <2>1, <2>2, <4>1
      <4>3. Short(s)'
        BY <1>2, <2>1, <2>2, <3>1, <4>2, StaysShort
      <4> QED BY <1>0, <1>1, <1>3, <1>6, <2>3, <4>3
    <3> QED BY <3>2, <3>3
  <2>7. CASE GaveToWaiters(s, n)
    <3>1. Short(s)'
      BY <2>1, <2>7, ServedStaysShort
    <3> QED BY <1>0, <1>1, <1>3, <1>6, <2>3, <3>1
  <2> QED BY <1>6, <2>4, <2>5, <2>6, <2>7 DEF Outcome
<1> QED BY <1>4, <1>5, <1>6 DEF SemaphoreFates

\* Nobody who waits is denied what is there, and nothing is owed.
CountingInv == SemaphoreInv /\ WaitInv /\ NoDebt /\ CountsAreNotIdle

LEMMA CountingInvIsInvariant ==
    ASSUME InitialCounts \subseteq Nat, Amounts \subseteq Nat,
           ~SelfSuspend, FreshTimeouts \subseteq {0}
    PROVE  /\ SemaphoreInit => CountingInv
           /\ CountingInv /\ [SemaphoreNext]_allVars => CountingInv' /\ SemaphoreFates
<1>1. SemaphoreInit => CountingInv
  BY SemaphoreInitEstablishes
     DEF SemaphoreInit, Init, WaitInv, AllTimely, Match, Queues, Waiters, NoDebt,
         CountsAreNotIdle, ToSet, CountingInv
<1>2. ASSUME CountingInv, [SemaphoreNext]_allVars PROVE CountingInv' /\ SemaphoreFates
  <2>1. SemaphoreInv' /\ SemaphoreFates
    BY <1>2, SemaphoreStep DEF CountingInv
  <2>2. WaitInv' /\ NoDebt' /\ CountsAreNotIdle'
    BY <1>2, <2>1, StepKeepsWaitInv, StepKeepsNoDebt, StepKeepsShort DEF CountingInv
  <2> QED BY <2>1, <2>2 DEF CountingInv
<1> QED BY <1>1, <1>2

-----------------------------------------------------------------------------
(* The theorems.                                                           *)

\* Every variable keeps its type, no queue names a process that was not created,
\* and a binary semaphore never exceeds 1, however many waiters are served at once.
THEOREM SemaphoreTypeCorrect ==
    ASSUME Amounts \subseteq Nat
    PROVE  SemaphoreSpec => []SemaphoreTypeOK
<1>1. SemaphoreInv /\ [SemaphoreNext]_allVars => SemaphoreInv'
  BY SemaphoreStep
<1> QED BY <1>1, SemaphoreInitEstablishes, SemaphoreInvImplies, PTL DEF SemaphoreSpec

\* The calls on semaphores do not break the scheduler: its properties hold with them.
THEOREM SemaphoreKeepsScheduler ==
    ASSUME Amounts \subseteq Nat
    PROVE  SemaphoreSpec => [](AtMostOneRunning /\ ListIsLive)
<1>1. SemaphoreInv /\ [SemaphoreNext]_allVars => SemaphoreInv'
  BY SemaphoreStep
<1>2. SemaphoreInv => AtMostOneRunning /\ ListIsLive
  BY InvImplies DEF SemaphoreInv
<1> QED BY <1>1, <1>2, SemaphoreInitEstablishes, PTL DEF SemaphoreSpec

\* A semaphore that starts without debt is never overdrawn, whatever timers,
\* suspensions and failures do to the tasks on its queue.
THEOREM CountsNeverOverdrawn == SemaphoreSpec => []NeverOverdrawn
<1>1. CASE InitialCounts \subseteq Nat /\ Amounts \subseteq Nat
  <2>1. SemaphoreInit => NoDebt
    BY DEF SemaphoreInit, NoDebt
  <2>2. SemaphoreInv /\ NoDebt /\ [SemaphoreNext]_allVars => (SemaphoreInv /\ NoDebt)'
    BY <1>1, SemaphoreStep, StepKeepsNoDebt
  <2>3. NoDebt => NeverOverdrawn
    BY DEF NoDebt, NeverOverdrawn
  <2> QED BY <2>1, <2>2, <2>3, SemaphoreInitEstablishes, PTL DEF SemaphoreSpec
<1>2. CASE ~(InitialCounts \subseteq Nat /\ Amounts \subseteq Nat)
  <2>1. NeverOverdrawn
    BY <1>2, SemaphoreAssumption DEF NeverOverdrawn
  <2> QED BY <2>1, PTL
<1> QED BY <1>1, <1>2

\* A task waits for a semaphore if and only if it is on a queue, on one and once:
\* Semaphore_Get does not return without the counts, and nobody is served twice.
THEOREM SemaphoreGettersWait ==
    ASSUME Amounts \subseteq Nat, ~SelfSuspend, FreshTimeouts \subseteq {0}
    PROVE  SemaphoreSpec => []GettersWait
<1>1. SemaphoreInit => WaitInv
  BY DEF SemaphoreInit, Init, WaitInv, AllTimely, Match, Queues, Waiters
<1>2. SemaphoreInv /\ WaitInv /\ [SemaphoreNext]_allVars => (SemaphoreInv /\ WaitInv)'
  BY SemaphoreStep, StepKeepsWaitInv
<1> QED BY <1>1, <1>2, SemaphoreInitEstablishes, WaitInvImplies, PTL DEF SemaphoreSpec

\* No wakeup is lost: when counts are enough for the task that has waited longest,
\* it has been served, whatever the amounts and in whatever order tasks get and give.
THEOREM NoIdleCounts ==
    ASSUME InitialCounts \subseteq Nat, Amounts \subseteq Nat,
           ~SelfSuspend, FreshTimeouts \subseteq {0}
    PROVE  SemaphoreSpec => []CountsAreNotIdle
<1>1. CountingInv => CountsAreNotIdle
  BY DEF CountingInv
<1> QED BY <1>1, CountingInvIsInvariant, PTL DEF SemaphoreSpec

-----------------------------------------------------------------------------
(* The refinement of the abstract semaphore.                               *)

\* The tasks of a queue, each with what a function says of it.
Entries == [task: Nat, wants: Nat]

PairUp(q, f) == [i \in DOMAIN q |-> [task |-> q[i], wants |-> f[q[i]]]]

LEMMA PairUpFacts ==
    ASSUME NEW q \in Seq(Nat), NEW f, \A i \in DOMAIN q : f[q[i]] \in Nat
    PROVE  /\ PairUp(q, f) \in Seq(Entries) /\ Len(PairUp(q, f)) = Len(q)
           /\ Len(q) \in Nat /\ DOMAIN q = 1..Len(q) /\ DOMAIN PairUp(q, f) = 1..Len(q)
           /\ \A i \in 1..Len(q) : PairUp(q, f)[i] = [task |-> q[i], wants |-> f[q[i]]]
<1> DEFINE p == PairUp(q, f)
<1>1. Len(q) \in Nat /\ DOMAIN q = 1..Len(q) /\ \A i \in 1..Len(q) : q[i] \in Nat
  BY LenProperties, ElementOfSeq
<1>2. p \in [1..Len(q) -> Entries]
  BY <1>1 DEF PairUp, Entries
<1>3. \A i \in 1..Len(q) : p[i] = [task |-> q[i], wants |-> f[q[i]]]
  BY <1>1 DEF PairUp
<1> HIDE DEF p
<1>4. p \in Seq(Entries) /\ Len(p) = Len(q) /\ DOMAIN p = 1..Len(q)
  BY <1>1, <1>2, SegmentIsSeq
<1> QED BY <1>1, <1>3, <1>4 DEF p

LEMMA PairUpSame ==
    ASSUME NEW q, NEW f, NEW g, \A i \in DOMAIN q : g[q[i]] = f[q[i]]
    PROVE  PairUp(q, g) = PairUp(q, f)
  BY DEF PairUp

LEMMA PairUpAppend ==
    ASSUME NEW q \in Seq(Nat), NEW c \in Nat, NEW f, NEW g,
           \A i \in DOMAIN q : g[q[i]] = f[q[i]] /\ f[q[i]] \in Nat,
           NEW x \in Entries, x.task = c, x.wants = g[c],
           NEW l, l = PairUp(Append(q, c), g)
    PROVE  l = Append(PairUp(q, f), x)
<1>0. x = [task |-> c, wants |-> g[c]] /\ g[c] \in Nat
  BY DEF Entries
<1> DEFINE n == Len(q)
           r == Append(PairUp(q, f), x)
<1>1. /\ Append(q, c) \in Seq(Nat) /\ n \in Nat /\ Len(Append(q, c)) = n + 1
      /\ DOMAIN Append(q, c) = 1..(n + 1) /\ DOMAIN q = 1..n
      /\ Append(q, c)[n + 1] = c /\ \A i \in 1..n : Append(q, c)[i] = q[i]
  BY AppendFacts
<1>2. \A i \in DOMAIN Append(q, c) : g[Append(q, c)[i]] \in Nat
  BY <1>0, <1>1
<1>3. /\ l \in Seq(Entries) /\ Len(l) = n + 1
      /\ \A i \in 1..(n + 1) : l[i] = [task |-> Append(q, c)[i], wants |-> g[Append(q, c)[i]]]
  <2> DEFINE qc == Append(q, c)
  <2>1. qc \in Seq(Nat) /\ Len(qc) = n + 1 /\ \A i \in DOMAIN qc : g[qc[i]] \in Nat
    BY <1>1, <1>2
  <2> HIDE DEF qc, n
  <2>2. /\ PairUp(qc, g) \in Seq(Entries) /\ Len(PairUp(qc, g)) = Len(qc)
        /\ \A i \in 1..Len(qc) : PairUp(qc, g)[i] = [task |-> qc[i], wants |-> g[qc[i]]]
    <3> HIDE DEF r
    <3> QED BY <2>1, PairUpFacts
  <2> QED BY <2>1, <2>2 DEF qc
<1>4. /\ PairUp(q, f) \in Seq(Entries) /\ Len(PairUp(q, f)) = n
      /\ \A i \in 1..n : PairUp(q, f)[i] = [task |-> q[i], wants |-> f[q[i]]]
  <2>1. n = Len(q) /\ \A i \in DOMAIN q : f[q[i]] \in Nat
    OBVIOUS
  <2> HIDE DEF n, r
  <2>2. /\ PairUp(q, f) \in Seq(Entries) /\ Len(PairUp(q, f)) = Len(q)
        /\ \A i \in 1..Len(q) : PairUp(q, f)[i] = [task |-> q[i], wants |-> f[q[i]]]
    BY <2>1, PairUpFacts
  <2> QED BY <2>1, <2>2
<1>6. /\ r \in Seq(Entries) /\ Len(r) = n + 1 /\ r[n + 1] = x
      /\ \A i \in 1..n : r[i] = PairUp(q, f)[i]
  BY <1>1, <1>4, AppendProperties
<1> HIDE DEF n, r
<1>7. ASSUME NEW i \in 1..(n + 1) PROVE l[i] = r[i]
  <2>1. CASE i = n + 1
    BY <1>0, <1>1, <1>3, <1>6, <2>1
  <2>2. CASE i # n + 1
    <3>1. i \in 1..n /\ i \in DOMAIN q
      BY <1>1, <2>2
    <3>2. Append(q, c)[i] = q[i] /\ g[q[i]] = f[q[i]]
      BY <1>1, <3>1
    <3> QED BY <1>3, <1>4, <1>6, <3>1, <3>2
  <2> QED BY <2>1, <2>2
<1>8. l = r
  BY <1>3, <1>6, <1>7, SeqEqual
<1> QED BY <1>8 DEF r

LEMMA PairUpRest ==
    ASSUME NEW q \in Seq(Nat), NEW k \in 0..Len(q), NEW f, NEW g,
           \A i \in DOMAIN q : g[q[i]] = f[q[i]] /\ f[q[i]] \in Nat
    PROVE  PairUp(SubSeq(q, k + 1, Len(q)), g) = SubSeq(PairUp(q, f), k + 1, Len(q))
<1> DEFINE n == Len(q)
           rest == SubSeq(q, k + 1, n)
           l == PairUp(rest, g)
           r == SubSeq(PairUp(q, f), k + 1, n)
<1>1. /\ rest \in Seq(Nat) /\ n \in Nat /\ Len(rest) = n - k /\ DOMAIN rest = 1..(n - k)
      /\ DOMAIN q = 1..n /\ \A i \in 1..(n - k) : rest[i] = q[k + i]
  BY RestFacts
<1>2. PairUp(q, f) \in Seq(Entries) /\ Len(PairUp(q, f)) = n
      /\ \A i \in 1..n : PairUp(q, f)[i] = [task |-> q[i], wants |-> f[q[i]]]
  <2>1. n = Len(q) /\ \A i \in DOMAIN q : f[q[i]] \in Nat
    OBVIOUS
  <2> HIDE DEF n, l, r, rest
  <2>2. /\ PairUp(q, f) \in Seq(Entries) /\ Len(PairUp(q, f)) = Len(q)
        /\ \A i \in 1..Len(q) : PairUp(q, f)[i] = [task |-> q[i], wants |-> f[q[i]]]
    BY <2>1, PairUpFacts
  <2> QED BY <2>1, <2>2
<1>3. k \in 0..n
  OBVIOUS
<1>4. /\ r \in Seq(Entries) /\ Len(r) = n - k
      /\ \A i \in 1..(n - k) : r[i] = PairUp(q, f)[k + i]
  <2> HIDE DEF n
  <2>1. \A i \in (k + 1)..n : PairUp(q, f)[i] \in Entries
    <3>1. \A i \in (k + 1)..n : i \in 1..n
      BY <1>1, <1>3
    <3> QED BY <1>2, <3>1, ElementOfSeq
  <2>2. k + 1 \in Int /\ n \in Int
    BY <1>1, <1>3
  <2>3. /\ r \in Seq(Entries) /\ Len(r) = (IF k + 1 <= n THEN n - (k + 1) + 1 ELSE 0)
        /\ \A i \in 1..(n - (k + 1) + 1) : r[i] = PairUp(q, f)[(k + 1) + i - 1]
    BY <2>1, <2>2, SubSeqProperties
  <2>4. n - (k + 1) + 1 = n - k /\ (IF k + 1 <= n THEN n - (k + 1) + 1 ELSE 0) = n - k
    BY <1>1, <1>3
  <2>5. \A i \in 1..(n - k) : (k + 1) + i - 1 = k + i
    BY <1>1, <1>3
  <2> HIDE DEF r
  <2> QED BY <2>3, <2>4, <2>5
<1>5. \A i \in 1..(n - k) : k + i \in 1..n
  <2> HIDE DEF n
  <2> QED BY <1>1, <1>3
<1>6. /\ l \in Seq(Entries) /\ Len(l) = n - k
      /\ \A i \in 1..(n - k) : l[i] = [task |-> rest[i], wants |-> g[rest[i]]]
  <2>1. \A i \in DOMAIN rest : g[rest[i]] \in Nat
    <3> HIDE DEF rest, n
    <3>1. \A i \in DOMAIN rest : k + i \in DOMAIN q /\ rest[i] = q[k + i]
      BY <1>1, <1>5
    <3>2. \A i \in DOMAIN q : g[q[i]] \in Nat
      OBVIOUS
    <3> QED BY <3>1, <3>2
  <2>2. rest \in Seq(Nat) /\ \A i \in DOMAIN rest : g[rest[i]] \in Nat
    <3> HIDE DEF rest, n
    <3> QED BY <1>1, <2>1
  <2> HIDE DEF rest, n, r
  <2>3. /\ PairUp(rest, g) \in Seq(Entries) /\ Len(PairUp(rest, g)) = Len(rest)
        /\ \A i \in 1..Len(rest) : PairUp(rest, g)[i] = [task |-> rest[i], wants |-> g[rest[i]]]
    BY <2>2, PairUpFacts
  <2> QED BY <1>1, <2>3
<1> HIDE DEF n, l, r, rest
<1>7. ASSUME NEW i \in 1..(n - k) PROVE l[i] = r[i]
  <2>1. k + i \in 1..n /\ k + i \in DOMAIN q
    BY <1>1, <1>5
  <2>2. rest[i] = q[k + i]
    BY <1>1
  <2>3. g[rest[i]] = f[q[k + i]]
    BY <2>1, <2>2
  <2> QED BY <1>2, <1>4, <1>6, <2>1, <2>2, <2>3
<1>8. l = r
  BY <1>4, <1>6, <1>7, SeqEqual
<1> QED BY <1>8 DEF l, r, n, rest

\* The line of the abstract semaphore is the queue with the amounts.
LEMMA LineFacts ==
    ASSUME SemaphoreInv, NEW s \in DOMAIN semaphore
    PROVE  LET q == semaphore[s].wait_queue
           IN /\ q \in Seq(Nat) /\ Len(q) \in Nat /\ DOMAIN q = 1..Len(q)
              /\ DOMAIN Line(s) = 1..Len(q) /\ Len(Line(s)) = Len(q)
              /\ Line(s) \in Seq(Entries) /\ Line(s) = PairUp(q, amount)
              /\ \A i \in 1..Len(q) : /\ Line(s)[i] = [task |-> q[i], wants |-> amount[q[i]]]
                                      /\ Line(s)[i].task = q[i] /\ Line(s)[i].wants = amount[q[i]]
                                      /\ q[i] \in 0..MaxPid /\ amount[q[i]] \in Nat
<1> DEFINE q == semaphore[s].wait_queue
<1>1. q \in Seq(Nat) /\ \A i \in DOMAIN q : q[i] \in DOMAIN PD
  BY DEF SemaphoreInv, ObjectsOK, ObjectOK, SemaphoreType, ToSet
<1>2. DOMAIN PD \subseteq 0..MaxPid
  BY LenProperties, EnvironmentAssumption DEF SemaphoreInv, Inv, Table, VarTypes
<1>3. Len(q) \in Nat /\ DOMAIN q = 1..Len(q)
  BY <1>1, LenProperties
<1>4. Line(s) = [i \in DOMAIN q |-> [task |-> q[i], wants |-> amount[q[i]]]]
  BY DEF Line
<1> HIDE DEF q
<1>5. \A i \in 1..Len(q) : q[i] \in 0..MaxPid /\ amount[q[i]] \in Nat
  <2>1. \A i \in 1..Len(q) : q[i] \in 0..MaxPid
    BY <1>1, <1>2, <1>3
  <2> QED BY <2>1 DEF SemaphoreInv, AmountsOK
<1>6. Line(s) = PairUp(q, amount)
  BY <1>4 DEF PairUp
<1>7. /\ Line(s) \in Seq(Entries) /\ Len(Line(s)) = Len(q)
      /\ DOMAIN Line(s) = 1..Len(q)
      /\ \A i \in 1..Len(q) : Line(s)[i] = [task |-> q[i], wants |-> amount[q[i]]]
  BY <1>1, <1>3, <1>5, <1>6, PairUpFacts
<1>8. \A i \in 1..Len(q) : Line(s)[i].task = q[i] /\ Line(s)[i].wants = amount[q[i]]
  BY <1>7
<1> QED BY <1>1, <1>3, <1>5, <1>6, <1>7, <1>8 DEF q

\* Sums of the same values are equal.
LEMMA SumsAgree ==
    ASSUME NEW n \in Nat, NEW f, NEW g, NEW a, f[0] = g[0],
           \A j \in 1..n : f[j] = f[j - 1] + a[j] /\ g[j] = g[j - 1] + a[j]
    PROVE  \A k \in 0..n : f[k] = g[k]
<1> DEFINE T == {j \in 0..n : f[j] # g[j]}
<1>1. CASE T = {}
  BY <1>1
<1>2. CASE T # {}
  <2>1. PICK m \in T : \A l \in T : m <= l
    <3>1. T \subseteq Nat
      OBVIOUS
    <3> QED BY <1>2, <3>1, LeastElement
  <2>2. m # 0
    BY <2>1
  <2>3. m \in 1..n /\ m - 1 \in 0..n /\ m - 1 \notin T
    BY <2>1, <2>2
  <2>4. f[m - 1] = g[m - 1]
    BY <2>3
  <2> QED BY <2>1, <2>3, <2>4
<1> QED BY <1>1, <1>2

\* What the first k in the line want is what the kernel finds that they need.
LEMMA WantedIsNeed ==
    ASSUME SemaphoreInv, AmountsOK', NEW s \in DOMAIN semaphore,
           LET q == semaphore[s].wait_queue IN \A i \in DOMAIN q : amount'[q[i]] = amount[q[i]]
    PROVE  LET q == semaphore[s].wait_queue
           IN \A k \in 0..Len(q) : Counting(s)!Wanted(k) = Need(q, k)
<1> DEFINE q == semaphore[s].wait_queue
           n == Len(q)
           a == [j \in 1..n |-> amount[q[j]]]
           L == Line(s)
           Is(f) == f = [j \in 0..Len(L) |-> IF j = 0 THEN 0 ELSE f[j - 1] + L[j].wants]
           sum == CHOOSE f : Is(f)
<1>1. \A k : Counting(s)!Wanted(k) = sum[k]
  BY DEF Counting!Wanted
<1>2. /\ n \in Nat /\ DOMAIN q = 1..n /\ Len(L) = n
      /\ \A j \in 1..n : L[j].wants = a[j] /\ a[j] \in Nat
  BY LineFacts
<1>3. a \in [1..n -> Nat]
  BY <1>2
<1>4. /\ Need(q, 0) = 0 /\ \A j \in 0..n : Need(q, j) \in Nat
      /\ \A j \in 1..n : Need(q, j) = Need(q, j - 1) + a[j]
  <2>1. /\ Need(q, 0) = 0 /\ \A j \in 0..n : Need(q, j) \in Nat
        /\ \A j \in 0..(n - 1) : Need(q, j + 1) = Need(q, j) + amount'[q[j + 1]]
    BY QueueNeeds
  <2>2. \A j \in 1..n : amount'[q[j]] = a[j]
    BY <1>2
  <2> HIDE DEF q, n, a
  <2>3. ASSUME NEW j \in 1..n PROVE Need(q, j) = Need(q, j - 1) + a[j]
    <3>1. j - 1 \in 0..(n - 1) /\ (j - 1) + 1 = j
      BY <1>2
    <3> QED BY <2>1, <2>2, <3>1
  <2> QED BY <2>1, <2>3
<1>0. n \in Nat
  BY <1>2
<1> DEFINE need == [j \in 0..n |-> Need(q, j)]
<1> HIDE DEF q, a, L
<1>5. Is(need)
  <2> HIDE DEF n
  <2> DEFINE h == [j \in 0..Len(L) |-> IF j = 0 THEN 0 ELSE need[j - 1] + L[j].wants]
  <2>1. \A j \in 0..n : need[j] = h[j]
    <3>1. ASSUME NEW j \in 0..n, j # 0 PROVE need[j] = h[j]
      <4>1. j \in 1..n /\ j - 1 \in 0..n
        BY <1>2, <3>1
      <4> QED BY <1>2, <1>4, <4>1
    <3> QED BY <1>2, <1>4, <3>1
  <2>2. DOMAIN h = 0..n /\ DOMAIN need = 0..n /\ need = [j \in 0..n |-> need[j]] /\ h = [j \in 0..n |-> h[j]]
    BY <1>2
  <2> HIDE DEF h, need
  <2>3. need = h
    BY <2>1, <2>2
  <2> QED BY <2>3 DEF h
<1>6. Is(sum)
  <2> HIDE DEF Is, need
  <2> QED BY <1>5
<1> HIDE DEF sum, n
<1>7. sum[0] = 0 /\ \A j \in 1..n : sum[j] = sum[j - 1] + a[j]
  <2>1. n = Len(L) /\ \A j \in 1..n : j \in 0..Len(L) /\ j # 0 /\ L[j].wants = a[j]
    BY <1>2
  <2>2. 0 \in 0..Len(L)
    BY <1>2
  <2> DEFINE h == [j \in 0..Len(L) |-> IF j = 0 THEN 0 ELSE sum[j - 1] + L[j].wants]
  <2>3. sum = h
    BY <1>6
  <2>4. h[0] = 0 /\ \A j \in 1..n : h[j] = sum[j - 1] + a[j]
    BY <2>1, <2>2
  <2> HIDE DEF h, Is
  <2> QED BY <2>3, <2>4
<1>8. need[0] = 0 /\ \A j \in 1..n : need[j] = need[j - 1] + a[j]
  <2>1. ASSUME NEW j \in 1..n PROVE need[j] = need[j - 1] + a[j]
    <3>1. j \in 0..n /\ j - 1 \in 0..n
      <4> HIDE DEF need
      <4> QED BY <1>0
    <3> QED BY <1>4, <3>1
  <2>2. need[0] = 0
    BY <1>0, <1>4
  <2> QED BY <2>1, <2>2
<1>9. \A k \in 0..n : sum[k] = need[k]
  <2> HIDE DEF need, Is
  <2>1. n \in Nat /\ sum[0] = need[0]
    BY <1>0, <1>7, <1>8
  <2>2. \A j \in 1..n : sum[j] = sum[j - 1] + a[j] /\ need[j] = need[j - 1] + a[j]
    BY <1>7, <1>8
  <2> QED BY <2>1, <2>2, SumsAgree
<1> QED BY <1>1, <1>9 DEF q, n

\* Whoever waits does not run, and so keeps the amount it has asked for.
LEMMA QueueKeepsAmounts ==
    ASSUME SemaphoreInv, WaitInv, ~SelfSuspend, OwnAmount, NEW s \in DOMAIN semaphore
    PROVE  LET q == semaphore[s].wait_queue
           IN \A i \in DOMAIN q : /\ amount'[q[i]] = amount[q[i]]
                                  /\ Running => q[i] # Current_Process
<1> DEFINE q == semaphore[s].wait_queue
<1> SUFFICES ASSUME NEW i \in DOMAIN q
             PROVE  amount'[q[i]] = amount[q[i]] /\ (Running => q[i] # Current_Process)
  OBVIOUS
<1>1. q[i] \in DOMAIN PD /\ PD[q[i]].state = "WAIT_SEMAPHORE"
  BY QueuedWaits
<1>2. q[i] \in 0..MaxPid
  BY LineFacts
<1>3. Running => q[i] # Current_Process
  BY <1>1, CallerWaitsNot
<1> QED BY <1>2, <1>3 DEF OwnAmount

CountingStep(s) == [Counting(s)!CountingNext]_(Counting(s)!countingVars)

\* What is done to the others does not concern a semaphore.
LEMMA OtherSemaphoreStep ==
    ASSUME SemaphoreInv, WaitInv, ~SelfSuspend, OwnAmount, NEW s,
           s \in DOMAIN semaphore' <=> s \in DOMAIN semaphore,
           s \in DOMAIN semaphore => semaphore'[s] = semaphore[s]
    PROVE  CountingStep(s)
<1>1. CASE s \in DOMAIN semaphore
  <2>1. Line(s)' = Line(s)
    BY <1>1, QueueKeepsAmounts DEF Line
  <2> QED BY <1>1, <2>1 DEF CountingStep, Counting!countingVars
<1>2. CASE s \notin DOMAIN semaphore
  BY <1>2 DEF CountingStep, Counting!countingVars
<1> QED BY <1>1, <1>2

\* A semaphore is made with its first counts, and nobody waits.
LEMMA MakeStep ==
    ASSUME SemaphoreInv, NEW n, n = Len(semaphore) + 1, NEW c \in InitialCounts, NEW b \in Binary,
           semaphore' = Append(semaphore, NewSemaphore(c, b))
    PROVE  CountingStep(n)
<1>1. /\ n \in DOMAIN semaphore' /\ n \notin DOMAIN semaphore
      /\ semaphore'[n] = NewSemaphore(c, b) /\ semaphore'[n].wait_queue = <<>>
  BY NewObject
<1>2. Line(n)' = <<>>
  BY <1>1 DEF Line
<1>3. /\ semaphore'[n].is_binary \in BOOLEAN
      /\ semaphore'[n].is_binary => semaphore'[n].count \in {0, 1}
  <2>1. b \in BOOLEAN
    BY SemaphoreAssumption
  <2> QED BY <1>1, <2>1 DEF NewSemaphore
<1>4. Counting(n)!Make
  BY <1>1, <1>2, <1>3 DEF Counting!Make
<1> QED BY <1>4 DEF CountingStep, Counting!CountingNext

\* Counts are taken where there are enough.
LEMMA TakeStep ==
    ASSUME SemaphoreInv, WaitInv, ~SelfSuspend, OwnAmount,
           NEW s \in DOMAIN semaphore, NEW n \in Nat, Got(s, n)
    PROVE  CountingStep(s)
<1>1. /\ semaphore[s].count \in Int /\ semaphore[s].is_binary \in BOOLEAN
      /\ s \in DOMAIN semaphore'
  BY DEF SemaphoreInv, ObjectsOK, ObjectOK, SemaphoreType, Got, Became
<1>2. Asked(s, n) \in Nat
  BY <1>1, AskedFacts
<1>3. /\ semaphore'[s].count = semaphore[s].count - Asked(s, n)
      /\ semaphore[s].count - Asked(s, n) >= 0
      /\ semaphore'[s].wait_queue = semaphore[s].wait_queue
      /\ semaphore'[s].is_binary = semaphore[s].is_binary
  BY DEF Got, Became, HasEnough
<1>4. Line(s)' = Line(s)
  BY <1>3, QueueKeepsAmounts DEF Line
<1>5. 0 <= semaphore'[s].count /\ semaphore'[s].count <= semaphore[s].count
  BY <1>1, <1>2, <1>3
<1>6. Counting(s)!Take
  BY <1>1, <1>3, <1>4, <1>5 DEF Counting!Take
<1> QED BY <1>6 DEF CountingStep, Counting!CountingNext

\* Whoever has to wait goes to the end of the line.
LEMMA AskStep ==
    ASSUME SemaphoreInv, WaitInv, ~SelfSuspend, OwnAmount, Running,
           NEW s \in DOMAIN semaphore, NEW n \in Nat, Joined(s, n)
    PROVE  CountingStep(s)
<1> DEFINE c == Current_Process
           q == semaphore[s].wait_queue
           x == [task |-> c, wants |-> amount'[c]]
<1>1. /\ semaphore[s].count \in Int /\ semaphore[s].is_binary \in BOOLEAN
      /\ s \in DOMAIN semaphore'
  BY DEF SemaphoreInv, ObjectsOK, ObjectOK, SemaphoreType, Joined, Became
<1>2. Asked(s, n) \in Nat
  BY <1>1, AskedFacts
<1>3. /\ amount'[c] \in Nat /\ ~(semaphore[s].count - amount'[c] >= 0)
      /\ semaphore'[s].count = semaphore[s].count
      /\ semaphore'[s].wait_queue = Append(q, c)
      /\ semaphore'[s].is_binary = semaphore[s].is_binary
  BY <1>2 DEF Joined, Became, HasEnough
<1>4. c \in 1..MaxPid /\ c \in Nat
  BY CallerWaitsNot, LenProperties, EnvironmentAssumption DEF SemaphoreInv, Inv, Table, VarTypes
<1>5. /\ q \in Seq(Nat) /\ DOMAIN Line(s) = DOMAIN q /\ Len(Line(s)) \in Nat
      /\ Line(s) = PairUp(q, amount)
      /\ Line(s) \in Seq(Entries)
      /\ \A i \in DOMAIN q : Line(s)[i].task = q[i] /\ amount[q[i]] \in Nat
  <2> HIDE DEF c, x
  <2> QED BY LineFacts
<1>6. \A i \in DOMAIN q : amount'[q[i]] = amount[q[i]] /\ q[i] # c
  BY QueueKeepsAmounts
<1> HIDE DEF c, q
<1>7. x \in Entries /\ x.task = c /\ x.wants = amount'[c]
  BY <1>3, <1>4 DEF Entries
<1> HIDE DEF x
<1>8. PairUp(Append(q, c), amount') = Append(PairUp(q, amount), x)
  <2>1. q \in Seq(Nat) /\ c \in Nat
    BY <1>4, <1>5
  <2>2. \A i \in DOMAIN q : amount'[q[i]] = amount[q[i]] /\ amount[q[i]] \in Nat
    BY <1>5, <1>6
  <2> QED BY <1>7, <2>1, <2>2, PairUpAppend
<1>9. Line(s)' = Append(Line(s), x)
  BY <1>3, <1>5, <1>8 DEF Line, PairUp
<1>10. Len(Append(Line(s), x)) = Len(Line(s)) + 1 /\ Append(Line(s), x)[Len(Line(s)) + 1] = x
  BY <1>5, <1>7, AppendProperties
<1>11. x.wants > semaphore[s].count
  BY <1>1, <1>3, <1>7
<1>12. Counting(s)!Ask(c)
  BY <1>1, <1>3, <1>5, <1>6, <1>7, <1>9, <1>10, <1>11 DEF Counting!Ask
<1> QED BY <1>4, <1>12 DEF CountingStep, Counting!CountingNext

\* A count of a binary semaphore is at most 1, and giving takes none away.
LEMMA MoreFacts ==
    ASSUME SemaphoreInv, NEW s \in DOMAIN semaphore, NEW n \in Nat
    PROVE  /\ semaphore[s].count \in Int /\ semaphore[s].is_binary \in BOOLEAN
           /\ Given(s, n) \in Int /\ Given(s, n) >= semaphore[s].count
           /\ semaphore[s].is_binary => Given(s, n) <= 1
<1>1. /\ semaphore[s].count \in Int /\ semaphore[s].is_binary \in BOOLEAN
      /\ semaphore[s].is_binary => semaphore[s].count <= 1
  BY DEF SemaphoreInv, ObjectsOK, ObjectOK, SemaphoreType
<1> QED BY <1>1 DEF Given

\* There is nobody to give to, or nothing to give: the head of the queue wants
\* more than nothing.
LEMMA PutAsideStep ==
    ASSUME SemaphoreInv, AmountsOK', WaitInv, ~SelfSuspend, OwnAmount,
           NEW s \in DOMAIN semaphore, NEW n \in Nat, GaveToNobody(s, n),
           semaphore[s].count >= 0, Short(s)
    PROVE  CountingStep(s)
<1> DEFINE q == semaphore[s].wait_queue
<1>1. /\ semaphore[s].count \in Int /\ semaphore[s].is_binary \in BOOLEAN
      /\ Given(s, n) \in Int /\ Given(s, n) >= semaphore[s].count
      /\ semaphore[s].is_binary => Given(s, n) <= 1
  BY MoreFacts
<1>2. /\ s \in DOMAIN semaphore' /\ semaphore'[s].count = Given(s, n)
      /\ semaphore'[s].wait_queue = q /\ semaphore'[s].is_binary = semaphore[s].is_binary
  BY DEF GaveToNobody, Became
<1>3. Line(s)' = Line(s)
  BY <1>2, QueueKeepsAmounts DEF Line
<1>4. /\ Line(s) \in Seq(Entries) /\ Len(Line(s)) = Len(q)
      /\ Len(q) \in Nat /\ DOMAIN q = 1..Len(q)
  BY LineFacts
<1>5. /\ \A i \in DOMAIN q : amount'[q[i]] = amount[q[i]]
      /\ \A k \in 0..Len(q) : Counting(s)!Wanted(k) = Need(q, k)
  BY QueueKeepsAmounts, WantedIsNeed
<1>6. Counting(s)!Wanted(0) = 0
  BY <1>4, <1>5, QueueNeeds
<1>7. ASSUME 0 < Len(q) PROVE Counting(s)!Wanted(1) > Given(s, n)
  <2>1. q # <<>>
    BY <1>7
  <2>2. Given(s, n) = 0 /\ semaphore[s].count = 0
    BY <1>1, <2>1 DEF GaveToNobody, MayServe
  <2>3. Head(q) = q[1] /\ 1 \in DOMAIN q /\ semaphore[s].count < amount[q[1]]
    BY <2>1, HeadFacts DEF Short
  <2>4. /\ 0 \in 0..(Len(q) - 1) /\ 1 \in 0..Len(q)
    BY <1>4, <1>7
  <2>5. Need(q, 0 + 1) = Need(q, 0) + amount'[q[0 + 1]] /\ Need(q, 0) = 0
        /\ amount'[q[0 + 1]] \in Nat
    BY <2>4, QueueNeeds
  <2>6. Counting(s)!Wanted(1) = amount[q[1]] /\ amount[q[1]] \in Nat
    BY <1>5, <2>3, <2>4, <2>5
  <2> QED BY <2>2, <2>3, <2>6
<1>8. SubSeq(Line(s), 1, Len(Line(s))) = Line(s)
  BY <1>4, SubSeqFull
<1> HIDE DEF q
<1>9. Counting(s)!Put
  <2>1. /\ 0 \in 0..Len(Line(s)) /\ 0 + 1 = 1
        /\ semaphore'[s].count + Counting(s)!Wanted(0) = Given(s, n)
    BY <1>1, <1>2, <1>4, <1>6
  <2>2. semaphore'[s].count >= 0
    BY <1>1, <1>2
  <2> QED BY <1>1, <1>2, <1>3, <1>4, <1>7, <1>8, <2>1, <2>2 DEF Counting!Put
<1> QED BY <1>9 DEF CountingStep, Counting!CountingNext

\* The waiters at the head of the line get what they want, as far as it reaches.
LEMMA HandOutStep ==
    ASSUME SemaphoreInv, AmountsOK', WaitInv, ~SelfSuspend, OwnAmount,
           NEW s \in DOMAIN semaphore, NEW n \in Nat, GaveToWaiters(s, n),
           semaphore[s].count >= 0
    PROVE  CountingStep(s)
<1> DEFINE q == semaphore[s].wait_queue
           g == Given(s, n)
<1>1. /\ semaphore[s].count \in Int /\ semaphore[s].is_binary \in BOOLEAN
      /\ g \in Int /\ g >= semaphore[s].count
      /\ semaphore[s].is_binary => g <= 1
  BY MoreFacts
<1>2. PICK k \in 0..Len(q) : /\ Serves(g, q, k)
                             /\ Became(s, g - Need(q, k), SubSeq(q, k + 1, Len(q)))
  BY DEF GaveToWaiters
<1>3. /\ s \in DOMAIN semaphore' /\ semaphore'[s].count = g - Need(q, k)
      /\ semaphore'[s].wait_queue = SubSeq(q, k + 1, Len(q))
      /\ semaphore'[s].is_binary = semaphore[s].is_binary
  BY <1>2 DEF Became
<1>4. /\ q \in Seq(Nat) /\ Line(s) = PairUp(q, amount) /\ Len(Line(s)) = Len(q)
      /\ Len(q) \in Nat /\ DOMAIN q = 1..Len(q) /\ \A i \in DOMAIN q : amount[q[i]] \in Nat
  BY LineFacts
<1>5. /\ \A i \in DOMAIN q : amount'[q[i]] = amount[q[i]]
      /\ \A j \in 0..Len(q) : Counting(s)!Wanted(j) = Need(q, j) /\ Need(q, j) \in Nat
  BY QueueKeepsAmounts, WantedIsNeed, QueueNeeds
<1>6. Need(q, k) <= g
  <2>1. k = 0 \/ k \in 1..k
    OBVIOUS
  <2>2. Need(q, 0) = 0
    BY QueueNeeds
  <2> QED BY <1>1, <1>2, <2>1, <2>2 DEF Serves
<1>7. ASSUME k < Len(q) PROVE Need(q, k + 1) > g
  <2>1. k + 1 \in DOMAIN q /\ \A j \in 1..k : j \in DOMAIN q /\ j # k + 1
    <3> HIDE DEF q
    <3> QED BY <1>4, <1>7
  <2>2. PD[q[k + 1]].state = "WAIT_SEMAPHORE" /\ \A j \in 1..k : q[j] # q[k + 1]
    BY <2>1, QueuedWaits
  <2>3. 1..(k + 1 - 1) = 1..k
    OBVIOUS
  <2>4. StillWaits(q, k + 1)
    BY <2>2, <2>3 DEF StillWaits
  <2> QED BY <1>2, <1>7, <2>4 DEF Serves
<1> HIDE DEF q, g
<1>8. Line(s)' = SubSeq(Line(s), k + 1, Len(Line(s)))
  <2>1. PairUp(SubSeq(q, k + 1, Len(q)), amount') = SubSeq(PairUp(q, amount), k + 1, Len(q))
    BY <1>4, <1>5, PairUpRest
  <2> QED BY <1>3, <1>4, <2>1 DEF Line, PairUp
<1>9. /\ semaphore'[s].count >= 0 /\ semaphore'[s].count + Counting(s)!Wanted(k) = g
      /\ k \in 0..Len(Line(s))
  BY <1>1, <1>3, <1>4, <1>5, <1>6
<1>10. k < Len(Line(s)) => Counting(s)!Wanted(k + 1) > g
  <2>1. k < Len(q) => k + 1 \in 0..Len(q)
    BY <1>4
  <2> QED BY <1>4, <1>5, <1>7, <2>1
<1>11. Counting(s)!Put
  BY <1>1, <1>3, <1>8, <1>9, <1>10 DEF Counting!Put
<1> QED BY <1>11 DEF CountingStep, Counting!CountingNext

\* Every step is one of each semaphore, or does not concern it.
LEMMA StepIsCountingStep ==
    ASSUME SemaphoreInv, AmountsOK', WaitInv, NoDebt, CountsAreNotIdle, ~SelfSuspend,
           SemaphoreFates, NEW s
    PROVE  CountingStep(s)
<1>0. OwnAmount
  BY DEF SemaphoreFates
<1>1. CASE semaphore' = semaphore
  BY <1>0, <1>1, OtherSemaphoreStep
<1>2. ASSUME NEW c \in InitialCounts, NEW b \in Binary,
             semaphore' = Append(semaphore, NewSemaphore(c, b))
      PROVE  CountingStep(s)
  <2>0. PICK n : n = Len(semaphore) + 1
    OBVIOUS
  <2>1. CASE s = n
    BY <1>2, <2>0, <2>1, MakeStep
  <2>2. CASE s # n
    <3>1. /\ s \in DOMAIN semaphore' <=> s \in DOMAIN semaphore
          /\ s \in DOMAIN semaphore => semaphore'[s] = semaphore[s]
      BY <1>2, <2>0, <2>2, NewObject
    <3> QED BY <1>0, <3>1, OtherSemaphoreStep
  <2> QED BY <2>1, <2>2
<1>3. ASSUME Running, NEW r \in ToSet(SemaphoreList), NEW n \in Nat,
             r \in DOMAIN semaphore, Outcome(r, n)
      PROVE  CountingStep(s)
  <2>1. CASE s # r
    <3>1. /\ s \in DOMAIN semaphore' <=> s \in DOMAIN semaphore
          /\ s \in DOMAIN semaphore => semaphore'[s] = semaphore[s]
      BY <1>3, <2>1 DEF Outcome, Got, Joined, GaveToNobody, GaveToWaiters, Became
    <3> QED BY <1>0, <3>1, OtherSemaphoreStep
  <2>2. CASE s = r
    <3>1. s \in DOMAIN semaphore /\ Outcome(s, n) /\ semaphore[s].count >= 0 /\ Short(s)
      BY <1>3, <2>2 DEF NoDebt, CountsAreNotIdle, Short
    <3>2. CASE Got(s, n)
      BY <1>0, <3>1, <3>2, TakeStep
    <3>3. CASE Joined(s, n)
      BY <1>0, <1>3, <3>1, <3>3, AskStep
    <3>4. CASE GaveToNobody(s, n)
      BY <1>0, <3>1, <3>4, PutAsideStep
    <3>5. CASE GaveToWaiters(s, n)
      BY <1>0, <3>1, <3>5, HandOutStep
    <3> QED BY <3>1, <3>2, <3>3, <3>4, <3>5 DEF Outcome
  <2> QED BY <2>1, <2>2
<1> QED BY <1>1, <1>2, <1>3 DEF SemaphoreFates

\* Each semaphore of the code is an abstract one: counts go to those who wait in the
\* order in which they asked, as far as the counts reach, and nobody who waits is
\* passed over, served twice or served with what is not there.
THEOREM SemaphoresCount ==
    ASSUME InitialCounts \subseteq Nat, Amounts \subseteq Nat,
           ~SelfSuspend, FreshTimeouts \subseteq {0}
    PROVE  SemaphoreSpec => ImplementsCountingSemaphore
<1> DEFINE Steps == \A s \in 1..MaxSemaphoreID :
               [Counting(s)!CountingNext]_(Counting(s)!countingVars)
<1>1. SemaphoreInit => CountingInv /\ \A s \in 1..MaxSemaphoreID : Counting(s)!CountingInit
  BY CountingInvIsInvariant DEF SemaphoreInit, Counting!CountingInit
<1>2. CountingInv /\ [SemaphoreNext]_allVars => CountingInv'
  BY CountingInvIsInvariant
<1>3. CountingInv /\ [SemaphoreNext]_allVars => Steps
  <2>1. ASSUME CountingInv, [SemaphoreNext]_allVars, NEW s PROVE CountingStep(s)
    <3>1. CountingInv' /\ SemaphoreFates
      BY <2>1, CountingInvIsInvariant
    <3> QED BY <2>1, <3>1, StepIsCountingStep DEF CountingInv, SemaphoreInv
  <2> QED BY <2>1 DEF CountingStep
<1> QED BY <1>1, <1>2, <1>3, PTL DEF SemaphoreSpec, ImplementsCountingSemaphore

=============================================================================
