---------------------------- MODULE ClientsProofs ----------------------------
(***************************************************************************)
(* Theorems about Clients: what is proved of semaphores and of mutexes is  *)
(* put together, for every value of the constants with                     *)
(* Amounts \subseteq Nat in which no task suspends itself.                 *)
(***************************************************************************)
EXTENDS Clients, SemaphoreProofs, MutexProofs

-----------------------------------------------------------------------------
(* Sums.                                                                   *)

\* What each task has, as a function.
Shares == [1..MaxPid -> Nat]

\* t[p] is the sum of the first p shares.
Sums(f, t) ==
    /\ t \in [0..MaxPid -> Nat] /\ t[0] = 0
    /\ \A p \in 1..MaxPid : t[p] = t[p - 1] + f[p]

LEMMA TotalIsSum ==
    ASSUME NEW f \in Shares
    PROVE  \E t : Sums(f, t) /\ Total(f) = t[MaxPid]
<1> DEFINE n == MaxPid
           Is(t) == t = [p \in 0..n |-> IF p = 0 THEN 0 ELSE t[p - 1] + f[p]]
           total == CHOOSE t : Is(t)
<1>1. n \in Nat
  BY EnvironmentAssumption
<1>2. Total(f) = total[n]
  BY DEF Total
<1>3. PICK t \in [0..n -> Nat] : t[0] = 0 /\ \A p \in 1..n : t[p] = t[p - 1] + f[p]
  <2> f \in [1..n -> Nat]
    BY DEF Shares
  <2> HIDE DEF n
  <2> QED BY <1>1, PartialSumsExist
<1>4. Is(t)
  <2> DEFINE h == [p \in 0..n |-> IF p = 0 THEN 0 ELSE t[p - 1] + f[p]]
  <2>1. \A p \in 0..n : t[p] = h[p]
    BY <1>1, <1>3
  <2>2. t = [p \in 0..n |-> t[p]] /\ h = [p \in 0..n |-> h[p]]
    BY <1>3
  <2> HIDE DEF h
  <2>3. t = h
    BY <2>1, <2>2
  <2> QED BY <2>3 DEF h
<1>5. Is(total)
  <2> HIDE DEF Is
  <2> QED BY <1>4
<1> HIDE DEF total
<1>6. DOMAIN total = 0..n /\ total[0] = 0 /\ \A p \in 1..n : total[p] = total[p - 1] + f[p]
  BY <1>1, <1>5
<1>7. \A p \in 0..n : total[p] = t[p]
  <2> DEFINE T == {p \in 0..n : total[p] # t[p]}
  <2>1. SUFFICES ASSUME T # {} PROVE FALSE
    OBVIOUS
  <2>2. PICK m \in T : \A l \in T : m <= l
    <3>1. T \subseteq Nat
      OBVIOUS
    <3> QED BY <2>1, <3>1, LeastElement
  <2>3. m # 0
    BY <1>3, <1>6, <2>2
  <2>4. m \in 1..n /\ m - 1 \in 0..n /\ m - 1 \notin T
    BY <1>1, <2>2, <2>3
  <2>5. total[m - 1] = t[m - 1] /\ m \in T
    BY <2>2, <2>4
  <2> QED BY <1>3, <1>6, <2>4, <2>5
<1>8. total = t
  <2> DEFINE h == [p \in 0..n |-> IF p = 0 THEN 0 ELSE total[p - 1] + f[p]]
  <2>1. total = h
    BY <1>5
  <2>2. h = [p \in 0..n |-> h[p]] /\ t = [p \in 0..n |-> t[p]]
    BY <1>3
  <2> HIDE DEF h
  <2>3. \A p \in 0..n : h[p] = t[p]
    BY <1>7, <2>1
  <2> QED BY <2>1, <2>2, <2>3
<1> QED BY <1>2, <1>3, <1>8 DEF Sums

LEMMA TotalIsNat == ASSUME NEW f \in Shares PROVE Total(f) \in Nat
<1>1. PICK t : Sums(f, t) /\ Total(f) = t[MaxPid]
  BY TotalIsSum
<1> QED BY <1>1, EnvironmentAssumption DEF Sums

\* When one share changes, the sum changes with it.
LEMMA OneShareChanged ==
    ASSUME NEW f \in Shares, NEW g \in Shares, NEW p \in 1..MaxPid,
           \A q \in 1..MaxPid : q # p => g[q] = f[q]
    PROVE  Total(g) = Total(f) - f[p] + g[p]
<1>1. PICK t : Sums(f, t) /\ Total(f) = t[MaxPid]
  BY TotalIsSum
<1>2. PICK u : Sums(g, u) /\ Total(g) = u[MaxPid]
  BY TotalIsSum
<1>3. MaxPid \in Nat /\ f[p] \in Nat /\ g[p] \in Nat
  BY EnvironmentAssumption DEF Shares
<1> DEFINE Right(i) == u[i] = IF i < p THEN t[i] ELSE t[i] - f[p] + g[p]
           T == {i \in 0..MaxPid : ~Right(i)}
<1>4. T = {}
  <2>1. SUFFICES ASSUME T # {} PROVE FALSE
    OBVIOUS
  <2>2. PICK m \in T : \A l \in T : m <= l
    <3>1. T \subseteq Nat
      OBVIOUS
    <3> QED BY <2>1, <3>1, LeastElement
  <2>3. m # 0
    BY <1>1, <1>2, <2>2 DEF Sums
  <2>4. m \in 1..MaxPid /\ m - 1 \in 0..MaxPid /\ m - 1 \notin T
    BY <1>3, <2>2, <2>3
  <2>5. Right(m - 1) /\ ~Right(m)
    BY <2>2, <2>4
  <2>6. /\ t[m] = t[m - 1] + f[m] /\ u[m] = u[m - 1] + g[m]
        /\ t[m - 1] \in Nat /\ u[m - 1] \in Nat /\ f[m] \in Nat /\ g[m] \in Nat
    BY <1>1, <1>2, <2>4 DEF Sums, Shares
  <2>7. CASE m < p
    <3>1. g[m] = f[m] /\ m - 1 < p
      BY <2>4, <2>7
    <3> QED BY <2>5, <2>6, <2>7, <3>1
  <2>8. CASE m = p
    <3>1. m - 1 < p /\ ~(m < p)
      BY <2>4, <2>8
    <3> QED BY <2>5, <2>6, <2>8, <3>1
  <2>9. CASE m > p
    <3>1. g[m] = f[m] /\ ~(m - 1 < p) /\ ~(m < p)
      BY <2>4, <2>9
    <3> QED BY <1>3, <2>5, <2>6, <3>1
  <2> QED BY <2>4, <2>7, <2>8, <2>9
<1>5. Right(MaxPid)
  BY <1>3, <1>4
<1> QED BY <1>1, <1>2, <1>3, <1>5

\* Nobody has more than all together, and nothing is the sum of nothing.
LEMMA ShareBounded ==
    ASSUME NEW f \in Shares, NEW p \in 1..MaxPid
    PROVE  f[p] <= Total(f)
<1> DEFINE g == [f EXCEPT ![p] = 0]
<1>1. g \in Shares /\ g[p] = 0 /\ \A q \in 1..MaxPid : q # p => g[q] = f[q]
  BY DEF Shares
<1> HIDE DEF g
<1>2. Total(g) = Total(f) - f[p] + g[p]
  BY <1>1, OneShareChanged
<1>3. Total(f) \in Nat /\ Total(g) \in Nat /\ f[p] \in Nat
  BY <1>1, TotalIsNat DEF Shares
<1> QED BY <1>1, <1>2, <1>3

LEMMA NothingTotal ==
    ASSUME NEW f \in Shares, \A p \in 1..MaxPid : f[p] = 0
    PROVE  Total(f) = 0
<1>1. PICK t : Sums(f, t) /\ Total(f) = t[MaxPid]
  BY TotalIsSum
<1>2. MaxPid \in Nat
  BY EnvironmentAssumption
<1> DEFINE T == {i \in 0..MaxPid : t[i] # 0}
<1>3. T = {}
  <2>1. SUFFICES ASSUME T # {} PROVE FALSE
    OBVIOUS
  <2>2. PICK m \in T : \A l \in T : m <= l
    <3>1. T \subseteq Nat
      OBVIOUS
    <3> QED BY <2>1, <3>1, LeastElement
  <2>3. m # 0
    BY <1>1, <2>2 DEF Sums
  <2>4. m \in 1..MaxPid /\ m - 1 \in 0..MaxPid /\ m - 1 \notin T
    BY <1>2, <2>2, <2>3
  <2>5. t[m - 1] = 0 /\ t[m] # 0
    BY <2>2, <2>4
  <2> QED BY <1>1, <2>4, <2>5 DEF Sums
<1> QED BY <1>1, <1>2, <1>3

\* The tasks q[1], ..., q[k] are different, and none of them has anything.
Empty(f, q, k) ==
    /\ q \in [1..k -> 1..MaxPid]
    /\ \A i, j \in 1..k : q[i] = q[j] => i = j
    /\ \A j \in 1..k : f[q[j]] = 0

\* Instead of f the tasks have g: each of the first k of q has what it wants.
Granted(f, g, wanted, q, k) ==
    \A p \in 1..MaxPid : g[p] = IF \E j \in 1..k : q[j] = p THEN wanted[p] ELSE f[p]

\* need[j] is what the first j of q want together.
AddsUp(need, wanted, q, k) ==
    /\ need \in [0..k -> Nat] /\ need[0] = 0
    /\ \A j \in 1..k : need[j] = need[j - 1] + wanted[q[j]]

\* When the tasks q[1], ..., q[k], who have nothing, are given what they want,
\* the sum grows by what they want together.
LEMMA ServedTotal ==
    ASSUME NEW f \in Shares, NEW g \in Shares, NEW wanted \in Shares, NEW k \in Nat,
           NEW q, Empty(f, q, k), Granted(f, g, wanted, q, k),
           NEW need, AddsUp(need, wanted, q, k)
    PROVE  Total(g) = Total(f) + need[k]
<1>0. q \in [1..k -> 1..MaxPid] /\ need \in [0..k -> Nat]
  BY DEF Empty, AddsUp
<1> DEFINE h(i) == [p \in 1..MaxPid |-> IF \E j \in 1..i : q[j] = p THEN wanted[p] ELSE f[p]]
<1>1. \A i \in 0..k : h(i) \in Shares
  BY DEF Shares
<1>2. h(0) = f /\ h(k) = g
  <2>1. \A p \in 1..MaxPid : h(0)[p] = f[p] /\ h(k)[p] = g[p]
    BY DEF Granted
  <2>2. /\ f = [p \in 1..MaxPid |-> f[p]] /\ g = [p \in 1..MaxPid |-> g[p]]
        /\ h(0) = [p \in 1..MaxPid |-> h(0)[p]] /\ h(k) = [p \in 1..MaxPid |-> h(k)[p]]
    BY DEF Shares
  <2> HIDE DEF h
  <2> QED BY <2>1, <2>2
<1>3. ASSUME NEW m \in 1..k
      PROVE  Total(h(m)) = Total(h(m - 1)) + wanted[q[m]]
  <2>1. m - 1 \in 0..k /\ m \in 0..k /\ q[m] \in 1..MaxPid
    BY <1>0
  <2>2. /\ h(m)[q[m]] = wanted[q[m]]
        /\ \A p \in 1..MaxPid : p # q[m] => h(m)[p] = h(m - 1)[p]
    <3>1. \A j \in 1..m : j = m \/ j \in 1..(m - 1)
      OBVIOUS
    <3>2. \A j \in 1..(m - 1) : j \in 1..m
      OBVIOUS
    <3>3. m \in 1..m
      OBVIOUS
    <3> QED BY <2>1, <3>1, <3>2, <3>3
  <2>3. h(m - 1)[q[m]] = 0
    <3>1. \A j \in 1..(m - 1) : j \in 1..k /\ j # m
      OBVIOUS
    <3> QED BY <2>1, <3>1 DEF Empty
  <2>4. h(m) \in Shares /\ h(m - 1) \in Shares
    BY <1>1, <2>1
  <2> HIDE DEF h
  <2>5. Total(h(m)) = Total(h(m - 1)) - h(m - 1)[q[m]] + h(m)[q[m]]
    BY <2>1, <2>2, <2>4, OneShareChanged
  <2>6. Total(h(m - 1)) \in Nat /\ wanted[q[m]] \in Nat
    BY <2>1, <2>4, TotalIsNat DEF Shares
  <2> QED BY <2>2, <2>3, <2>5, <2>6
<1>4. \A i \in 0..k : Total(h(i)) \in Nat
  BY <1>1, TotalIsNat
<1> HIDE DEF h
<1> DEFINE T == {i \in 0..k : Total(h(i)) # Total(f) + need[i]}
<1>5. T = {}
  <2>1. SUFFICES ASSUME T # {} PROVE FALSE
    OBVIOUS
  <2>2. PICK m \in T : \A l \in T : m <= l
    <3>1. T \subseteq Nat
      OBVIOUS
    <3> QED BY <2>1, <3>1, LeastElement
  <2>0. Total(f) \in Nat
    BY TotalIsNat
  <2>3. m # 0
    BY <1>2, <2>0, <2>2 DEF AddsUp
  <2>4. m \in 1..k /\ m - 1 \in 0..k /\ m - 1 \notin T
    BY <2>2, <2>3
  <2>5. Total(h(m - 1)) = Total(f) + need[m - 1] /\ Total(h(m)) # Total(f) + need[m]
    BY <2>2, <2>4
  <2>6. need[m] = need[m - 1] + wanted[q[m]] /\ need[m - 1] \in Nat /\ wanted[q[m]] \in Nat
    BY <1>0, <2>4 DEF Shares, AddsUp
  <2>7. Total(h(m)) = Total(h(m - 1)) + wanted[q[m]]
    BY <1>3, <2>4
  <2> QED BY <2>0, <2>5, <2>6, <2>7
<1>6. k \in 0..k
  OBVIOUS
<1>7. Total(h(k)) = Total(f) + need[k]
  BY <1>5, <1>6
<1> QED BY <1>2, <1>7

-----------------------------------------------------------------------------
(* The invariant.                                                          *)

\* There is one semaphore, and it is not destroyed.
OnlyOne ==
    /\ DOMAIN semaphore \subseteq {1}
    /\ ToSet(SemaphoreList) = DOMAIN semaphore

\* What the tasks hold and what is left are what there was in the beginning.
Balanced ==
    semaphore # <<>> =>
        semaphore[1].count + Total(held)
            \in {NewSemaphore(c, semaphore[1].is_binary).count : c \in InitialCounts}

\* Whoever waits for counts has none: otherwise a grant would overwrite them.
WaitersHoldNothing == \A p \in 1..MaxPid : InState(p, {"WAIT_SEMAPHORE"}) => held[p] = 0

HeldInv ==
    /\ held \in Shares
    /\ semaphore = <<>> => \A p \in 1..MaxPid : held[p] = 0
    /\ WaitersHoldNothing
    /\ Balanced

ClientInv == SemaphoreInv /\ MutexesOK /\ OnlyOne /\ (mode # "halted" => HeldInv)

\* Nobody is forgotten and nobody begins to wait for counts.
BeginsNoWait ==
    /\ DOMAIN PD \subseteq DOMAIN PD'
    /\ \A p \in DOMAIN PD' : PD'[p].state = "WAIT_SEMAPHORE" =>
          p \in DOMAIN PD /\ PD[p].state = "WAIT_SEMAPHORE"

LEMMA FatesBeginNoWait == ASSUME Inv, Fates PROVE BeginsNoWait
<1>1. "WAIT_SEMAPHORE" \in Waiting
  BY DEF Waiting
<1> QED BY <1>1, FatesStartNoWait DEF BeginsNoWait, Fates

\* A task that has moved elsewhere does not wait for counts.
LEMMA MovedWaitsNot ==
    ASSUME NEW p, NEW state, state # "WAIT_SEMAPHORE", Moved(p, state)
    PROVE  PD'[p].state # "WAIT_SEMAPHORE"
<1>1. "WAIT_SEMAPHORE" \in Waiting
  BY DEF Waiting
<1> QED BY <1>1, AgedWaitsNotAnew DEF Moved

LEMMA MutexBeginsNoWait == ASSUME Inv, MutexFates PROVE BeginsNoWait
<1>0. "WAIT_SEMAPHORE" \in Waiting
  BY DEF Waiting
<1>1. CASE Fates \/ PD' = PD
  BY <1>1, FatesBeginNoWait DEF BeginsNoWait
<1>2. CASE SameStates
  BY <1>2 DEF SameStates, BeginsNoWait
<1>3. ASSUME NEW movers, OthersAge(movers),
             \A p \in movers : PD'[p].state # "WAIT_SEMAPHORE"
      PROVE  BeginsNoWait
  BY <1>0, <1>3, AgedWaitsNotAnew DEF OthersAge, BeginsNoWait
<1>4. CASE Moved(Current_Process, "WAIT_MUTEX") /\ OthersAge({Current_Process})
  BY <1>3, <1>4, MovedWaitsNot
<1>5. ASSUME NEW p, Moved(p, "READY"), Moved(Current_Process, "READY"),
             OthersAge({p, Current_Process})
      PROVE  BeginsNoWait
  BY <1>3, <1>5, MovedWaitsNot
<1> QED BY <1>1, <1>2, <1>4, <1>5 DEF MutexFates, MutexOutcome, LockOutcome, UnlockOutcome

\* A step that changes neither the semaphore nor what anybody holds.
LEMMA OthersKeepClientInv ==
    ASSUME ClientInv, SemaphoreInv', MutexesOK', BeginsNoWait,
           UNCHANGED <<SemaphoreList, semaphore, held>>, mode # "halted"
    PROVE  ClientInv'
<1>1. HeldInv
  BY DEF ClientInv
<1>2. WaitersHoldNothing'
  BY <1>1 DEF HeldInv, WaitersHoldNothing, BeginsNoWait, InState
<1>3. Balanced'
  <2>1. Total(held)' = Total(held)
    BY DEF Total
  <2> QED BY <1>1, <2>1 DEF HeldInv, Balanced
<1> QED BY <1>1, <1>2, <1>3 DEF ClientInv, HeldInv, OnlyOne

LEMMA SchedulerFacts ==
    ASSUME ClientInv, SchedulerStep
    PROVE  /\ mode # "halted" /\ Inv' /\ Fates /\ BeginsNoWait
           /\ UNCHANGED <<SemaphoreList, semaphore, amount, mutexVars, held>>
<1>1. [Next]_vars /\ UNCHANGED <<SemaphoreList, semaphore, amount, mutexVars, held>>
  BY ClientAssumption, EnvironmentAssumption
     DEF SchedulerStep, Alone, semVars, Next, SysCall
<1>2. mode # "halted"
  BY DEF SchedulerStep, CreateAtBoot, Kernel_Tick_ISR, TickOnly, Preempt, IdlePoll,
         IdleDispatch, Task_Yield, OS_Start, Task_Sleep, Task_Suspend, Task_Resume,
         Task_Terminate, Running
<1> QED BY <1>1, <1>2, NextKeepsInv, NextFates, FatesBeginNoWait DEF ClientInv, SemaphoreInv

LEMMA SchedulerKeepsClientInv ==
    ASSUME ClientInv, SchedulerStep
    PROVE  ClientInv'
<1>1. ObjectsOK' /\ MutexesOK' /\ AmountsOK'
  BY SchedulerFacts, ObjectsKept, MutexesKept, SilenceFacts
     DEF ClientInv, SemaphoreInv, BeginsNoWait
<1> QED BY <1>1, SchedulerFacts, OthersKeepClientInv DEF SemaphoreInv

LEMMA MutexStepKeepsClientInv ==
    ASSUME ClientInv, mode # "halted", UNCHANGED <<semVars, held>>,
           \/ mode = "boot" /\ Mutex_Create
           \/ \E m : Mutex_Lock(m) \/ Mutex_Unlock(m)
    PROVE  ClientInv'
<1>1. MutexInv
  BY DEF ClientInv, SemaphoreInv, MutexInv
<1>a. ASSUME MutexInv', BeginsNoWait PROVE ClientInv'
  <2>1. SemaphoreInv'
    BY <1>a, ObjectsKept, SilenceFacts
       DEF ClientInv, SemaphoreInv, semVars, MutexInv, BeginsNoWait
  <2> QED BY <1>a, <2>1, OthersKeepClientInv DEF semVars, MutexInv
<1>2. CASE mode = "boot" /\ Mutex_Create
  <2>1. PICK noErr \in Errors : Kernel_Create_Mutex(noErr)
    BY <1>2 DEF Mutex_Create, Running, ClientInv, SemaphoreInv, Inv, VarTypes
  <2>2. MutexInv' /\ PD' = PD
    BY <1>1, <1>2, <2>1, CreateKeepsMutexInv
  <2> QED BY <1>a, <2>2 DEF BeginsNoWait
<1>3. ASSUME NEW m, Mutex_Lock(m) \/ Mutex_Unlock(m)
      PROVE  ClientInv'
  <2>1. MutexInv' /\ MutexFates
    BY <1>1, <1>3, LockKeepsMutexInv, UnlockKeepsMutexInv, CallsAreFates
  <2> QED BY <1>1, <1>a, <2>1, MutexBeginsNoWait DEF MutexInv
<1> QED BY <1>2, <1>3

-----------------------------------------------------------------------------
(* The calls on the semaphore.                                             *)

LEMMA SemaphoreKeepsTasks ==
    ASSUME SemaphoreFates
    PROVE  DOMAIN PD \subseteq DOMAIN PD'
  BY DEF SemaphoreFates, Fates, Outcome, Got, Joined, OthersAge, GaveToNobody, GaveToWaiters,
         Woken

LEMMA SetUpKeepsClientInv ==
    ASSUME ClientInv, mode = "boot", semaphore = <<>>,
           NEW c \in InitialCounts, NEW b \in Binary, Semaphore_Create(c, b),
           UNCHANGED <<mutexVars, held>>
    PROVE  ClientInv'
<1>1. /\ SemaphoreInv /\ MutexesOK /\ HeldInv /\ ~Running
      /\ ToSet(SemaphoreList) = {} /\ DOMAIN semaphore = {}
  BY DEF ClientInv, Running, OnlyOne
<1>2. SemaphoreInv' /\ SemaphoreFates
  <2>1. PICK noErr \in Errors : Kernel_Create_Semaphore_Direct(c, b, noErr)
    BY <1>1 DEF Semaphore_Create, Inv, SemaphoreInv, VarTypes
  <2>2. AmountsOK' /\ OwnAmount
    BY <1>1, SilenceFacts DEF Semaphore_Create
  <2> QED BY <1>1, <2>1, <2>2, CreateKeepsSemaphores
<1>3. MutexesOK'
  BY <1>1, <1>2, SemaphoreKeepsTasks, MutexesKept
<1>4. CASE Fates /\ semaphore' = semaphore /\ ToSet(SemaphoreList') \subseteq ToSet(SemaphoreList)
  <2>1. BeginsNoWait
    BY <1>1, <1>4, FatesBeginNoWait DEF SemaphoreInv
  <2>2. OnlyOne' /\ WaitersHoldNothing'
    BY <1>1, <1>4, <2>1 DEF OnlyOne, HeldInv, WaitersHoldNothing, BeginsNoWait, InState
  <2> QED BY <1>1, <1>2, <1>3, <1>4, <2>2 DEF ClientInv, HeldInv, Balanced
<1>5. ASSUME PD' = PD, ToSet(SemaphoreList') = ToSet(SemaphoreList) \cup {Len(semaphore) + 1},
             NEW count \in InitialCounts, NEW binary \in Binary,
             semaphore' = Append(semaphore, NewSemaphore(count, binary))
      PROVE  ClientInv'
  <2>1. Len(semaphore) = 0
    OBVIOUS
  <2>2. DOMAIN semaphore' = {1} /\ semaphore'[1] = NewSemaphore(count, binary)
    BY <1>1, <1>5, <2>1, NewObject
  <2>3. OnlyOne' /\ semaphore' # <<>>
    BY <1>1, <1>5, <2>1, <2>2 DEF OnlyOne
  <2>4. held' = held /\ held \in Shares /\ Total(held') = 0
    BY <1>1, NothingTotal DEF HeldInv
  <2>5. Balanced'
    <3>1. /\ semaphore'[1].is_binary = binary
          /\ semaphore'[1].count = NewSemaphore(count, binary).count
          /\ semaphore'[1].count \in Int
      BY <2>2, SemaphoreAssumption DEF NewSemaphore
    <3> QED BY <2>4, <3>1 DEF Balanced
  <2>6. WaitersHoldNothing'
    BY <1>1, <1>5, <2>4 DEF HeldInv, WaitersHoldNothing, InState
  <2> QED BY <1>2, <1>3, <2>3, <2>4, <2>5, <2>6 DEF ClientInv, HeldInv
<1> QED BY <1>1, <1>2, <1>4, <1>5 DEF SemaphoreFates

\* What holds of the caller of Get and Give.
LEMMA ClientFacts ==
    ASSUME ~SelfSuspend, ClientInv, Running
    PROVE  /\ HeldInv /\ Current_Process \in 1..MaxPid /\ Current_Process \in DOMAIN PD
           /\ PD[Current_Process].state = "RUNNING" /\ DOMAIN PD \subseteq 1..MaxPid
<1>1. SemaphoreInv /\ HeldInv
  BY DEF ClientInv, Running
<1>2. DOMAIN PD \subseteq 1..MaxPid
  BY <1>1, CallFacts, EnvironmentAssumption DEF SemaphoreInv
<1> QED BY <1>1, <1>2, CallerWaitsNot

\* The semaphore exists as long as anybody holds counts of it.
LEMMA SemaphoreFacts ==
    ASSUME ClientInv, Exists(1)
    PROVE  /\ 1 \in DOMAIN semaphore /\ semaphore # <<>>
           /\ semaphore[1].count \in Int /\ semaphore[1].is_binary \in BOOLEAN
           /\ semaphore[1].wait_queue \in Seq(Nat)
           /\ ToSet(semaphore[1].wait_queue) \subseteq DOMAIN PD
<1>1. SemaphoreInv
  BY DEF ClientInv
<1>2. 1 \in DOMAIN semaphore /\ ObjectOK(semaphore[1], DOMAIN PD)
  BY <1>1, ExistsFacts
<1>3. DOMAIN <<>> = {}
  OBVIOUS
<1> QED BY <1>1, <1>2, <1>3, ExistsFacts DEF ObjectOK

LEMMA Created ==
    ASSUME ClientInv, semaphore # <<>>
    PROVE  Exists(1)
<1>1. semaphore \in Seq(SemaphoreType)
  BY DEF ClientInv, SemaphoreInv, ObjectsOK
<1>2. Len(semaphore) \in Nat /\ Len(semaphore) # 0 /\ DOMAIN semaphore = 1..Len(semaphore)
  BY <1>1, EmptySeq, LenProperties
<1> QED BY <1>2 DEF ClientInv, OnlyOne, Exists

\* A call that ends with the semaphore in another state.
LEMMA CallKeepsClientInv ==
    ASSUME ClientInv, Exists(1), SemaphoreInv', SemaphoreFates, UNCHANGED mutexVars,
           SemaphoreList' = SemaphoreList, DOMAIN semaphore' = DOMAIN semaphore,
           mode' # "halted" => held' \in Shares /\ WaitersHoldNothing' /\ Balanced'
    PROVE  ClientInv'
<1>1. MutexesOK'
  BY SemaphoreKeepsTasks, MutexesKept DEF ClientInv
<1>2. OnlyOne'
  BY DEF ClientInv, OnlyOne
<1>3. semaphore' # <<>>
  BY SemaphoreFacts
<1> QED BY <1>1, <1>2, <1>3 DEF ClientInv, HeldInv

\* A caller that has to wait has been granted nothing.
LEMMA JoinedHoldsNothing ==
    ASSUME ~SelfSuspend, ClientInv, Running, Exists(1), NEW n, Get(n), Joined(1, n)
    PROVE  UNCHANGED held
<1>1. /\ Current_Process \in 1..MaxPid /\ held[Current_Process] = 0 /\ held \in Shares
  BY ClientFacts DEF Get, HoldsNothing, HeldInv, Shares
<1>2. ASSUME NEW q \in Seq(Nat), NEW c \in Nat PROVE Append(q, c) # q
  <2>1. Len(Append(q, c)) = Len(q) + 1 /\ Len(q) \in Nat
    BY AppendFacts
  <2> QED BY <2>1
<1>3. semaphore'[1].wait_queue # semaphore[1].wait_queue
  BY <1>1, <1>2, SemaphoreFacts DEF Joined, Became
<1> QED BY <1>1, <1>3 DEF Get, Shares

\* The counts a task gets are those the semaphore loses.
LEMMA GetKeepsClientInv ==
    ASSUME Amounts \subseteq Nat, ~SelfSuspend, ClientInv, Running,
           NEW n \in Amounts, Get(n), UNCHANGED mutexVars
    PROVE  ClientInv'
<1> DEFINE c == Current_Process
           a == Asked(1, n)
<1>1. Exists(1) /\ Semaphore_Get(1, n) /\ n \in Nat /\ SemaphoreInv
  BY DEF Get, ClientInv
<1>2. /\ SemaphoreInv' /\ SemaphoreFates
      /\ \/ mode' = "halted"
         \/ Got(1, n) /\ amount'[c] = a
         \/ Joined(1, n)
  BY <1>1, GetKeepsSemaphores
<1>3. /\ HeldInv /\ c \in 1..MaxPid /\ c \in DOMAIN PD /\ held[c] = 0
      /\ held \in Shares /\ Balanced /\ WaitersHoldNothing
  <2>1. HeldInv /\ c \in 1..MaxPid /\ c \in DOMAIN PD
    BY ClientFacts
  <2> QED BY <2>1 DEF Get, HoldsNothing, HeldInv, Shares
<1>4. /\ 1 \in DOMAIN semaphore /\ semaphore # <<>>
      /\ semaphore[1].count \in Int /\ semaphore[1].is_binary \in BOOLEAN
      /\ semaphore[1].wait_queue \in Seq(Nat)
  BY <1>1, SemaphoreFacts
<1>5. SemaphoreList' = SemaphoreList /\ DOMAIN semaphore' = DOMAIN semaphore
  BY <1>1 DEF Semaphore_Get, NotFound
<1>6. held' = [held EXCEPT ![c] =
                  IF semaphore'[1].wait_queue = semaphore[1].wait_queue THEN amount'[c] ELSE 0]
  BY DEF Get
<1>7. a \in Nat /\ Total(held) \in Nat
  BY <1>1, <1>3, <1>4, AskedFacts, TotalIsNat
<1> HIDE DEF c, a
<1>8. CASE Got(1, n) /\ amount'[c] = a
  <2>1. /\ PD' = PD /\ semaphore'[1].count = semaphore[1].count - a
        /\ semaphore'[1].wait_queue = semaphore[1].wait_queue
        /\ semaphore'[1].is_binary = semaphore[1].is_binary
    BY <1>8 DEF Got, Became, a
  <2>2. /\ held' \in Shares /\ held'[c] = a
        /\ \A p \in 1..MaxPid : p # c => held'[p] = held[p]
    BY <1>3, <1>6, <1>7, <1>8, <2>1 DEF Shares
  <2>3. Total(held') = Total(held) - held[c] + held'[c]
    BY <1>3, <2>2, OneShareChanged
  <2>4. Balanced'
    <3>1. semaphore'[1].count + Total(held') = semaphore[1].count + Total(held)
      BY <1>3, <1>4, <1>7, <2>1, <2>2, <2>3
    <3> QED BY <1>3, <1>4, <2>1, <3>1 DEF Balanced
  <2>5. WaitersHoldNothing'
    <3>1. ~InState(c, {"WAIT_SEMAPHORE"})
      BY ClientFacts DEF InState, c
    <3> QED BY <1>3, <2>1, <2>2, <3>1 DEF WaitersHoldNothing, InState
  <2> QED BY <1>1, <1>2, <1>5, <2>2, <2>4, <2>5, CallKeepsClientInv
<1>9. CASE Joined(1, n)
  <2>1. /\ semaphore'[1].count = semaphore[1].count
        /\ semaphore'[1].is_binary = semaphore[1].is_binary
        /\ OthersAge({c})
    BY <1>9 DEF Joined, Became, c
  <2>3. held' = held
    BY <1>1, <1>9, JoinedHoldsNothing
  <2>4. Balanced'
    BY <1>3, <1>4, <2>1, <2>3 DEF Balanced
  <2>5. WaitersHoldNothing'
    <3>1. "WAIT_SEMAPHORE" \in Waiting
      BY DEF Waiting
    <3>2. \A p \in 1..MaxPid : p # c => (InState(p, {"WAIT_SEMAPHORE"})' => InState(p, {"WAIT_SEMAPHORE"}))
      BY <2>1, <3>1, AgedWaitsNotAnew DEF OthersAge, InState
    <3> QED BY <1>3, <2>3, <3>2 DEF WaitersHoldNothing
  <2> QED BY <1>1, <1>2, <1>3, <1>5, <2>3, <2>4, <2>5, CallKeepsClientInv
<1>10. CASE mode' = "halted"
  BY <1>1, <1>2, <1>5, <1>10, CallKeepsClientInv
<1> QED BY <1>2, <1>8, <1>9, <1>10

\* Nobody has more than the semaphore was created with, so that one that is
\* binary takes back what it has given.
LEMMA GivenIsSum ==
    ASSUME ClientInv, HeldInv, Exists(1), NEW c \in 1..MaxPid
    PROVE  Given(1, held[c]) = semaphore[1].count + held[c]
<1>1. /\ semaphore # <<>> /\ semaphore[1].count \in Int /\ semaphore[1].is_binary \in BOOLEAN
  BY SemaphoreFacts
<1>2. held[c] \in Nat /\ Total(held) \in Nat /\ held[c] <= Total(held)
  BY TotalIsNat, ShareBounded DEF HeldInv, Shares
<1>3. semaphore[1].is_binary => semaphore[1].count + Total(held) <= 1
  <2>1. PICK i \in InitialCounts :
          semaphore[1].count + Total(held) = NewSemaphore(i, semaphore[1].is_binary).count
    BY <1>1 DEF HeldInv, Balanced
  <2> QED BY <2>1 DEF NewSemaphore
<1> QED BY <1>1, <1>2, <1>3 DEF Given

\* What the tasks have once the first k waiters of q are served.
LEMMA GrantedShares ==
    ASSUME ~SelfSuspend, ClientInv, Running, Exists(1), Give, SemaphoreInv', OwnAmount,
           NEW k \in 0..Len(semaphore[1].wait_queue),
           Serves(Given(1, held[Current_Process]), semaphore[1].wait_queue, k),
           PD' = Woken(semaphore[1].wait_queue, k)
    PROVE  /\ held' \in Shares /\ WaitersHoldNothing'
           /\ Total(held') = Total(held) - held[Current_Process]
                             + Need(semaphore[1].wait_queue, k)
<1> DEFINE c == Current_Process
           q == semaphore[1].wait_queue
           served(p) == \E j \in 1..k : q[j] = p
           f == [held EXCEPT ![c] = 0]
           wanted == [p \in 1..MaxPid |-> amount'[p]]
           need == [j \in 0..k |-> Need(q, j)]
           queue == [j \in 1..k |-> q[j]]
<1>1. /\ HeldInv /\ c \in 1..MaxPid /\ c \in DOMAIN PD
      /\ PD[c].state = "RUNNING" /\ DOMAIN PD \subseteq 1..MaxPid
      /\ held \in Shares /\ WaitersHoldNothing
  BY ClientFacts DEF HeldInv
<1>2. /\ 1 \in DOMAIN semaphore /\ q \in Seq(Nat) /\ ToSet(q) \subseteq DOMAIN PD
      /\ Len(q) \in Nat /\ DOMAIN q = 1..Len(q) /\ k \in Nat
  BY SemaphoreFacts, LenProperties
<1>3. /\ \A j \in 1..k : q[j] \in DOMAIN PD /\ PD[q[j]].state = "WAIT_SEMAPHORE"
      /\ \A i, j \in 1..k : q[i] = q[j] => i = j
  <2>1. \A j \in 1..k : j \in DOMAIN q
    BY <1>2
  <2>2. \A j \in 1..k : q[j] \in DOMAIN PD
    BY <1>2, <2>1 DEF ToSet
  <2>3. \A j \in 1..k : PD[q[j]].state = "WAIT_SEMAPHORE" /\ \A i \in 1..(j - 1) : q[i] # q[j]
    BY DEF Serves, StillWaits
  <2>4. \A i, j \in 1..k : i = j \/ i \in 1..(j - 1) \/ j \in 1..(i - 1)
    OBVIOUS
  <2> QED BY <2>2, <2>3, <2>4
<1>4. /\ DOMAIN PD' = DOMAIN PD
      /\ \A p \in DOMAIN PD : served(p) => PD'[p].state = "READY"
      /\ \A p \in DOMAIN PD : ~served(p) => PD'[p] = PD[p]
  <2>1. \A p \in DOMAIN PD : PD[p] \in Process
    BY ElementOfSeq, LenProperties DEF ClientInv, SemaphoreInv, Inv, Table
  <2> QED BY <2>1 DEF Woken, Process
<1>5. held' = [p \in 1..MaxPid |->
                 CASE p = c -> 0
                   [] p # c /\ InState(p, {"WAIT_SEMAPHORE"}) ->
                         IF PD'[p].state = "WAIT_SEMAPHORE" THEN 0 ELSE amount[p]
                   [] OTHER -> held[p]]
  BY DEF Give
<1>6. \A p \in 1..MaxPid : amount'[p] \in Nat /\ (p # c => amount'[p] = amount[p])
  BY EnvironmentAssumption DEF SemaphoreInv, AmountsOK, OwnAmount
<1> HIDE DEF c, q
<1>7. f \in Shares /\ f[c] = 0 /\ \A p \in 1..MaxPid : p # c => f[p] = held[p]
  BY <1>1 DEF Shares
<1> HIDE DEF f
<1>8. ASSUME NEW p \in 1..MaxPid
      PROVE  /\ held'[p] = IF served(p) THEN wanted[p] ELSE f[p]
             /\ InState(p, {"WAIT_SEMAPHORE"})' => held'[p] = 0
  <2>1. served(p) => p \in DOMAIN PD /\ PD[p].state = "WAIT_SEMAPHORE" /\ p # c
    BY <1>1, <1>3
  <2>2. CASE served(p)
    <3>1. held'[p] = amount[p] /\ wanted[p] = amount[p] /\ PD'[p].state = "READY"
      BY <1>4, <1>5, <1>6, <2>1, <2>2 DEF InState
    <3> QED BY <2>2, <3>1 DEF InState
  <2>3. CASE ~served(p) /\ InState(p, {"WAIT_SEMAPHORE"})
    <3>1. p # c /\ PD'[p].state = "WAIT_SEMAPHORE" /\ held[p] = 0
      BY <1>1, <1>4, <2>3 DEF InState, WaitersHoldNothing
    <3> QED BY <1>5, <1>7, <2>3, <3>1
  <2>4. CASE ~served(p) /\ ~InState(p, {"WAIT_SEMAPHORE"})
    <3>1. ~InState(p, {"WAIT_SEMAPHORE"})'
      BY <1>4, <2>4 DEF InState
    <3>2. held'[p] = IF p = c THEN 0 ELSE held[p]
      BY <1>5, <2>4
    <3> QED BY <1>7, <2>4, <3>1, <3>2
  <2> QED BY <2>2, <2>3, <2>4
<1>9. wanted \in Shares
  BY <1>6 DEF Shares
<1>10. held' \in Shares
  <2>1. \A p \in 1..MaxPid : held'[p] \in Nat
    BY <1>7, <1>8, <1>9 DEF Shares
  <2> QED BY <1>5, <2>1 DEF Shares
<1>11. WaitersHoldNothing'
  BY <1>8 DEF WaitersHoldNothing
<1>12. /\ \A j \in 0..Len(q) : Need(q, j) \in Nat
       /\ \A j \in 0..(Len(q) - 1) : Need(q, j + 1) = Need(q, j) + amount'[q[j + 1]]
       /\ Need(q, 0) = 0
  BY <1>2, QueueNeeds DEF q, SemaphoreInv, ClientInv
<1>13. /\ need \in [0..k -> Nat] /\ need[0] = 0 /\ need[k] = Need(q, k)
       /\ \A j \in 1..k : need[j] = need[j - 1] + wanted[queue[j]]
  <2>1. \A j \in 0..k : j \in 0..Len(q)
    BY <1>2 DEF q
  <2>2. \A j \in 1..k : /\ j - 1 \in 0..(Len(q) - 1) /\ (j - 1) + 1 = j /\ j \in 0..k
                        /\ j - 1 \in 0..k
    BY <1>2 DEF q
  <2>3. \A j \in 1..k : Need(q, j) = Need(q, j - 1) + amount'[q[j]]
    BY <1>12, <2>2
  <2>4. \A j \in 1..k : wanted[queue[j]] = amount'[q[j]]
    BY <1>1, <1>3
  <2> QED BY <1>2, <1>12, <2>1, <2>2, <2>3, <2>4
<1>14. /\ queue \in [1..k -> 1..MaxPid] /\ \A i, j \in 1..k : queue[i] = queue[j] => i = j
       /\ \A j \in 1..k : f[queue[j]] = 0
  <2>1. \A j \in 1..k : q[j] \in 1..MaxPid /\ q[j] # c /\ InState(q[j], {"WAIT_SEMAPHORE"})
    BY <1>1, <1>3 DEF InState
  <2> QED BY <1>1, <1>3, <1>7, <2>1 DEF WaitersHoldNothing
<1>15. \A p \in 1..MaxPid :
         held'[p] = IF \E j \in 1..k : queue[j] = p THEN wanted[p] ELSE f[p]
  <2>1. \A p : (\E j \in 1..k : queue[j] = p) <=> served(p)
    OBVIOUS
  <2> HIDE DEF served, queue
  <2> QED BY <1>8, <2>1
<1> HIDE DEF wanted, need, queue, served
<1>16. Total(held') = Total(f) + need[k]
  <2>1. PICK g : g = held'
    OBVIOUS
  <2>2. /\ g \in Shares /\ Granted(f, g, wanted, queue, k) /\ AddsUp(need, wanted, queue, k)
        /\ Empty(f, queue, k)
    BY <1>10, <1>13, <1>14, <1>15, <2>1 DEF Granted, AddsUp, Empty
  <2>3. Total(g) = Total(f) + need[k]
    BY <1>2, <1>7, <1>9, <2>2, ServedTotal
  <2> QED BY <2>1, <2>3
<1>17. Total(f) = Total(held) - held[c] + f[c]
  BY <1>1, <1>7, OneShareChanged
<1>18. Total(f) \in Nat /\ Total(held) \in Nat /\ held[c] \in Nat
  BY <1>1, <1>7, TotalIsNat DEF Shares
<1> QED BY <1>7, <1>10, <1>11, <1>13, <1>16, <1>17, <1>18 DEF c, q

\* The counts a task gives are those the semaphore and the tasks it serves get.
LEMMA GiveKeepsClientInv ==
    ASSUME Amounts \subseteq Nat, ~SelfSuspend, ClientInv, Running, Give, UNCHANGED mutexVars
    PROVE  ClientInv'
<1> DEFINE c == Current_Process
           n == held[c]
           q == semaphore[1].wait_queue
<1>1. /\ HeldInv /\ c \in 1..MaxPid /\ c \in DOMAIN PD /\ PD[c].state = "RUNNING"
      /\ held \in Shares /\ Balanced /\ WaitersHoldNothing /\ SemaphoreInv
      /\ n \in Nat /\ n > 0
  <2>1. HeldInv /\ c \in 1..MaxPid /\ c \in DOMAIN PD /\ PD[c].state = "RUNNING"
    BY ClientFacts
  <2> QED BY <2>1 DEF Give, HeldInv, Shares, ClientInv
<1>2. Exists(1) /\ Semaphore_Give(1, n)
  <2>1. semaphore # <<>>
    BY <1>1 DEF HeldInv
  <2> QED BY <2>1, Created DEF Give
<1>3. /\ SemaphoreInv' /\ SemaphoreFates /\ OwnAmount
      /\ mode' = "halted" \/ GaveToNobody(1, n) \/ GaveToWaiters(1, n)
  BY <1>1, <1>2, GiveKeepsSemaphores DEF SemaphoreFates
<1>4. /\ semaphore # <<>> /\ semaphore[1].count \in Int
      /\ semaphore[1].is_binary \in BOOLEAN /\ 1 \in DOMAIN semaphore
  BY <1>2, SemaphoreFacts
<1>5. SemaphoreList' = SemaphoreList /\ DOMAIN semaphore' = DOMAIN semaphore
  BY <1>2 DEF Semaphore_Give, NotFound, Kernel_Semaphore_Get_From_Queue
<1>6. Given(1, n) = semaphore[1].count + n
  BY <1>1, <1>2, GivenIsSum
<1>7. Total(held) \in Nat
  BY <1>1, TotalIsNat
<1>8. CASE mode' = "halted"
  BY <1>2, <1>3, <1>5, <1>8, CallKeepsClientInv
<1>9. CASE GaveToNobody(1, n)
  <2>1. /\ PD' = PD /\ semaphore'[1].count = semaphore[1].count + n
        /\ semaphore'[1].is_binary = semaphore[1].is_binary
    BY <1>6, <1>9 DEF GaveToNobody, Became
  <2>2. ASSUME NEW p \in 1..MaxPid PROVE held'[p] = IF p = c THEN 0 ELSE held[p]
    <3>1. held'[p] = CASE p = c -> 0
                       [] p # c /\ InState(p, {"WAIT_SEMAPHORE"}) ->
                             IF PD'[p].state = "WAIT_SEMAPHORE" THEN 0 ELSE amount[p]
                       [] OTHER -> held[p]
      BY DEF Give
    <3>2. CASE InState(p, {"WAIT_SEMAPHORE"})
      <4>1. PD'[p].state = "WAIT_SEMAPHORE" /\ held[p] = 0
        BY <1>1, <2>1, <3>2 DEF InState, WaitersHoldNothing
      <4> QED BY <3>1, <3>2, <4>1
    <3>3. CASE ~InState(p, {"WAIT_SEMAPHORE"})
      BY <3>1, <3>3
    <3> QED BY <3>2, <3>3
  <2>3. held' \in Shares
    <3>1. held' = [p \in 1..MaxPid |-> held'[p]]
      BY DEF Give
    <3>2. \A p \in 1..MaxPid : held'[p] \in Nat
      BY <1>1, <2>2 DEF Shares
    <3> QED BY <3>1, <3>2 DEF Shares
  <2>4. Total(held') = Total(held) - held[c] + held'[c]
    BY <1>1, <2>2, <2>3, OneShareChanged
  <2>5. Balanced'
    <3>1. semaphore'[1].count + Total(held') = semaphore[1].count + Total(held)
      BY <1>1, <1>4, <1>7, <2>1, <2>2, <2>4
    <3> QED BY <1>1, <1>4, <2>1, <3>1 DEF Balanced
  <2>6. WaitersHoldNothing'
    BY <1>1, <2>1, <2>2 DEF WaitersHoldNothing, InState
  <2> QED BY <1>2, <1>3, <1>5, <2>3, <2>5, <2>6, CallKeepsClientInv
<1>10. CASE GaveToWaiters(1, n)
  <2>1. PICK k \in 0..Len(q) :
          /\ Serves(Given(1, n), q, k) /\ PD' = Woken(q, k)
          /\ Became(1, Given(1, n) - Need(q, k), SubSeq(q, k + 1, Len(q)))
    BY <1>10 DEF GaveToWaiters
  <2>2. /\ held' \in Shares /\ WaitersHoldNothing'
        /\ Total(held') = Total(held) - held[c] + Need(q, k)
    BY <1>2, <1>3, <2>1, GrantedShares
  <2>3. Need(q, k) \in Nat
    BY <1>1, <1>3, <1>4, QueueNeeds DEF SemaphoreInv
  <2>4. /\ semaphore'[1].count = semaphore[1].count + n - Need(q, k)
        /\ semaphore'[1].is_binary = semaphore[1].is_binary
    <3>1. /\ semaphore'[1].count = Given(1, n) - Need(q, k)
          /\ semaphore'[1].is_binary = semaphore[1].is_binary
      BY <2>1 DEF Became
    <3>2. n \in Nat /\ semaphore[1].count \in Int /\ Given(1, n) = semaphore[1].count + n
      BY <1>1, <1>4, <1>6
    <3> HIDE DEF n, q
    <3> QED BY <2>3, <3>1, <3>2
  <2>5. Balanced'
    <3>1. semaphore'[1].count + Total(held') = semaphore[1].count + Total(held)
      BY <1>1, <1>4, <1>7, <2>2, <2>3, <2>4
    <3> QED BY <1>1, <1>4, <2>4, <3>1 DEF Balanced
  <2> QED BY <1>2, <1>3, <1>5, <2>2, <2>5, CallKeepsClientInv
<1> QED BY <1>3, <1>8, <1>9, <1>10

-----------------------------------------------------------------------------
(* The theorems.                                                           *)

LEMMA ClientInitEstablishes == ClientInit => ClientInv
<1> SUFFICES ASSUME ClientInit PROVE ClientInv
  OBVIOUS
<1>1. SemaphoreInv /\ MutexInv
  BY SemaphoreInitEstablishes, MutexInitEstablishes DEF ClientInit
<1>2. SemaphoreList = <<>> /\ semaphore = <<>> /\ PD = <<>>
  BY DEF ClientInit, SemaphoreInit, Init
<1>3. OnlyOne
  BY <1>2 DEF OnlyOne, ToSet
<1>4. HeldInv
  BY <1>2 DEF ClientInit, HeldInv, Shares, WaitersHoldNothing, Balanced
<1> QED BY <1>1, <1>3, <1>4 DEF ClientInv, MutexInv

LEMMA ClientStep ==
    ASSUME Amounts \subseteq Nat, ~SelfSuspend, ClientInv, [ClientNext]_clientVars
    PROVE  ClientInv'
<1>1. CASE mode = "boot" /\ SetUp
  <2>1. CASE /\ semaphore = <<>> /\ UNCHANGED <<mutexVars, held>>
             /\ \E c \in InitialCounts, b \in Binary : Semaphore_Create(c, b)
    BY <1>1, <2>1, SetUpKeepsClientInv
  <2>2. CASE Mutex_Create /\ UNCHANGED <<semVars, held>>
    BY <1>1, <2>2, MutexStepKeepsClientInv
  <2> QED BY <1>1, <2>1, <2>2 DEF SetUp
<1>2. CASE SchedulerStep
  BY <1>2, SchedulerKeepsClientInv
<1>3. CASE mode = "task" /\ (Give \/ \E n \in Amounts : Get(n)) /\ UNCHANGED mutexVars
  BY <1>3, GiveKeepsClientInv, GetKeepsClientInv DEF Running
<1>4. CASE mode = "task" /\ (Lock \/ Unlock) /\ UNCHANGED <<semVars, held>>
  BY <1>4, MutexStepKeepsClientInv DEF Lock, Unlock
<1>5. CASE UNCHANGED clientVars
  <2>1. UNCHANGED <<vars, semVars, mutexVars, held>>
    BY <1>5 DEF clientVars, allVars
  <2>2. Inv' /\ PD' = PD /\ mode' = mode
    BY <2>1, NextKeepsInv DEF ClientInv, SemaphoreInv, vars
  <2>3. ObjectsOK' /\ AmountsOK' /\ MutexesOK'
    BY <2>1, <2>2, ObjectsKept, MutexesKept, SilenceFacts DEF ClientInv, SemaphoreInv, semVars
  <2>4. OnlyOne' /\ (HeldInv => HeldInv')
    <3>1. Total(held)' = Total(held)
      BY <2>1 DEF Total
    <3> QED BY <2>1, <2>2, <3>1
        DEF ClientInv, OnlyOne, HeldInv, WaitersHoldNothing, InState, Balanced, semVars
  <2> QED BY <2>2, <2>3, <2>4 DEF ClientInv, SemaphoreInv
<1> QED BY <1>1, <1>2, <1>3, <1>4, <1>5 DEF ClientNext

\* No count is lost and none is granted twice, however tasks get and give counts,
\* wait for each other and for a mutex, sleep, or are suspended, whatever amounts
\* they ask for and however many waiters one of them serves.
THEOREM UnitsConserved ==
    ASSUME Amounts \subseteq Nat, ~SelfSuspend
    PROVE  ClientSpec => []UnitsAreConserved
<1>1. ClientInv /\ [ClientNext]_clientVars => ClientInv'
  BY ClientStep
<1>2. ClientInv => UnitsAreConserved
  BY DEF ClientInv, HeldInv, Balanced, UnitsAreConserved
<1> QED BY <1>1, <1>2, ClientInitEstablishes, PTL DEF ClientSpec

-----------------------------------------------------------------------------
(* Both sorts of queues, when nobody that waits has a timer: what one sort of *)
(* call does is none of the other's business.                                *)

\* The queues of both sorts are matched with the states, and counts are not idle.
SidesWait == MutexWaitInv /\ WaitInv /\ NoDebt /\ CountsAreNotIdle

\* A process that moved to a state has no timer to be thrown out of it by.
LEMMA MovedStays ==
    ASSUME NEW p \in DOMAIN PD, NEW state \in States, Moved(p, state), Timely(PD[p]),
           PD[p].state \in {"RUNNING", "WAIT_MUTEX"}
    PROVE  \E a : a.state = state /\ WaitsAlike(a, PD'[p])
<1>1. PICK a \in Process : a.state = state /\ a.request_timeout = PD[p].request_timeout
                           /\ Aged(a, PD'[p])
  BY DEF Moved
<1>2. Timely(a)
  BY <1>1 DEF Timely
<1> QED BY <1>1, <1>2, AgedWaitsAlike

\* Nobody begins or ceases to wait in this state.
SameWaiters(state) ==
    {p \in DOMAIN PD : PD[p].state = state}' = {p \in DOMAIN PD : PD[p].state = state}

LEMMA FatesKeepWaiters ==
    ASSUME ~SelfSuspend, FreshTimeouts \subseteq {0}, Inv, AllTimely, Fates
    PROVE  \A state \in Waiting : SameWaiters(state)
<1>1. /\ DOMAIN PD \subseteq DOMAIN PD'
      /\ \A p \in DOMAIN PD : WaitsAlike(PD[p], PD'[p])
      /\ \A p \in DOMAIN PD' \ DOMAIN PD : PD'[p].state \notin Waiting
  BY FatesWaitAlike
<1> QED BY <1>1 DEF SameWaiters, WaitsAlike

\* Who takes part in a call does not wait in that state, neither before nor after it.
LEMMA MoversKeepWaiters ==
    ASSUME NEW movers, OthersAge(movers), AllTimely, NEW state \in Waiting,
           \A p \in movers : PD[p].state # state /\ PD'[p].state # state
    PROVE  SameWaiters(state)
<1>1. \A p \in DOMAIN PD \ movers : PD'[p].state = state <=> PD[p].state = state
  BY AgedWaitsAlike DEF OthersAge, AllTimely, WaitsAlike
<1> QED BY <1>1 DEF SameWaiters, OthersAge

\* No call on a semaphore begins or ends a wait for a mutex.
LEMMA SemaphoreKeepsMutexWaiters ==
    ASSUME ~SelfSuspend, FreshTimeouts \subseteq {0}, SemaphoreInv, WaitInv, SemaphoreFates
    PROVE  SameWaiters("WAIT_MUTEX")
<1>0. "WAIT_MUTEX" \in Waiting
  BY DEF Waiting
<1>1. CASE PD' = PD
  BY <1>1 DEF SameWaiters
<1>2. CASE Fates
  BY <1>0, <1>2, FatesKeepWaiters DEF SemaphoreInv, WaitInv
<1>3. ASSUME Running, NEW s \in DOMAIN semaphore, NEW n, Joined(s, n)
      PROVE  SameWaiters("WAIT_MUTEX")
  <2> DEFINE c == Current_Process
  <2>1. c \in DOMAIN PD /\ PD[c].state = "RUNNING" /\ Timely(PD[c])
    BY <1>3, CallerWaitsNot DEF WaitInv, AllTimely
  <2>2. Moved(c, "WAIT_SEMAPHORE") /\ OthersAge({c}) /\ "WAIT_SEMAPHORE" \in States
    BY <1>3 DEF Joined, States
  <2>3. PD'[c].state # "WAIT_MUTEX"
    <3>1. PICK a : a.state = "WAIT_SEMAPHORE" /\ WaitsAlike(a, PD'[c])
      BY <2>1, <2>2, MovedStays
    <3> QED BY <1>0, <3>1 DEF WaitsAlike
  <2> QED BY <1>0, <2>1, <2>2, <2>3, MoversKeepWaiters DEF WaitInv
<1>4. ASSUME NEW s \in DOMAIN semaphore, NEW n, GaveToWaiters(s, n)
      PROVE  SameWaiters("WAIT_MUTEX")
  <2> DEFINE q == semaphore[s].wait_queue
  <2>1. PICK k \in 0..Len(q) : PD' = Woken(q, k)
    BY <1>4 DEF GaveToWaiters
  <2>2. DOMAIN q = 1..Len(q) /\ Len(q) \in Nat
    BY LenProperties DEF SemaphoreInv, ObjectsOK, ObjectOK, SemaphoreType
  <2>3. \A j \in 1..k : PD[q[j]].state = "WAIT_SEMAPHORE"
    <3>1. \A j \in 1..k : j \in DOMAIN q
      BY <2>2
    <3> QED BY <3>1, QueuedWaits
  <2>4. \A p \in DOMAIN PD : PD[p] \in Process
    BY ElementOfSeq, LenProperties DEF SemaphoreInv, Inv, Table
  <2> HIDE DEF q
  <2>5. \A p \in DOMAIN PD : PD'[p].state = "WAIT_MUTEX" <=> PD[p].state = "WAIT_MUTEX"
    BY <2>1, <2>3, <2>4 DEF Woken, Process
  <2> QED BY <2>1, <2>5 DEF SameWaiters, Woken
<1> QED BY <1>1, <1>2, <1>3, <1>4 DEF SemaphoreFates, Outcome, Got, GaveToNobody

\* No call on a mutex begins or ends a wait for counts.
LEMMA MutexKeepsCountWaiters ==
    ASSUME ~SelfSuspend, FreshTimeouts \subseteq {0}, MutexInv, MutexWaitInv, MutexFates
    PROVE  SameWaiters("WAIT_SEMAPHORE")
<1>0. "WAIT_SEMAPHORE" \in Waiting /\ {"READY", "WAIT_MUTEX"} \subseteq States
  BY DEF Waiting, States
<1>1. CASE PD' = PD
  BY <1>1 DEF SameWaiters
<1>2. CASE Fates
  BY <1>0, <1>2, FatesKeepWaiters DEF MutexInv, MutexWaitInv
<1>3. CASE SameStates
  BY <1>3 DEF SameStates, SameWaiters
<1>4. ASSUME NEW p \in DOMAIN PD, PD[p].state \in {"RUNNING", "WAIT_MUTEX"},
             NEW state \in {"READY", "WAIT_MUTEX"}, Moved(p, state)
      PROVE  PD[p].state # "WAIT_SEMAPHORE" /\ PD'[p].state # "WAIT_SEMAPHORE"
  <2>1. Timely(PD[p])
    BY DEF MutexWaitInv, AllTimely
  <2>2. PICK a : a.state = state /\ WaitsAlike(a, PD'[p])
    BY <1>0, <1>4, <2>1, MovedStays
  <2> QED BY <1>0, <1>4, <2>2 DEF WaitsAlike
<1>5. ASSUME Running PROVE Current_Process \in DOMAIN PD /\ PD[Current_Process].state = "RUNNING"
  BY <1>5, CallerMoves
<1>6. CASE Running /\ Moved(Current_Process, "WAIT_MUTEX") /\ OthersAge({Current_Process})
  BY <1>0, <1>4, <1>5, <1>6, MoversKeepWaiters DEF MutexWaitInv
<1>7. ASSUME Running, NEW p \in DOMAIN PD, PD[p].state = "WAIT_MUTEX", Moved(p, "READY"),
             Moved(Current_Process, "READY"), OthersAge({p, Current_Process})
      PROVE  SameWaiters("WAIT_SEMAPHORE")
  BY <1>0, <1>4, <1>5, <1>7, MoversKeepWaiters DEF MutexWaitInv
<1> QED BY <1>1, <1>2, <1>3, <1>6, <1>7 DEF MutexFates, MutexOutcome, LockOutcome, UnlockOutcome

LEMMA SemaphoreKeepsSides ==
    ASSUME ~SelfSuspend, FreshTimeouts \subseteq {0}, InitialCounts \subseteq Nat,
           Amounts \subseteq Nat, SemaphoreInv, SemaphoreInv', SidesWait,
           SemaphoreFates, mutex' = mutex
    PROVE  SidesWait'
<1>1. WaitInv' /\ NoDebt' /\ CountsAreNotIdle'
  BY StepKeepsWaitInv, StepKeepsNoDebt, StepKeepsShort DEF SidesWait
<1>2. MutexWaiters' = MutexWaiters
  BY SemaphoreKeepsMutexWaiters DEF SidesWait, SameWaiters, MutexWaiters
<1>3. Match(MutexQueues, MutexWaiters)'
  BY <1>2 DEF SidesWait, MutexWaitInv, Match, MutexQueues
<1>4. MutexWaitInv'
  BY <1>1, <1>3 DEF SidesWait, MutexWaitInv, WaitInv
<1> QED BY <1>1, <1>4 DEF SidesWait

LEMMA MutexKeepsSides ==
    ASSUME ~SelfSuspend, FreshTimeouts \subseteq {0}, MutexInv, SidesWait,
           MutexFates, UNCHANGED <<semaphore, SemaphoreList, amount>>
    PROVE  SidesWait'
<1>1. MutexWaitInv'
  BY StepKeepsMutexWaitInv DEF SidesWait
<1>2. Waiters' = Waiters
  BY MutexKeepsCountWaiters DEF SidesWait, SameWaiters, Waiters
<1>3. Match(Queues, Waiters)'
  BY <1>2 DEF SidesWait, WaitInv, Match, Queues
<1>4. WaitInv'
  BY <1>1, <1>3 DEF MutexWaitInv, WaitInv
<1> QED BY <1>1, <1>4 DEF SidesWait, NoDebt, CountsAreNotIdle

-----------------------------------------------------------------------------
(* Whoever is waited for goes on.                                          *)

\* Who owns a mutex goes on.
OwnersGoOn == \A m \in DOMAIN mutex : mutex[m].owner # 0 => GoesOn(mutex[m].owner)

\* Who holds counts goes on, or waits for the mutex.
HoldersGoOn == \A p \in 1..MaxPid : held[p] > 0 => GoesOn(p) \/ InState(p, {"WAIT_MUTEX"})

\* Nobody waits for more than there is when all the counts are given back.
ModestWishes ==
    \A p \in 1..MaxPid : InState(p, {"WAIT_SEMAPHORE"}) =>
        \A c \in InitialCounts : amount[p] <= NewSemaphore(c, semaphore[1].is_binary).count

HelpersGoOn == OwnersGoOn /\ HoldersGoOn /\ ModestWishes

\* Task p is not taken away from those who wait for it.
StaysOn(p) ==
    /\ GoesOn(p) => GoesOn(p)'
    /\ InState(p, {"WAIT_MUTEX"}) => GoesOn(p)' \/ InState(p, {"WAIT_MUTEX"})'

LEMMA AgedGoesOn ==
    ASSUME NEW a, NEW b, Aged(a, b)
    PROVE  /\ a.state \in {"READY", "RUNNING", "SLEEPING"} =>
                 b.state \in {"READY", "RUNNING", "SLEEPING"}
           /\ a.state = "WAIT_MUTEX" => b.state \in {"READY", "RUNNING", "WAIT_MUTEX"}
  BY DEF Aged, Active

LEMMA AgedStaysOn ==
    ASSUME NEW p, p \in DOMAIN PD => p \in DOMAIN PD' /\ Aged(PD[p], PD'[p])
    PROVE  StaysOn(p)
  BY AgedGoesOn DEF StaysOn, GoesOn, InState

LEMMA SameStaysOn == ASSUME PD' = PD, NEW p PROVE StaysOn(p)
  BY AgedReflexive, AgedStaysOn

\* A process that moved to a state in which it goes on does.
LEMMA MovedGoesOn ==
    ASSUME NEW p \in DOMAIN PD, p \in DOMAIN PD', NEW state, Moved(p, state)
    PROVE  /\ state \in {"READY", "SLEEPING"} => GoesOn(p)'
           /\ state = "WAIT_MUTEX" => GoesOn(p)' \/ InState(p, {"WAIT_MUTEX"})'
  BY AgedGoesOn DEF Moved, GoesOn, InState

\* The services of the scheduler do not stop anybody that the others rely on.
LEMMA SchedulerLetsGoOn ==
    ASSUME ~SelfSuspend, Inv, SchedulerStep, NEW p, ~HoldsNothing(p)
    PROVE  StaysOn(p)
<1> DEFINE c == Current_Process
<1>a. ASSUME NEW movers, OnlyAges(movers), p \notin movers PROVE StaysOn(p)
  BY <1>a, AgedStaysOn DEF OnlyAges
<1>1. CASE CreateAtBoot
  BY <1>1, <1>a, CreateFates DEF CreateAtBoot
<1>2. CASE Kernel_Tick_ISR
  <2>1. CASE TickOnly
    BY <2>1, SameStaysOn DEF TickOnly
  <2>2. CASE Preempt
    BY <2>2, <1>a, PreemptFates
  <2> QED BY <1>2, <2>1, <2>2 DEF Kernel_Tick_ISR
<1>3. CASE IdlePoll
  BY <1>3, <1>a, IdlePollFates
<1>4. CASE IdleDispatch
  BY <1>4, <1>a, IdleDispatchFates
<1>5. CASE Task_Yield
  <2>1. Running /\ Switch("NO_ERR", PD) /\ Table(PD, ProcessList) /\ OnlyCurrentRuns(PD)
    BY <1>5 DEF Task_Yield, Inv
  <2>2. OnlyAges({})
    BY <2>1, SwitchAges, AgeingIsFate
  <2> QED BY <1>a, <2>2
<1>6. CASE OS_Start
  BY <1>6, <1>a, StartFates
<1>7. ASSUME NEW t \in SleepTicks, Task_Sleep(t) PROVE StaysOn(p)
  <2>1. /\ OnlyAges({c})
        /\ \E a \in Process : a.state = "SLEEPING" /\ Aged(a, PD'[c])
    BY <1>7, SleepFates
  <2>2. CASE p = c
    <3>1. PD'[c].state \in {"READY", "RUNNING", "SLEEPING"}
      BY <2>1, AgedGoesOn
    <3>2. c \in DOMAIN PD => c \in DOMAIN PD'
      BY <2>1 DEF OnlyAges
    <3> QED BY <2>2, <3>1, <3>2 DEF StaysOn, GoesOn, InState
  <2> QED BY <1>a, <2>1, <2>2
<1>8. ASSUME NEW q \in Suspendees, HoldsNothing(q), Task_Suspend(q) PROVE StaysOn(p)
  <2>1. q \in Nat /\ p # q
    BY <1>8, ClientAssumption, EnvironmentAssumption
  <2> QED BY <1>8, <1>a, <2>1, SuspendFates
<1>9. ASSUME NEW q \in Suspendees, Task_Resume(q) PROVE StaysOn(p)
  <2>1. q \in Nat
    BY ClientAssumption, EnvironmentAssumption
  <2>2. PD' = PD \/ PD[q].state = "SUSPENDED"
    BY <1>9 DEF Task_Resume, Return
  <2>3. CASE p = q /\ PD[q].state = "SUSPENDED"
    BY <2>3 DEF StaysOn, GoesOn, InState
  <2> QED BY <1>9, <1>a, <2>1, <2>2, <2>3, ResumeFates, SameStaysOn
<1>10. CASE HoldsNothing(c) /\ Task_Terminate
  <2>1. p # c
    BY <1>10
  <2> QED BY <1>10, <1>a, <2>1, TerminateFates
<1> QED BY <1>1, <1>2, <1>3, <1>4, <1>5, <1>6, <1>7, <1>8, <1>9, <1>10 DEF SchedulerStep

\* A step that gives nobody a mutex or counts.
LEMMA HelpersStayOn ==
    ASSUME OwnersGoOn, HoldersGoOn, UNCHANGED held, DOMAIN held = 1..MaxPid,
           \A p : ~HoldsNothing(p) => StaysOn(p),
           \A m \in DOMAIN mutex' :
              \/ mutex'[m].owner = 0
              \/ m \in DOMAIN mutex /\ mutex'[m].owner = mutex[m].owner
    PROVE  OwnersGoOn' /\ HoldersGoOn'
<1>1. ASSUME NEW m \in DOMAIN mutex', NEW p, p = mutex'[m].owner, p # 0 PROVE GoesOn(p)'
  <2>1. m \in Owned(p) /\ GoesOn(p)
    BY <1>1 DEF Owned, OwnersGoOn
  <2> QED BY <2>1 DEF HoldsNothing, StaysOn
<1>2. OwnersGoOn'
  <2>1. \A m \in DOMAIN mutex' : mutex'[m].owner # 0 =>
           mutex'[m].owner \in DOMAIN PD' /\ PD'[mutex'[m].owner].state \in {"READY", "RUNNING", "SLEEPING"}
    BY <1>1 DEF GoesOn, InState
  <2> QED BY <2>1 DEF OwnersGoOn, GoesOn, InState
<1>3. ASSUME NEW p \in 1..MaxPid, held[p] > 0 PROVE GoesOn(p)' \/ InState(p, {"WAIT_MUTEX"})'
  <2>1. ~HoldsNothing(p)
    BY <1>3 DEF HoldsNothing
  <2> QED BY <1>3, <2>1 DEF HoldersGoOn, StaysOn
<1> QED BY <1>2, <1>3 DEF HoldersGoOn

\* The wishes of those who wait stay modest when nobody begins to wait.
LEMMA WishesKept ==
    ASSUME ModestWishes, BeginsNoWait, semaphore'[1].is_binary = semaphore[1].is_binary,
           \A p \in 1..MaxPid : InState(p, {"WAIT_SEMAPHORE"}) => amount'[p] = amount[p]
    PROVE  ModestWishes'
<1>1. ASSUME NEW p \in 1..MaxPid, InState(p, {"WAIT_SEMAPHORE"})'
      PROVE  InState(p, {"WAIT_SEMAPHORE"}) /\ amount'[p] = amount[p]
  BY <1>1 DEF BeginsNoWait, InState
<1>2. \A c : NewSemaphore(c, semaphore'[1].is_binary).count = NewSemaphore(c, semaphore[1].is_binary).count
  OBVIOUS
<1> QED BY <1>1, <1>2 DEF ModestWishes

LEMMA OwnersNow ==
    ASSUME \A m \in DOMAIN mutex' : \A p : p = mutex'[m].owner /\ p # 0 => GoesOn(p)'
    PROVE  OwnersGoOn'
<1>1. \A m \in DOMAIN mutex' : mutex'[m].owner # 0 =>
        mutex'[m].owner \in DOMAIN PD' /\ PD'[mutex'[m].owner].state \in {"READY", "RUNNING", "SLEEPING"}
  BY DEF GoesOn, InState
<1> QED BY <1>1 DEF OwnersGoOn, GoesOn, InState

LEMMA SameStatesStayOn == ASSUME SameStates, NEW p PROVE StaysOn(p)
  BY DEF SameStates, StaysOn, GoesOn, InState

LEMMA OthersStayOn == ASSUME NEW movers, OthersAge(movers), NEW p, p \notin movers PROVE StaysOn(p)
  BY AgedStaysOn DEF OthersAge

\* Those who hold counts stay, but for one that now goes on or waits for the mutex.
LEMMA HoldersNow ==
    ASSUME HoldersGoOn, UNCHANGED held,
           \A p \in 1..MaxPid : held[p] > 0 =>
              StaysOn(p) \/ GoesOn(p)' \/ InState(p, {"WAIT_MUTEX"})'
    PROVE  HoldersGoOn'
  BY DEF HoldersGoOn, StaysOn

\* Whoever locks the mutex goes on or waits for it; it owned none before.
LEMMA LockLetsGoOn ==
    ASSUME ~SelfSuspend, MutexInv, MutexWaitInv, OwnersGoOn, HoldersGoOn, UNCHANGED held,
           Owned(Current_Process) = {}, LockFates
    PROVE  OwnersGoOn' /\ HoldersGoOn'
<1>0. PICK c : c = Current_Process
  OBVIOUS
<1>1. CASE NothingHappens
  BY <1>1, SameStaysOn, OwnersNow, HoldersNow DEF NothingHappens, OwnersGoOn, StaysOn
<1>2. ASSUME Running, NEW m \in DOMAIN mutex, LockOutcome(m)
      PROVE  OwnersGoOn' /\ HoldersGoOn'
  <2>1. c \in DOMAIN PD /\ PD[c].state = "RUNNING"
    BY <1>0, <1>2, CallerMoves
  <2>2. \A n \in DOMAIN mutex : mutex[n].owner # c
    BY <1>0 DEF Owned
  <2>3. CASE SameStates /\ MutexBecame(m, c, mutex[m].lock_count + 1, mutex[m].wait_queue)
    <3>1. \A p : StaysOn(p)
      BY <2>3, SameStatesStayOn
    <3>2. GoesOn(c)
      BY <2>1 DEF GoesOn, InState
    <3>3. \A n \in DOMAIN mutex' : n \in DOMAIN mutex /\ mutex'[n].owner \in {c, mutex[n].owner}
      BY <2>3 DEF MutexBecame
    <3> QED BY <3>1, <3>2, <3>3, OwnersNow, HoldersNow DEF OwnersGoOn, StaysOn
  <2>4. CASE /\ MutexBecame(m, mutex[m].owner, mutex[m].lock_count, Enqueue(mutex[m].wait_queue, c))
             /\ Moved(c, "WAIT_MUTEX") /\ OthersAge({c})
    <3>1. \A p : p # c => StaysOn(p)
      BY <2>4, OthersStayOn
    <3>2. GoesOn(c)' \/ InState(c, {"WAIT_MUTEX"})'
      BY <2>1, <2>4, MovedGoesOn DEF OthersAge
    <3>3. \A n \in DOMAIN mutex' : n \in DOMAIN mutex /\ mutex'[n].owner = mutex[n].owner
      BY <2>4 DEF MutexBecame
    <3>4. \A p \in 1..MaxPid : StaysOn(p) \/ GoesOn(p)' \/ InState(p, {"WAIT_MUTEX"})'
      BY <3>1, <3>2
    <3>5. HoldersGoOn'
      BY <3>4, HoldersNow
    <3>6. OwnersGoOn'
      BY <2>2, <3>1, <3>3, OwnersNow DEF OwnersGoOn, StaysOn
    <3> QED BY <3>5, <3>6
  <2> QED BY <1>0, <1>2, <2>2, <2>3, <2>4 DEF LockOutcome
<1> QED BY <1>1, <1>2 DEF LockFates

\* Whoever unlocks the mutex goes on, and so does the one that it hands it to.
LEMMA UnlockLetsGoOn ==
    ASSUME ~SelfSuspend, MutexInv, MutexWaitInv, OwnersGoOn, HoldersGoOn, UNCHANGED held,
           UnlockFates
    PROVE  OwnersGoOn' /\ HoldersGoOn'
<1>0. PICK c : c = Current_Process
  OBVIOUS
<1>1. CASE NothingHappens
  BY <1>1, SameStaysOn, OwnersNow, HoldersNow DEF NothingHappens, OwnersGoOn, StaysOn
<1>2. ASSUME Running, NEW m \in DOMAIN mutex, UnlockOutcome(m)
      PROVE  OwnersGoOn' /\ HoldersGoOn'
  <2> DEFINE q == mutex[m].wait_queue
  <2>1. c \in DOMAIN PD
    BY <1>0, <1>2, CallerMoves
  <2>2. q \in Seq(Nat)
    BY DEF MutexInv, MutexesOK, MutexOK, MutexType
  <2>3. q # <<>> => PD[Head(q)].state = "WAIT_MUTEX"
    <3>1. q # <<>> => Head(q) \in ToSet(q)
      BY <2>2, DequeueFacts
    <3> QED BY <3>1, MutexQueuedWaits DEF MutexWaitInv
  <2>4. ASSUME SameStates, NEW o \in {0, c}, NEW n, MutexBecame(m, o, n, q), mutex[m].owner = c
        PROVE  OwnersGoOn' /\ HoldersGoOn'
    <3>1. \A p : StaysOn(p)
      BY <2>4, SameStatesStayOn
    <3>2. \A k \in DOMAIN mutex' : k \in DOMAIN mutex /\ mutex'[k].owner \in {0, mutex[k].owner}
      BY <2>4 DEF MutexBecame
    <3> QED BY <3>1, <3>2, OwnersNow, HoldersNow DEF OwnersGoOn, StaysOn
  <2>5. ASSUME NEW next \in DOMAIN PD, MutexBecame(m, next, 1, Dequeue(q)),
               Moved(next, "READY"), Moved(c, "READY"), OthersAge({next, c})
        PROVE  OwnersGoOn' /\ HoldersGoOn'
    <3>1. \A p : p \notin {next, c} => StaysOn(p)
      BY <2>5, OthersStayOn
    <3>2. GoesOn(next)' /\ GoesOn(c)'
      BY <2>1, <2>5, MovedGoesOn DEF OthersAge
    <3>3. \A p : StaysOn(p) \/ GoesOn(p)'
      BY <3>1, <3>2
    <3>4. HoldersGoOn'
      BY <3>3, HoldersNow
    <3>5. \A k \in DOMAIN mutex' : \/ mutex'[k].owner = next
                                   \/ k \in DOMAIN mutex /\ mutex'[k].owner = mutex[k].owner
      BY <2>5 DEF MutexBecame
    <3>6. OwnersGoOn'
      BY <3>2, <3>3, <3>5, OwnersNow DEF OwnersGoOn, StaysOn
    <3> QED BY <3>4, <3>6
  <2> QED BY <1>0, <1>2, <2>3, <2>4, <2>5 DEF UnlockOutcome
<1> QED BY <1>1, <1>2 DEF UnlockFates

-----------------------------------------------------------------------------
(* Getting and giving.                                                     *)

\* Nobody begins to wait, whoever is served.
LEMMA ServingBeginsNoWait ==
    ASSUME ClientInv, NEW q, NEW k, PD' = Woken(q, k)
    PROVE  BeginsNoWait
<1>1. \A p \in DOMAIN PD : PD[p] \in Process
  BY ElementOfSeq, LenProperties DEF ClientInv, SemaphoreInv, Inv, Table
<1> QED BY <1>1 DEF Woken, BeginsNoWait, Process

\* Who asks for counts holds none and owns no mutex; who waits for counts waits for
\* as many as there were in the beginning, at most.
LEMMA GetLetsGoOn ==
    ASSUME Amounts \subseteq Nat, InitialCounts \subseteq Nat, ~SelfSuspend,
           \A n \in Amounts, c \in InitialCounts : n <= c,
           ClientInv, Running, HelpersGoOn, NEW n \in Amounts, Get(n), UNCHANGED mutexVars,
           mode' # "halted"
    PROVE  HelpersGoOn'
<1>0. PICK c : c = Current_Process
  OBVIOUS
<1>1. Exists(1) /\ Semaphore_Get(1, n) /\ n \in Nat /\ SemaphoreInv /\ HoldsNothing(c)
  BY <1>0 DEF Get, ClientInv
<1>2. SemaphoreFates /\ (Got(1, n) \/ Joined(1, n))
  BY <1>1, GetKeepsSemaphores
<1>3. /\ c \in 1..MaxPid /\ c \in DOMAIN PD /\ PD[c].state = "RUNNING" /\ held \in Shares
  BY <1>0, ClientFacts DEF HeldInv
<1>4. /\ mutex' = mutex /\ \A m \in DOMAIN mutex : mutex[m].owner # c
      /\ held[c] = 0
  BY <1>1, <1>3 DEF HoldsNothing, Owned, mutexVars, Shares
<1>5. /\ semaphore'[1].is_binary = semaphore[1].is_binary
      /\ \A p \in 1..MaxPid : p # c => amount'[p] = amount[p]
      /\ semaphore[1].is_binary \in BOOLEAN
  <2>1. OwnAmount
    BY <1>2 DEF SemaphoreFates
  <2> QED BY <1>0, <1>1, <1>2, <2>1, SemaphoreFacts, EnvironmentAssumption
      DEF Got, Joined, Became, OwnAmount
<1>6. CASE Got(1, n)
  <2>1. PD' = PD
    BY <1>6 DEF Got
  <2>2. \A p : StaysOn(p)
    BY <2>1, SameStaysOn
  <2>3. OwnersGoOn'
    BY <1>4, <2>2, OwnersNow DEF HelpersGoOn, OwnersGoOn, StaysOn
  <2>4. HoldersGoOn'
    <3>1. ASSUME NEW p \in 1..MaxPid, held'[p] > 0 PROVE GoesOn(p)' \/ InState(p, {"WAIT_MUTEX"})'
      <4>1. CASE p = c
        BY <1>3, <2>1, <4>1 DEF GoesOn, InState
      <4>2. CASE p # c
        <5>1. held'[p] = held[p]
          BY <1>0, <1>3, <4>2 DEF Get, Shares
        <5> QED BY <2>2, <3>1, <5>1 DEF HelpersGoOn, HoldersGoOn, StaysOn
      <4> QED BY <4>1, <4>2
    <3> QED BY <3>1 DEF HoldersGoOn
  <2>5. ModestWishes'
    BY <1>3, <1>5, <2>1, WishesKept DEF HelpersGoOn, BeginsNoWait, InState
  <2> QED BY <2>3, <2>4, <2>5 DEF HelpersGoOn
<1>7. CASE Joined(1, n)
  <2>1. OthersAge({c}) /\ amount'[c] = Asked(1, n)
    BY <1>0, <1>7 DEF Joined
  <2>2. held' = held
    BY <1>1, <1>7, JoinedHoldsNothing
  <2>3. \A p : p # c => StaysOn(p)
    BY <2>1, OthersStayOn
  <2>4. OwnersGoOn'
    BY <1>4, <2>3, OwnersNow DEF HelpersGoOn, OwnersGoOn, StaysOn
  <2>5. HoldersGoOn'
    BY <1>4, <2>2, <2>3, HoldersNow DEF HelpersGoOn
  <2>6. ASSUME NEW p \in 1..MaxPid, InState(p, {"WAIT_SEMAPHORE"})', NEW i \in InitialCounts
        PROVE  amount'[p] <= NewSemaphore(i, semaphore'[1].is_binary).count
    <3>1. CASE p = c
      <4>1. n <= i /\ i \in Nat
        OBVIOUS
      <4>2. Asked(1, n) <= NewSemaphore(i, semaphore[1].is_binary).count
        BY <1>1, <1>5, <4>1 DEF Asked, NewSemaphore
      <4> QED BY <1>5, <2>1, <3>1, <4>2
    <3>2. CASE p # c
      <4>1. "WAIT_SEMAPHORE" \in Waiting
        BY DEF Waiting
      <4>2. InState(p, {"WAIT_SEMAPHORE"})
        BY <2>1, <2>6, <3>2, <4>1, AgedWaitsNotAnew DEF OthersAge, InState
      <4> QED BY <1>5, <3>2, <4>2 DEF HelpersGoOn, ModestWishes
    <3> QED BY <3>1, <3>2
  <2>7. ModestWishes'
    BY <2>6 DEF ModestWishes
  <2> QED BY <2>4, <2>5, <2>7 DEF HelpersGoOn
<1> QED BY <1>2, <1>6, <1>7

\* Whoever is granted counts is made READY.
LEMMA GiveLetsGoOn ==
    ASSUME Amounts \subseteq Nat, ~SelfSuspend, ClientInv, Running, HelpersGoOn, Give,
           UNCHANGED mutexVars, mode' # "halted"
    PROVE  HelpersGoOn'
<1> DEFINE n == held[Current_Process]
           q == semaphore[1].wait_queue
<1>0. PICK c : c = Current_Process
  OBVIOUS
<1>1. /\ HeldInv /\ SemaphoreInv /\ Semaphore_Give(1, n) /\ n \in Nat /\ c \in DOMAIN PD
      /\ PD[c].state = "RUNNING"
  BY <1>0, ClientFacts DEF Give, HeldInv, Shares, ClientInv
<1>2. Exists(1)
  <2>1. semaphore # <<>>
    BY <1>1, ClientFacts DEF HeldInv, Give
  <2> QED BY <2>1, Created
<1>3. SemaphoreFates /\ (GaveToNobody(1, n) \/ GaveToWaiters(1, n))
  BY <1>1, <1>2, GiveKeepsSemaphores
<1>4. /\ mutex' = mutex /\ semaphore'[1].is_binary = semaphore[1].is_binary
      /\ \A p \in 1..MaxPid : p # c => amount'[p] = amount[p]
  <2>1. OwnAmount
    BY <1>3 DEF SemaphoreFates
  <2>2. semaphore'[1].is_binary = semaphore[1].is_binary
    BY <1>3 DEF GaveToNobody, GaveToWaiters, Became
  <2> QED BY <1>0, <2>1, <2>2, EnvironmentAssumption DEF OwnAmount, mutexVars
<1>5. ASSUME NEW p \in 1..MaxPid
      PROVE  held'[p] = CASE p = c -> 0
                          [] p # c /\ InState(p, {"WAIT_SEMAPHORE"}) ->
                                IF PD'[p].state = "WAIT_SEMAPHORE" THEN 0 ELSE amount[p]
                          [] OTHER -> held[p]
  BY <1>0 DEF Give
\* Whoever is served was waiting for counts and is READY.
<1>6. /\ \A p : StaysOn(p)
      /\ \A p : InState(p, {"WAIT_SEMAPHORE"}) => GoesOn(p)' \/ PD'[p].state = "WAIT_SEMAPHORE"
      /\ BeginsNoWait
  <2>1. CASE GaveToNobody(1, n)
    <3>1. PD' = PD
      BY <2>1 DEF GaveToNobody
    <3> QED BY <3>1, SameStaysOn DEF InState, BeginsNoWait
  <2>2. CASE GaveToWaiters(1, n)
    <3>1. PICK k \in 0..Len(q) : Serves(Given(1, n), q, k) /\ PD' = Woken(q, k)
      BY <2>2 DEF GaveToWaiters
    <3>2. \A j \in 1..k : PD[q[j]].state = "WAIT_SEMAPHORE"
      BY <3>1 DEF Serves, StillWaits
    <3>3. \A p \in DOMAIN PD : PD[p] \in Process
      BY <1>1, ElementOfSeq, LenProperties DEF SemaphoreInv, Inv, Table
    <3> HIDE DEF q, n
    <3>4. /\ DOMAIN PD' = DOMAIN PD
          /\ \A p \in DOMAIN PD : \/ PD'[p] = PD[p]
                                  \/ PD[p].state = "WAIT_SEMAPHORE" /\ PD'[p].state = "READY"
      BY <3>1, <3>2, <3>3 DEF Woken, Process
    <3>5. BeginsNoWait
      BY <3>1, ServingBeginsNoWait
    <3> QED BY <3>4, <3>5 DEF StaysOn, GoesOn, InState
  <2> QED BY <1>3, <2>1, <2>2
<1>7. OwnersGoOn'
  BY <1>4, <1>6, OwnersNow DEF HelpersGoOn, OwnersGoOn, StaysOn
<1>8. HoldersGoOn'
  <2>1. ASSUME NEW p \in 1..MaxPid, held'[p] > 0 PROVE GoesOn(p)' \/ InState(p, {"WAIT_MUTEX"})'
    <3>1. CASE p = c
      BY <1>5, <2>1, <3>1
    <3>2. CASE p # c /\ InState(p, {"WAIT_SEMAPHORE"})
      <4>1. PD'[p].state # "WAIT_SEMAPHORE"
        BY <1>5, <2>1, <3>2
      <4> QED BY <1>6, <3>2, <4>1
    <3>3. CASE p # c /\ ~InState(p, {"WAIT_SEMAPHORE"})
      <4>1. held[p] > 0
        BY <1>5, <2>1, <3>3
      <4> QED BY <1>6, <4>1 DEF HelpersGoOn, HoldersGoOn, StaysOn
    <3> QED BY <3>1, <3>2, <3>3
  <2> QED BY <2>1 DEF HoldersGoOn
<1>9. ModestWishes'
  <2>1. ~InState(c, {"WAIT_SEMAPHORE"})
    BY <1>1 DEF InState
  <2> QED BY <1>4, <1>6, <2>1, WishesKept DEF HelpersGoOn
<1> QED BY <1>7, <1>8, <1>9 DEF HelpersGoOn

-----------------------------------------------------------------------------
(* Every step.                                                             *)

LEMMA CreateFacts ==
    ASSUME ClientInv, mode = "boot", NEW c \in InitialCounts, NEW b \in Binary,
           Semaphore_Create(c, b)
    PROVE  SemaphoreFates /\ PD' = PD
<1>1. PICK noErr \in Errors : Kernel_Create_Semaphore_Direct(c, b, noErr)
  BY DEF Semaphore_Create, Inv, ClientInv, SemaphoreInv, VarTypes, Running
<1>2. AmountsOK' /\ OwnAmount
  BY SilenceFacts DEF Semaphore_Create, Running, ClientInv, SemaphoreInv
<1>3. SemaphoreFates
  BY <1>1, <1>2, CreateKeepsSemaphores DEF ClientInv
<1> QED BY <1>1, <1>3 DEF Kernel_Create_Semaphore_Direct, Return, WriteThroughNull

\* A client that calls has counts, if any, in Nat.
LEMMA CallFates ==
    ASSUME Amounts \subseteq Nat, ~SelfSuspend, ClientInv, Running,
           Give \/ \E n \in Amounts : Get(n)
    PROVE  SemaphoreFates
<1>1. SemaphoreInv /\ held[Current_Process] \in Nat
  BY ClientFacts DEF ClientInv, HeldInv, Shares
<1> QED BY <1>1, GiveKeepsSemaphores, GetKeepsSemaphores DEF Give, Get

\* A step is one of a semaphore or one that leaves it alone.
LEMMA ClientFates ==
    ASSUME Amounts \subseteq Nat, ~SelfSuspend, ClientInv, [ClientNext]_clientVars
    PROVE  \/ SemaphoreFates /\ mutex' = mutex
           \/ MutexFates /\ UNCHANGED <<semaphore, SemaphoreList, amount>>
<1>0. MutexInv
  BY DEF ClientInv, SemaphoreInv, MutexInv
<1>1. CASE mode = "boot" /\ SetUp
  <2>1. CASE /\ UNCHANGED <<mutexVars, held>>
             /\ \E c \in InitialCounts, b \in Binary : Semaphore_Create(c, b)
    BY <1>1, <2>1, CreateFacts DEF mutexVars
  <2>2. CASE Mutex_Create /\ UNCHANGED <<semVars, held>>
    <3>1. [MutexNext]_varsAndMutexes
      BY <2>2 DEF MutexNext, MutexCall
    <3> QED BY <1>0, <2>2, <3>1, MutexStep DEF semVars
  <2> QED BY <1>1, <2>1, <2>2 DEF SetUp
<1>2. CASE SchedulerStep
  BY <1>2, SchedulerFacts DEF MutexFates, mutexVars
<1>3. CASE mode = "task" /\ (Give \/ \E n \in Amounts : Get(n)) /\ UNCHANGED mutexVars
  BY <1>3, CallFates DEF Running, mutexVars
<1>4. CASE (Lock \/ Unlock) /\ UNCHANGED <<semVars, held>>
  BY <1>0, <1>4, LockKeepsMutexInv, UnlockKeepsMutexInv, CallsAreFates DEF Lock, Unlock, semVars
<1>5. CASE UNCHANGED clientVars
  BY <1>5, NothingIsFate DEF clientVars, allVars, vars, semVars, mutexVars, MutexFates
<1> QED BY <1>1, <1>2, <1>3, <1>4, <1>5 DEF ClientNext

\* Before anything is created nobody waits for counts.
LEMMA NobodyWaitsYet ==
    ASSUME SidesWait, semaphore = <<>>, PD' = PD
    PROVE  ModestWishes'
<1>1. DOMAIN Queues = {}
  BY DEF Queues
<1>2. Waiters = {}
  BY <1>1 DEF SidesWait, WaitInv, Match
<1> QED BY <1>2 DEF ModestWishes, InState, Waiters

LEMMA HelpersKept ==
    ASSUME Amounts \subseteq Nat, InitialCounts \subseteq Nat, ~SelfSuspend,
           \A n \in Amounts, c \in InitialCounts : n <= c,
           ClientInv, SidesWait, HelpersGoOn, [ClientNext]_clientVars,
           mode # "halted", mode' # "halted"
    PROVE  HelpersGoOn'
<1>0. /\ MutexInv /\ MutexWaitInv /\ OwnersGoOn /\ HoldersGoOn /\ ModestWishes
      /\ DOMAIN held = 1..MaxPid /\ Inv
  BY DEF ClientInv, SemaphoreInv, MutexInv, SidesWait, HelpersGoOn, HeldInv, Shares
\* Whatever leaves the semaphore alone leaves the wishes alone.
<1>a. ASSUME MutexFates, UNCHANGED semVars PROVE ModestWishes'
  BY <1>0, <1>a, MutexBeginsNoWait, WishesKept DEF semVars
<1>1. CASE mode = "boot" /\ SetUp
  <2>1. ASSUME semaphore = <<>>, UNCHANGED <<mutexVars, held>>,
               NEW c \in InitialCounts, NEW b \in Binary, Semaphore_Create(c, b)
        PROVE  HelpersGoOn'
    <3>1. PD' = PD
      BY <1>1, <2>1, CreateFacts
    <3>2. \A p : StaysOn(p)
      BY <3>1, SameStaysOn
    <3>3. OwnersGoOn' /\ HoldersGoOn'
      BY <1>0, <2>1, <3>2, HelpersStayOn DEF mutexVars
    <3> QED BY <2>1, <3>1, <3>3, NobodyWaitsYet DEF HelpersGoOn
  <2>2. CASE Mutex_Create /\ UNCHANGED <<semVars, held>>
    <3>1. PICK noErr \in Errors : mode \in {"boot", "task"} /\ Kernel_Create_Mutex(noErr)
      BY <1>0, <2>2 DEF Mutex_Create, Running, Errors, Inv, VarTypes
    <3>2. MutexInv' /\ PD' = PD
      BY <1>0, <3>1, CreateKeepsMutexInv
    <3>3. \A p : StaysOn(p)
      BY <3>2, SameStaysOn
    <3>4. \A m \in DOMAIN mutex' :
             \/ mutex'[m].owner = 0
             \/ m \in DOMAIN mutex /\ mutex'[m].owner = mutex[m].owner
      <4>1. mutex' = mutex \/ mutex' = Append(mutex, NewMutex)
        BY <3>1 DEF Kernel_Create_Mutex, mutexVars
      <4>2. mutex \in Seq(MutexType)
        BY <1>0 DEF MutexInv, MutexesOK
      <4>3. NewMutex \in MutexType /\ NewMutex.owner = 0
        BY ConfigAssumption DEF NewMutex, MutexType
      <4>4. ASSUME NEW l \in Seq(MutexType), NEW x \in MutexType, NEW m \in DOMAIN Append(l, x)
            PROVE  Append(l, x)[m] = x \/ (m \in DOMAIN l /\ Append(l, x)[m] = l[m])
        BY <4>4, AppendProperties, LenProperties
      <4> QED BY <4>1, <4>2, <4>3, <4>4
    <3>5. OwnersGoOn' /\ HoldersGoOn'
      BY <1>0, <2>2, <3>3, <3>4, HelpersStayOn
    <3>6. MutexFates
      <4>1. [MutexNext]_varsAndMutexes
        BY <2>2 DEF MutexNext, MutexCall
      <4> QED BY <1>0, <4>1, MutexStep
    <3> QED BY <1>a, <2>2, <3>5, <3>6 DEF HelpersGoOn
  <2> QED BY <1>1, <2>1, <2>2 DEF SetUp
<1>2. CASE SchedulerStep
  <2>1. \A p : ~HoldsNothing(p) => StaysOn(p)
    BY <1>0, <1>2, SchedulerLetsGoOn
  <2>2. UNCHANGED <<semVars, mutex, held>> /\ MutexFates
    BY <1>2, SchedulerFacts DEF mutexVars, semVars, MutexFates
  <2>3. OwnersGoOn' /\ HoldersGoOn'
    BY <1>0, <2>1, <2>2, HelpersStayOn
  <2> QED BY <1>a, <2>2, <2>3 DEF HelpersGoOn
<1>3. CASE mode = "task" /\ (Give \/ \E n \in Amounts : Get(n)) /\ UNCHANGED mutexVars
  BY <1>3, GiveLetsGoOn, GetLetsGoOn DEF Running
<1>4. CASE Lock /\ UNCHANGED <<semVars, held>>
  <2>1. Owned(Current_Process) = {} /\ LockFates
    BY <1>0, <1>4, LockKeepsMutexInv DEF Lock
  <2> QED BY <1>0, <1>a, <1>4, <2>1, LockLetsGoOn, CallsAreFates DEF HelpersGoOn
<1>5. CASE Unlock /\ UNCHANGED <<semVars, held>>
  <2>1. UnlockFates
    BY <1>0, <1>5, UnlockKeepsMutexInv DEF Unlock
  <2> QED BY <1>0, <1>a, <1>5, <2>1, UnlockLetsGoOn, CallsAreFates DEF HelpersGoOn
<1>6. CASE UNCHANGED clientVars
  <2>1. UNCHANGED <<PD, semVars, mutex, held>>
    BY <1>6 DEF clientVars, allVars, vars, semVars, mutexVars
  <2> QED BY <2>1 DEF HelpersGoOn, OwnersGoOn, HoldersGoOn, ModestWishes, GoesOn, InState, semVars
<1> QED BY <1>1, <1>2, <1>3, <1>4, <1>5, <1>6 DEF ClientNext

-----------------------------------------------------------------------------
(* The theorems about who waits for whom.                                  *)

\* Whoever waits for the mutex is on its queue, and it has an owner.
LEMMA MutexWaitCanEnd ==
    ASSUME MutexInv, MutexWaitInv, OwnersGoOn, NEW p, InState(p, {"WAIT_MUTEX"})
    PROVE  \E m \in MutexQueued(p) : GoesOn(mutex[m].owner)
<1>1. PICK m \in DOMAIN mutex : \E i \in DOMAIN mutex[m].wait_queue : mutex[m].wait_queue[i] = p
  BY DEF MutexWaitInv, Match, MutexQueues, MutexWaiters, InState
<1>2. m \in MutexQueued(p) /\ mutex[m].wait_queue # <<>>
  BY <1>1 DEF MutexQueued, ToSet
<1>3. mutex[m].owner # 0
  BY <1>2 DEF MutexInv, MutexesOK, MutexOK
<1> QED BY <1>2, <1>3 DEF OwnersGoOn

\* What the first waiter lacks is held by somebody: it wants no more than there was
\* in the beginning.
LEMMA CountWaitCanEnd ==
    ASSUME ClientInv, HeldInv, WaitInv, CountsAreNotIdle, HoldersGoOn, ModestWishes,
           NEW p \in 1..MaxPid, InState(p, {"WAIT_SEMAPHORE"})
    PROVE  \E q \in 1..MaxPid : held[q] > 0 /\ (GoesOn(q) \/ InState(q, {"WAIT_MUTEX"}))
<1> DEFINE queue == semaphore[1].wait_queue
<1>1. 1 \in DOMAIN semaphore /\ queue # <<>>
  <2>1. PICK s \in DOMAIN semaphore : \E i \in DOMAIN semaphore[s].wait_queue :
               semaphore[s].wait_queue[i] = p
    BY DEF WaitInv, Match, Queues, Waiters, InState
  <2>2. s = 1
    BY <2>1 DEF ClientInv, OnlyOne
  <2> QED BY <2>1, <2>2
<1>2. Exists(1) /\ semaphore # <<>> /\ 1 \in ToSet(SemaphoreList)
  BY <1>1, Created DEF ClientInv, OnlyOne
<1>3. queue \in Seq(Nat) /\ semaphore[1].count \in Int /\ semaphore[1].is_binary \in BOOLEAN
  BY <1>2, SemaphoreFacts
<1>4. PICK h : h = Head(queue)
  OBVIOUS
<1>5. 1 \in DOMAIN queue /\ h = queue[1]
  <2> HIDE DEF queue
  <2>1. Len(queue) \in Nat /\ Len(queue) # 0 /\ DOMAIN queue = 1..Len(queue)
    BY <1>1, <1>3, EmptySeq, LenProperties
  <2> QED BY <1>1, <1>3, <1>4, <2>1
<1>6. h \in DOMAIN PD /\ PD[h].state = "WAIT_SEMAPHORE"
  BY <1>1, <1>5, QueuedWaits
<1>7. h \in 1..MaxPid /\ amount[h] \in Int
  <2>1. Len(PD) \in Nat /\ DOMAIN PD = 1..Len(PD) /\ Len(PD) <= MaxPid
    BY LenProperties DEF ClientInv, SemaphoreInv, Inv, Table, VarTypes
  <2> QED BY <1>6, <2>1, EnvironmentAssumption DEF ClientInv, SemaphoreInv, AmountsOK
<1>8. semaphore[1].count < amount[h]
  BY <1>1, <1>2, <1>4 DEF CountsAreNotIdle
<1>9. PICK c \in InitialCounts :
        semaphore[1].count + Total(held) = NewSemaphore(c, semaphore[1].is_binary).count
  BY <1>2 DEF HeldInv, Balanced
<1>10. amount[h] <= NewSemaphore(c, semaphore[1].is_binary).count
  BY <1>6, <1>7 DEF ModestWishes, InState
<1>11. held \in Shares /\ Total(held) \in Nat
  BY TotalIsNat DEF HeldInv
<1>12. Total(held) # 0
  BY <1>3, <1>7, <1>8, <1>9, <1>10, <1>11
<1>13. PICK q \in 1..MaxPid : held[q] # 0
  BY <1>11, <1>12, NothingTotal
<1>14. held[q] > 0
  BY <1>11, <1>13 DEF Shares
<1> QED BY <1>14 DEF HoldersGoOn

\* What is true of the clients at any time.
GoOnInv == ClientInv /\ SidesWait /\ (mode # "halted" => HelpersGoOn)

LEMMA GoOnInitially ==
    ASSUME ClientInit
    PROVE  SidesWait /\ HelpersGoOn
<1>1. PD = <<>> /\ mutex = <<>> /\ semaphore = <<>> /\ SemaphoreList = <<>>
      /\ held = [p \in 1..MaxPid |-> 0]
  BY DEF ClientInit, SemaphoreInit, MutexInit, Init
<1>2. AllTimely /\ Waiters = {} /\ MutexWaiters = {}
  BY <1>1 DEF AllTimely, Waiters, MutexWaiters
<1>3. MutexWaitInv /\ WaitInv
  BY <1>1, <1>2 DEF MutexWaitInv, WaitInv, Match, MutexQueues, Queues
<1>4. NoDebt /\ CountsAreNotIdle
  BY <1>1 DEF NoDebt, CountsAreNotIdle, ToSet
<1>5. HelpersGoOn
  BY <1>1 DEF HelpersGoOn, OwnersGoOn, HoldersGoOn, ModestWishes, InState
<1> QED BY <1>3, <1>4, <1>5 DEF SidesWait

LEMMA SidesKept ==
    ASSUME Amounts \subseteq Nat, InitialCounts \subseteq Nat, ~SelfSuspend,
           FreshTimeouts \subseteq {0}, ClientInv, SidesWait, [ClientNext]_clientVars
    PROVE  ClientInv' /\ SidesWait'
<1>1. ClientInv'
  BY ClientStep
<1>2. SemaphoreInv /\ SemaphoreInv' /\ MutexInv
  BY <1>1 DEF ClientInv, SemaphoreInv, MutexInv
<1> QED BY <1>1, <1>2, ClientFates, SemaphoreKeepsSides, MutexKeepsSides

LEMMA HaltedForEver ==
    ASSUME ClientInv, [ClientNext]_clientVars, mode = "halted"
    PROVE  mode' = "halted"
<1>1. ~SchedulerStep
  BY SchedulerFacts
<1> QED BY <1>1 DEF ClientNext, clientVars, allVars, vars

\* What is proved of the mutexes and of the semaphores by themselves is still true
\* when the tasks use both, sleep, and are suspended: a wait for a mutex and one for
\* counts do not get into each other's way.
THEOREM ClientsKeepPromises ==
    ASSUME Amounts \subseteq Nat, InitialCounts \subseteq Nat, ~SelfSuspend,
           FreshTimeouts \subseteq {0}
    PROVE  ClientSpec => [](/\ AtMostOneRunning /\ ListIsLive
                            /\ WaitersWait /\ NoLostHandOver
                            /\ GettersWait /\ CountsAreNotIdle)
<1>1. ClientInit => ClientInv /\ SidesWait
  BY ClientInitEstablishes, GoOnInitially
<1>2. ClientInv /\ SidesWait /\ [ClientNext]_clientVars => (ClientInv /\ SidesWait)'
  BY SidesKept
<1>3. ClientInv /\ SidesWait => /\ AtMostOneRunning /\ ListIsLive
                                /\ WaitersWait /\ NoLostHandOver
                                /\ GettersWait /\ CountsAreNotIdle
  BY InvImplies, MutexInvImplies, MutexWaitInvImplies, WaitInvImplies
     DEF ClientInv, SemaphoreInv, MutexInv, SidesWait
<1> QED BY <1>1, <1>2, <1>3, PTL DEF ClientSpec

\* Nobody waits for nobody and no tasks wait for each other in a circle, however many
\* there are and in whatever order they lock, get and give: whoever waits for the mutex
\* waits for a task that goes on, and whoever waits for counts for one that goes on or
\* waits for the mutex.
THEOREM ClientWaitsCanEnd ==
    ASSUME Amounts \subseteq Nat, InitialCounts \subseteq Nat, ~SelfSuspend,
           FreshTimeouts \subseteq {0}, \A n \in Amounts, c \in InitialCounts : n <= c
    PROVE  ClientSpec => []WaitsCanEnd
<1>1. ClientInit => GoOnInv
  BY ClientInitEstablishes, GoOnInitially DEF GoOnInv
<1>2. GoOnInv /\ [ClientNext]_clientVars => GoOnInv'
  BY SidesKept, HelpersKept, HaltedForEver DEF GoOnInv
<1>3. GoOnInv => WaitsCanEnd
  <2> SUFFICES ASSUME GoOnInv, mode # "halted" PROVE WaitsCanEnd
    BY DEF WaitsCanEnd
  <2>1. /\ ClientInv /\ HeldInv /\ MutexInv /\ MutexWaitInv /\ WaitInv /\ CountsAreNotIdle
        /\ OwnersGoOn /\ HoldersGoOn /\ ModestWishes
    BY DEF GoOnInv, ClientInv, SemaphoreInv, MutexInv, SidesWait, HelpersGoOn
  <2> QED BY <2>1, MutexWaitCanEnd, CountWaitCanEnd DEF WaitsCanEnd
<1> QED BY <1>1, <1>2, <1>3, PTL DEF ClientSpec

=============================================================================
