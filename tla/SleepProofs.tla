----------------------------- MODULE SleepProofs -----------------------------
(***************************************************************************)
(* How long a sleep lasts: theorems about SleepClock, for every value of   *)
(* its constants for which the timers stay within half of their range.     *)
(***************************************************************************)
EXTENDS SleepClock, TimerProofs

\* What Sleeping says of a descriptor.
Asleep(a) == \/ a.state = "SLEEPING"
             \/ a.state = "SUSPENDED" /\ a.last_state = "SLEEPING"

\* The operator of Kernel says the same.
LEMMA SleepingIsAsleep == \A p : Sleeping(p) <=> Asleep(PD[p])
  BY DEF Sleeping, Asleep

\* Nobody falls asleep by ageing.
LEMMA AgedStaysAwake ==
    ASSUME NEW a, NEW b, Aged(a, b), ~Asleep(a)
    PROVE  ~Asleep(b)
  BY DEF Aged, Active, Asleep

-----------------------------------------------------------------------------
(* A charge of ticks, and a dispatch, seen by a sleeper.                   *)

\* A timer that stays clear of the wrap of ToInt.
Short(a) == a.request_timeout \in Nat \ {0} /\ 2 * a.request_timeout < UINT

\* The sleeper a becomes b when ticks are charged.
Slept(a, b, ticks) ==
    IF a.request_timeout > ticks
    THEN Asleep(b) /\ b.request_timeout = a.request_timeout - ticks
    ELSE ~Asleep(b)

\* The signed difference of two such numbers is what it should be.
LEMMA TimeLeftIsDifference ==
    ASSUME NEW p, Short(p), NEW ticks \in Nat, 2 * ticks <= UINT
    PROVE  TimeLeft(p, ticks) = IF p.request_timeout > ticks THEN p.request_timeout - ticks ELSE 0
<1> DEFINE r == p.request_timeout
           m == (r - ticks) % UINT
<1>1. r \in Nat /\ r > 0 /\ 2 * r < UINT /\ UINT \in Nat \ {0}
  BY ConfigAssumption DEF Short
<1>2. CASE r >= ticks
  <2>1. m = r - ticks
    <3>1. r - ticks \in 0..(UINT - 1)
      BY <1>1, <1>2
    <3> QED BY <1>1, <3>1
  <2>2. ToInt(m) = r - ticks
    BY <1>1, <1>2, <2>1 DEF ToInt
  <2> QED BY <1>1, <1>2, <2>2 DEF TimeLeft
<1>3. CASE r < ticks
  <2>1. m = UINT + r - ticks
    <3> DEFINE x == UINT + r - ticks
    <3>1. x \in 0..(UINT - 1) /\ r - ticks = x - UINT
      BY <1>1, <1>3
    <3> QED BY <1>1, <3>1
  <2>2. ToInt(m) = r - ticks
    BY <1>1, <1>3, <2>1 DEF ToInt
  <2> QED BY <1>1, <1>3, <2>2 DEF TimeLeft
<1> QED BY <1>1, <1>2, <1>3

\* The body of the loop of Kernel_Tick_Handler, seen by a sleeper.
LEMMA ChargeTicksSleeps ==
    ASSUME NEW p \in Process, Asleep(p), Short(p), NEW ticks \in Nat, 2 * ticks <= UINT
    PROVE  Slept(p, ChargeTicks(p, ticks), ticks)
<1> DEFINE starved == IF PREVENT_STARVATION /\ p.state = "READY"
                      THEN (p.starvation_ticks + ticks) % UINT
                      ELSE p.starvation_ticks
           left_   == IF p.request_timeout = 0 THEN 0 ELSE TimeLeft(p, ticks)
           charged == [p EXCEPT !.starvation_ticks = starved, !.request_timeout = left_]
<1>1. ChargeTicks(p, ticks) =
        IF p.request_timeout # 0 /\ left_ = 0 THEN Expired(charged) ELSE charged
  BY DEF ChargeTicks
<1>2. p.request_timeout \in Nat \ {0}
  BY DEF Short
<1>3. left_ = IF p.request_timeout > ticks THEN p.request_timeout - ticks ELSE 0
  BY <1>2, TimeLeftIsDifference
<1> HIDE DEF starved, left_
<1>4. /\ charged.state = p.state /\ charged.last_state = p.last_state
      /\ charged.request_timeout = left_
  BY DEF Process
<1>5. ~Asleep(Expired(charged))
  BY <1>4 DEF Expired, Asleep, Process
<1> HIDE DEF charged
<1>6. CASE p.request_timeout > ticks
  <2>1. ChargeTicks(p, ticks) = charged
    BY <1>1, <1>2, <1>3, <1>6
  <2> QED BY <1>3, <1>4, <1>6, <2>1 DEF Slept, Asleep
<1>7. CASE ~(p.request_timeout > ticks)
  <2>1. ChargeTicks(p, ticks) = Expired(charged)
    BY <1>1, <1>2, <1>3, <1>7
  <2> QED BY <1>5, <1>7, <2>1 DEF Slept
<1> QED BY <1>6, <1>7

\* Kernel_Tick_Handler, seen by any sleeper on the list.
LEMMA TickHandlerSleeps ==
    ASSUME NEW pd, NEW list, Table(pd, list), NEW ticks \in Nat, 2 * ticks <= UINT,
           NEW q \in DOMAIN pd, Asleep(pd[q]), Short(pd[q])
    PROVE  Slept(pd[q], Kernel_Tick_Handler(pd, list, ticks)[q], ticks)
<1>1. pd[q] \in Process /\ pd[q].state # "DEAD" /\ q \in Listed(list)
  BY ElementOfSeq, LenProperties DEF Table, Asleep
<1>2. CASE ticks = 0
  BY <1>2 DEF Kernel_Tick_Handler, Slept, Short
<1>3. CASE ticks # 0
  <2>1. Kernel_Tick_Handler(pd, list, ticks)[q] = ChargeTicks(pd[q], ticks)
    BY <1>1, <1>3 DEF Kernel_Tick_Handler
  <2> QED BY <1>1, <2>1, ChargeTicksSleeps
<1> QED BY <1>2, <1>3

\* A process whose timer has just run out may be selected, a sleeper may not.
LEMMA DispatchSleeps ==
    ASSUME NEW pd, NEW list, Table(pd, list), OnlyCurrentRuns(pd),
           NEW last, list = <<>> \/ last \in Listed(list), NEW ticks \in UInts, 2 * ticks <= UINT,
           Kernel_Dispatch_Next_Task(pd, list, last, ticks),
           NEW q \in DOMAIN pd, Asleep(pd[q]), Short(pd[q])
    PROVE  Slept(pd[q], PD'[q], ticks)
<1> DEFINE demoted == Demote(pd)
           charged == Kernel_Tick_Handler(demoted, list, ticks)
           next    == Kernel_Select_Next_Task(charged, list, last)
<1>1. Table(demoted, list) /\ NoneRuns(demoted) /\ DOMAIN demoted = DOMAIN pd
  BY DemoteFacts
<1>2. demoted[q] = pd[q]
  BY DEF Demote, Asleep
<1>3. \/ \E p \in next : Run(charged, p)
      \/ PD' = charged
  BY DEF Kernel_Dispatch_Next_Task
<1>4. ticks \in Nat
  BY ConfigAssumption DEF UInts
<1> HIDE DEF demoted
<1>5. Slept(pd[q], charged[q], ticks)
  BY <1>1, <1>2, <1>4, TickHandlerSleeps
<1>6. Table(charged, list) /\ DOMAIN charged = DOMAIN pd
  BY <1>1, TickHandlerFacts
<1> HIDE DEF charged
<1>7. ASSUME NEW p \in next, Run(charged, p)
      PROVE  Slept(pd[q], PD'[q], ticks)
  <2>1. p \in Listed(list) /\ charged[p].state = "READY"
    <3> list \in Seq(DOMAIN charged)
      BY <1>6 DEF Table
    <3> QED BY SelectedIsReady
  <2>2. p \in DOMAIN charged /\ charged[p] \in Process
    BY <2>1, <1>6, ElementOfSeq, LenProperties DEF Table
  <2>3. PD'[p].state = "RUNNING" /\ \A r \in DOMAIN charged : r # p => PD'[r] = charged[r]
    BY <1>7, <2>2 DEF Run, Process
  <2>4. CASE q = p
    <3>1. ~Asleep(charged[q]) /\ ~Asleep(PD'[q])
      BY <2>1, <2>3, <2>4 DEF Asleep
    <3> QED BY <1>5, <3>1 DEF Slept
  <2>5. CASE q # p
    BY <1>5, <1>6, <2>3, <2>5
  <2> QED BY <2>4, <2>5
<1> QED BY <1>3, <1>5, <1>7

-----------------------------------------------------------------------------
(* What a step in which n timer interrupts happen means to the sleepers: the *)
(* ticks stay pending, or all that are pending are charged.                  *)

NobodyFallsAsleep ==
    \A p \in DOMAIN PD' : Asleep(PD'[p]) => p \in DOMAIN PD /\ Asleep(PD[p])

TicksStayPending(n) ==
    /\ Tick_Count' = Tick_Count + n
    /\ \A p \in DOMAIN PD : Asleep(PD[p]) =>
          Asleep(PD'[p]) /\ PD'[p].request_timeout = PD[p].request_timeout

TicksGetCharged(n) ==
    /\ Tick_Count' = 0
    /\ \A p \in DOMAIN PD : Asleep(PD[p]) => Slept(PD[p], PD'[p], Tick_Count + n)

Slumber(n) ==
    /\ DOMAIN PD \subseteq DOMAIN PD'
    /\ NobodyFallsAsleep
    /\ TicksStayPending(n) \/ TicksGetCharged(n)

SleepersAreShort == \A p \in DOMAIN PD : Asleep(PD[p]) => Short(PD[p])

\* Nothing happens to the sleepers.
LEMMA NothingIsSlumber ==
    ASSUME Inv, DOMAIN PD \subseteq DOMAIN PD', NEW n \in Nat, Tick_Count' = Tick_Count + n,
           \A p \in DOMAIN PD : \/ PD'[p] = PD[p]
                                \/ Suspended(PD[p], PD'[p]) \/ Resumed(PD[p], PD'[p]),
           \A p \in DOMAIN PD' \ DOMAIN PD : ~Asleep(PD'[p])
    PROVE  Slumber(n)
<1>1. ASSUME NEW p \in DOMAIN PD
      PROVE  /\ Asleep(PD'[p]) <=> Asleep(PD[p])
             /\ PD'[p].request_timeout = PD[p].request_timeout
  <2>1. CASE PD'[p] = PD[p]
    BY <2>1
  <2>2. CASE Suspended(PD[p], PD'[p])
    BY <2>2 DEF Suspended, Asleep
  <2>3. CASE Resumed(PD[p], PD'[p])
    BY <2>3 DEF Resumed, Asleep
  <2> QED BY <2>1, <2>2, <2>3
<1> QED BY <1>1 DEF Slumber, NobodyFallsAsleep, TicksStayPending

\* Pending ticks are a number.
LEMMA TicksAreNat ==
    ASSUME Inv
    PROVE  Tick_Count \in UInts /\ Tick_Count \in Nat /\ Tick_Count + 0 = Tick_Count
  BY ConfigAssumption DEF Inv, VarTypes, UInts

\* Nothing happens to any descriptor.
LEMMA UnchangedIsSlumber ==
    ASSUME Inv, PD' = PD, NEW n \in Nat, Tick_Count' = Tick_Count + n
    PROVE  Slumber(n)
  BY NothingIsSlumber

\* The calls that return to their caller: a new process is READY, and a sleeper that
\* is suspended or resumed sleeps on.
LEMMA CreateIsSlumber ==
    ASSUME Inv, NEW noErr, Kernel_Create_Task_Direct(noErr)
    PROVE  Slumber(0)
<1>0. Tick_Count' = Tick_Count + 0
  BY TicksAreNat DEF Kernel_Create_Task_Direct, Return, WriteThroughNull, sched
<1>1. CASE PD' = PD
  BY <1>0, <1>1, UnchangedIsSlumber
<1>2. ASSUME NEW timeout, NEW stack,
             PD' = Append(PD, NewTask(Last_PID + 1, timeout, stack))
      PROVE  Slumber(0)
  <2>1. Len(PD) \in Nat /\ DOMAIN PD = 1..Len(PD) /\ PD \in Seq(Process)
    BY LenProperties DEF Inv, Table
  <2>2. \A p \in DOMAIN PD : p \in DOMAIN PD' /\ PD'[p] = PD[p]
    BY <1>2, <2>1
  <2>3. Fates
    BY CreateFates
  <2>4. \A p \in DOMAIN PD' \ DOMAIN PD : ~Asleep(PD'[p])
    BY <2>3 DEF Fates, Asleep
  <2> QED BY <1>0, <2>2, <2>4, NothingIsSlumber
<1> QED BY <1>1, <1>2 DEF Kernel_Create_Task_Direct, Return, WriteThroughNull

LEMMA SuspendIsSlumber ==
    ASSUME Inv, NEW p \in Nat, Task_Suspend(p)
    PROVE  Slumber(0)
<1>0. Tick_Count' = Tick_Count + 0
  BY TicksAreNat DEF Task_Suspend, Return, sched
<1>1. CASE PD' = PD
  BY <1>0, <1>1, UnchangedIsSlumber
<1>2. CASE /\ p \in Listed(ProcessList)
           /\ Suspendable(p)
           /\ PD' = [PD EXCEPT ![p].state = "SUSPENDED",
                 ![p].last_state = IF PD[p].state = "RUNNING" THEN "READY" ELSE PD[p].state]
  <2>1. p \in DOMAIN PD /\ PD[p] \in Process
    BY <1>2, ElementOfSeq, LenProperties DEF Inv, Table
  <2>2. /\ DOMAIN PD' = DOMAIN PD
        /\ \A q \in DOMAIN PD : q # p => PD'[q] = PD[q]
        /\ PD'[p] = [PD[p] EXCEPT !.state = "SUSPENDED",
                        !.last_state = IF PD[p].state = "RUNNING" THEN "READY" ELSE PD[p].state]
    BY <1>2, <2>1 DEF Process
  <2>3. Suspended(PD[p], PD'[p])
    BY <1>2, <2>1, <2>2 DEF Suspended, Suspendable, Process
  <2> QED BY <1>0, <2>2, <2>3, NothingIsSlumber
<1> QED BY <1>1, <1>2 DEF Task_Suspend, Return

LEMMA ResumeIsSlumber ==
    ASSUME Inv, NEW p \in Nat, Task_Resume(p)
    PROVE  Slumber(0)
<1>0. Tick_Count' = Tick_Count + 0
  BY TicksAreNat DEF Task_Resume, Return, sched
<1>1. CASE PD' = PD
  BY <1>0, <1>1, UnchangedIsSlumber
<1>2. CASE /\ p \in Listed(ProcessList)
           /\ PD[p].state = "SUSPENDED"
           /\ PD' = [PD EXCEPT ![p].last_state = "SUSPENDED",
                 ![p].state = IF PD[p].last_state = "RUNNING" THEN "READY"
                                                              ELSE PD[p].last_state]
  <2>1. p \in DOMAIN PD /\ PD[p] \in Process /\ PD[p].last_state \in {"READY", "SLEEPING"}
    BY <1>2, ElementOfSeq, LenProperties DEF Inv, Table
  <2>2. /\ DOMAIN PD' = DOMAIN PD
        /\ \A q \in DOMAIN PD : q # p => PD'[q] = PD[q]
        /\ PD'[p] = [PD[p] EXCEPT !.last_state = "SUSPENDED", !.state = PD[p].last_state]
    BY <1>2, <2>1 DEF Process
  <2>3. Resumed(PD[p], PD'[p])
    BY <1>2, <2>1, <2>2 DEF Resumed, Process
  <2> QED BY <1>0, <2>2, <2>3, NothingIsSlumber
<1> QED BY <1>1, <1>2 DEF Task_Resume, Return

\* A dispatch charges what is pending.
LEMMA DispatchCharges ==
    ASSUME NEW pd, NEW list, Table(pd, list), OnlyCurrentRuns(pd),
           NEW last, list = <<>> \/ last \in Listed(list), NEW ticks \in UInts, 2 * ticks <= UINT,
           Kernel_Dispatch_Next_Task(pd, list, last, ticks)
    PROVE  /\ DOMAIN PD' = DOMAIN pd /\ Tick_Count' = 0
           /\ \A q \in DOMAIN pd : ~Asleep(pd[q]) => ~Asleep(PD'[q])
           /\ \A q \in DOMAIN pd : Asleep(pd[q]) /\ Short(pd[q]) => Slept(pd[q], PD'[q], ticks)
<1>1. DOMAIN PD' = DOMAIN pd /\ \A q \in DOMAIN pd : Aged(pd[q], PD'[q])
  BY DispatchAges
<1>2. Tick_Count' = 0
  BY DEF Kernel_Dispatch_Next_Task
<1> QED BY <1>1, <1>2, AgedStaysAwake, DispatchSleeps

\* ... whoever enters the kernel, when nobody falls asleep in the call ...
LEMMA ChargeIsSlumber ==
    ASSUME Inv, SleepersAreShort, NEW n \in Nat, Tick_Count + n \in UInts, 2 * (Tick_Count + n) <= UINT,
           NEW pd, NEW list, Table(pd, list), OnlyCurrentRuns(pd), DOMAIN pd = DOMAIN PD,
           \A p \in DOMAIN PD : pd[p] = PD[p] \/ (~Asleep(PD[p]) /\ ~Asleep(pd[p])),
           NEW last, list = <<>> \/ last \in Listed(list),
           Kernel_Dispatch_Next_Task(pd, list, last, Tick_Count + n)
    PROVE  Slumber(n)
<1>1. /\ DOMAIN PD' = DOMAIN pd /\ Tick_Count' = 0
      /\ \A q \in DOMAIN pd : ~Asleep(pd[q]) => ~Asleep(PD'[q])
      /\ \A q \in DOMAIN pd : Asleep(pd[q]) /\ Short(pd[q]) => Slept(pd[q], PD'[q], Tick_Count + n)
  BY DispatchCharges
<1>2. \A q \in DOMAIN PD : Asleep(PD[q]) => Slept(PD[q], PD'[q], Tick_Count + n)
  BY <1>1 DEF SleepersAreShort
<1> QED BY <1>1, <1>2 DEF Slumber, NobodyFallsAsleep, TicksGetCharged

\* ... by OS_Start, Task_Yield, the end of a time slice or Task_Terminate.
LEMMA StartIsSlumber ==
    ASSUME Inv, SleepersAreShort, 2 * Tick_Count <= UINT, OS_Start
    PROVE  Slumber(0)
<1>1. PICK last \in Listed(ProcessList) :
        Kernel_Dispatch_Next_Task(PD, ProcessList, last, Tick_Count)
  BY StartDispatches
<1>2. Table(PD, ProcessList) /\ OnlyCurrentRuns(PD)
  BY StartDispatches
<1>3. Kernel_Dispatch_Next_Task(PD, ProcessList, last, Tick_Count + 0)
  BY <1>1, TicksAreNat
<1> QED BY <1>1, <1>2, <1>3, TicksAreNat, ChargeIsSlumber

LEMMA YieldIsSlumber ==
    ASSUME Inv, SleepersAreShort, 2 * Tick_Count <= UINT, Task_Yield
    PROVE  Slumber(0)
<1>1. Running /\ Kernel_Dispatch_Next_Task(PD, ProcessList, Last_Dispatched, Tick_Count + 0)
  BY TicksAreNat DEF Task_Yield, Switch
<1>2. Table(PD, ProcessList) /\ OnlyCurrentRuns(PD) /\ Last_Dispatched \in Listed(ProcessList)
  BY <1>1, CallFacts
<1> QED BY <1>1, <1>2, TicksAreNat, ChargeIsSlumber

LEMMA PreemptIsSlumber ==
    ASSUME Inv, SleepersAreShort, 2 * (Tick_Count + 1) <= UINT, Preempt
    PROVE  Slumber(1)
<1>1. Running
  BY DEF Preempt, Running
<1>2. Tick_Count + 1 \in UInts /\ (Tick_Count + 1) % UINT = Tick_Count + 1
  BY TicksAreNat, ConfigAssumption DEF UInts
<1>3. Kernel_Dispatch_Next_Task(PD, ProcessList, Last_Dispatched, Tick_Count + 1)
  BY <1>2 DEF Preempt
<1>4. Table(PD, ProcessList) /\ OnlyCurrentRuns(PD) /\ Last_Dispatched \in Listed(ProcessList)
  BY <1>1, CallFacts
<1> QED BY <1>2, <1>3, <1>4, ChargeIsSlumber

LEMMA TerminateIsSlumber ==
    ASSUME Inv, SleepersAreShort, CurrentIsRunning, 2 * Tick_Count <= UINT, Task_Terminate
    PROVE  Slumber(0)
<1>1. Running
  BY DEF Task_Terminate
<1>2. PICK i \in DOMAIN ProcessList :
        /\ ProcessList[i] = Current_Process
        /\ Kernel_Dispatch_Next_Task([PD EXCEPT ![Current_Process].state = "DEAD"],
               RemoveAt(ProcessList, i), LeftBehind(ProcessList, i), Tick_Count)
  BY DEF Task_Terminate
<1> DEFINE c    == Current_Process
           f    == [PD EXCEPT ![c].state = "DEAD"]
           rest == RemoveAt(ProcessList, i)
           last == LeftBehind(ProcessList, i)
<1>3. Kernel_Dispatch_Next_Task(f, rest, last, Tick_Count + 0)
  BY <1>2, TicksAreNat
<1>4. /\ Table(f, rest) /\ OnlyCurrentRuns(f) /\ DOMAIN f = DOMAIN PD
      /\ f[c] = [PD[c] EXCEPT !.state = "DEAD"]
      /\ \A p \in DOMAIN PD : p # c => f[p] = PD[p]
      /\ rest = <<>> \/ last \in Listed(rest)
  BY <1>1, <1>2, LeavingKeepsTable
<1> HIDE DEF f, rest, last
<1>5. c \in DOMAIN PD /\ PD[c] \in Process /\ PD[c].state = "RUNNING"
  BY <1>1, CallFacts, ElementOfSeq DEF Table, CurrentIsRunning, Running
<1>6. ~Asleep(PD[c]) /\ ~Asleep(f[c])
  BY <1>4, <1>5 DEF Asleep, Process
<1> QED BY <1>3, <1>4, <1>6, TicksAreNat, ChargeIsSlumber

\* The idle loop charges without a dispatch, and dispatches without a charge.
LEMMA IdlePollIsSlumber ==
    ASSUME Inv, SleepersAreShort, 2 * Tick_Count <= UINT, IdlePoll
    PROVE  Slumber(0)
<1>1. Table(PD, ProcessList) /\ Tick_Count \in UInts /\ Tick_Count \in Nat /\ Tick_Count + 0 = Tick_Count
  BY TicksAreNat DEF Inv
<1>2. PD' = Kernel_Tick_Handler(PD, ProcessList, Tick_Count) /\ Tick_Count' = 0
  BY DEF IdlePoll
<1>3. DOMAIN PD' = DOMAIN PD /\ \A p \in DOMAIN PD : Aged(PD[p], PD'[p])
  BY <1>1, <1>2, TickHandlerAges
<1>4. \A p \in DOMAIN PD : Asleep(PD[p]) => Slept(PD[p], PD'[p], Tick_Count)
  BY <1>1, <1>2, TickHandlerSleeps DEF SleepersAreShort
<1> QED BY <1>1, <1>2, <1>3, <1>4, AgedStaysAwake DEF Slumber, NobodyFallsAsleep, TicksGetCharged

LEMMA IdleDispatchIsSlumber ==
    ASSUME Inv, IdleDispatch
    PROVE  Slumber(0)
<1> DEFINE next == Kernel_Select_Next_Task(PD, ProcessList, Last_Dispatched)
<1>0. Tick_Count' = Tick_Count + 0
  BY TicksAreNat DEF IdleDispatch
<1>1. CASE PD' = PD
  BY <1>0, <1>1, UnchangedIsSlumber
<1>2. CASE \E p \in next : Run(PD, p)
  <2>1. PICK p \in next : Run(PD, p)
    BY <1>2
  <2>2. Table(PD, ProcessList) /\ Last_Dispatched \in Listed(ProcessList)
    BY DEF IdleDispatch, Inv, ScanStart
  <2>3. p \in Listed(ProcessList) /\ PD[p].state = "READY"
    <3> ProcessList \in Seq(DOMAIN PD)
      BY <2>2 DEF Table
    <3> QED BY <2>1, <2>2, SelectedIsReady
  <2>4. p \in DOMAIN PD /\ PD[p] \in Process
    BY <2>2, <2>3, ElementOfSeq, LenProperties DEF Table
  <2>5. /\ DOMAIN PD' = DOMAIN PD /\ PD'[p].state = "RUNNING"
        /\ \A q \in DOMAIN PD : q # p => PD'[q] = PD[q]
    BY <2>1, <2>4 DEF Run, Process
  <2>6. ~Asleep(PD[p]) /\ ~Asleep(PD'[p])
    BY <2>3, <2>5 DEF Asleep
  <2> QED BY <1>0, <2>5, <2>6 DEF Slumber, NobodyFallsAsleep, TicksStayPending
<1> QED BY <1>1, <1>2 DEF IdleDispatch

\* A tick that is only counted.
LEMMA TickOnlyIsSlumber ==
    ASSUME Inv, 2 * (Tick_Count + 1) <= UINT, TickOnly
    PROVE  Slumber(1)
<1>1. Tick_Count' = Tick_Count + 1
  BY TicksAreNat, ConfigAssumption DEF TickOnly, UInts
<1>2. PD' = PD
  BY DEF TickOnly
<1> QED BY <1>1, <1>2, UnchangedIsSlumber

\* The caller of Task_Sleep joins the sleepers, and is charged with the ticks that
\* were pending when it called.
LEMMA SleepCharges ==
    ASSUME Inv, SleepersAreShort, CurrentIsRunning, 2 * Tick_Count <= UINT,
           NEW t \in SleepTicks, t > 0 /\ 2 * t < UINT, Task_Sleep(t)
    PROVE  LET c == Current_Process
           IN /\ DOMAIN PD' = DOMAIN PD /\ c \in DOMAIN PD /\ ~Asleep(PD[c]) /\ Tick_Count' = 0
              /\ \E q : /\ q.request_timeout = t
                        /\ Slept(q, PD'[c], Tick_Count)
              /\ \A p \in DOMAIN PD \ {c} :
                    /\ Asleep(PD[p]) => Slept(PD[p], PD'[p], Tick_Count)
                    /\ ~Asleep(PD[p]) => ~Asleep(PD'[p])
<1> DEFINE c == Current_Process
           q == [PD[c] EXCEPT !.request_timeout = t, !.state = "SLEEPING"]
           f == [PD EXCEPT ![c] = q]
<1>1. Running /\ UNCHANGED ProcessList
  BY DEF Task_Sleep
<1>2. c \in DOMAIN PD /\ PD[c] \in Process /\ PD[c].state = "RUNNING"
  BY <1>1, CallFacts, ElementOfSeq DEF Table, CurrentIsRunning, Running
<1>3. q \in Process /\ q.state = "SLEEPING" /\ q.request_timeout = t
  <2>1. t \in UInts
    BY EnvironmentAssumption DEF UInts
  <2> QED BY <1>2, <2>1 DEF Process, States
<1>4. Switch("NO_ERR", f)
  BY <1>2 DEF Task_Sleep, Process
<1>t. t \in Nat
  BY EnvironmentAssumption
<1> HIDE DEF q
<1>5. Table(f, ProcessList) /\ DOMAIN f = DOMAIN PD
  BY <1>1, <1>2, <1>3, CallFacts, UpdateKeepsTable
<1>6. \A r \in DOMAIN PD : f[r] = IF r = c THEN q ELSE PD[r]
  OBVIOUS
<1> HIDE DEF f
<1>7. OnlyCurrentRuns(f)
  BY <1>5, <1>6, <1>3 DEF Inv, OnlyCurrentRuns
<1>8. Kernel_Dispatch_Next_Task(f, ProcessList, Last_Dispatched, Tick_Count)
  BY <1>4 DEF Switch
<1>9. Last_Dispatched \in Listed(ProcessList) /\ Tick_Count \in UInts
  BY <1>1, CallFacts
<1>10. /\ DOMAIN PD' = DOMAIN f /\ Tick_Count' = 0
       /\ \A r \in DOMAIN f : ~Asleep(f[r]) => ~Asleep(PD'[r])
       /\ \A r \in DOMAIN f : Asleep(f[r]) /\ Short(f[r]) => Slept(f[r], PD'[r], Tick_Count)
  BY <1>5, <1>7, <1>8, <1>9, DispatchCharges
<1>11. Asleep(f[c]) /\ Short(f[c]) /\ f[c] = q
  BY <1>2, <1>3, <1>6, <1>t DEF Asleep, Short
<1>12. Slept(q, PD'[c], Tick_Count)
  BY <1>2, <1>5, <1>10, <1>11
<1>13. \A p \in DOMAIN PD \ {c} : /\ Asleep(PD[p]) => Slept(PD[p], PD'[p], Tick_Count)
                                  /\ ~Asleep(PD[p]) => ~Asleep(PD'[p])
  BY <1>5, <1>6, <1>10 DEF SleepersAreShort
<1>14. ~Asleep(PD[c])
  BY <1>2 DEF Asleep
<1> QED BY <1>2, <1>3, <1>5, <1>10, <1>12, <1>13, <1>14

-----------------------------------------------------------------------------
(* The observer's clock.  What a sleeper's timer says and what is pending,   *)
(* together, are behind the clock by no more than a batch: by the ticks that *)
(* were pending when it went to sleep.                                       *)

Punctual(a, clock, ticks) ==
    IF Asleep(a) THEN Short(a) /\ clock + ticks - a.request_timeout \in 0..Batch
                 ELSE clock \in (-Batch)..Batch

OnTime(p) == IF p \in DOMAIN PD THEN Punctual(PD[p], left[p], Tick_Count) ELSE left[p] = 0

ClockInv ==
    /\ left \in [1..MaxPid -> Int]
    /\ Tick_Count <= Batch
    /\ \A p \in 1..MaxPid : OnTime(p)

\* The constants for which no timer wraps: a batch of ticks and every sleep stay
\* below half of what the counter can hold.
ShortSleeps ==
    /\ \A t \in SleepTicks : t > 0 /\ 2 * t < UINT
    /\ 2 * (Batch + 1) <= UINT

\* A batch is a number, and no smaller than the lag of the idle loop.
LEMMA BatchIsNat == Batch \in Nat /\ IdleLag <= Batch
  BY ConfigAssumption, EnvironmentAssumption DEF Batch

\* The clock shows a time for everybody.
LEMMA SleepersAreProcesses ==
    ASSUME Inv, ClockInv
    PROVE  SleepersAreShort /\ DOMAIN PD \subseteq 1..MaxPid
<1>1. Len(PD) \in Nat /\ DOMAIN PD = 1..Len(PD) /\ Len(PD) <= MaxPid
  BY LenProperties DEF Inv, Table, VarTypes
<1>2. DOMAIN PD \subseteq 1..MaxPid
  BY <1>1, EnvironmentAssumption
<1> QED BY <1>2 DEF ClockInv, OnTime, Punctual, SleepersAreShort

\* A charge keeps a sleeper on time, whether it ends its sleep or not.
LEMMA SleptIsOnTime ==
    ASSUME NEW a, NEW b, Short(a), NEW ticks \in Nat, ticks <= Batch + 1, Slept(a, b, ticks),
           NEW clock \in Int, clock + ticks - a.request_timeout \in 0..Batch
    PROVE  Punctual(b, clock, 0)
<1> DEFINE r == a.request_timeout
<1>1. r \in Nat /\ r > 0 /\ 2 * r < UINT /\ UINT \in Nat /\ Batch \in Nat
  BY ConfigAssumption, BatchIsNat DEF Short
<1>2. CASE r > ticks
  <2>1. Asleep(b) /\ b.request_timeout = r - ticks
    BY <1>2 DEF Slept
  <2> QED BY <1>1, <1>2, <2>1 DEF Short, Punctual
<1>3. CASE ~(r > ticks)
  <2>1. ~Asleep(b)
    BY <1>3 DEF Slept
  <2>2. clock \in (-Batch)..Batch
    BY <1>1, <1>3
  <2> QED BY <2>1, <2>2 DEF Punctual
<1> QED BY <1>2, <1>3

\* The pending ticks stay within a batch.
LEMMA TicksWithinABatch ==
    ASSUME PREEMPTIVE_CSWITCH, ShortSleeps, Inv, Tick_Count <= Batch, [Next]_vars
    PROVE  Tick_Count' <= Batch
<1> USE BatchIsNat
<1>0. Tick_Count \in Nat
  BY TicksAreNat
<1>1. CASE TickOnly
  <2>1. Inv'
    BY NextKeepsInv
  <2>2. /\ mode' \in {"task", "idle"} /\ Ticks_Since_Last_Cswitch' \in Nat /\ Tick_Count' \in Nat
    BY <1>1, <2>1, ConfigAssumption DEF TickOnly, Inv, VarTypes, UInts
  <2>3. TicksAreCharged'
    BY <2>1 DEF Inv
  <2>4. \/ Tick_Count' <= IdleLag
        \/ /\ Ticks_Since_Last_Cswitch' < PREEMPTIVE_CSWITCH_FREQ
           /\ Tick_Count' <= Ticks_Since_Last_Cswitch' + IdleLag
    BY <2>2, <2>3 DEF TicksAreCharged
  <2>5. PREEMPTIVE_CSWITCH_FREQ \in Nat /\ PREEMPTIVE_CSWITCH_FREQ > 0 /\ IdleLag \in Nat
    BY ConfigAssumption, EnvironmentAssumption
  <2>6. ASSUME NEW slice \in Nat, NEW ticks \in Nat, slice < PREEMPTIVE_CSWITCH_FREQ,
               ticks <= slice + IdleLag
        PROVE  ticks <= PREEMPTIVE_CSWITCH_FREQ - 1 + IdleLag
    BY <2>5, <2>6
  <2>7. CASE Tick_Count' <= IdleLag
    BY <2>2, <2>5, <2>7 DEF Batch
  <2> QED BY <2>2, <2>4, <2>6, <2>7 DEF Batch
<1>2. CASE ~TickOnly
  <2>1. Tick_Count' \in {0, Tick_Count}
    <3>1. CASE CreateAtBoot \/ Task_Create \/ CallTooEarly \/ UNCHANGED vars
      BY <3>1 DEF CreateAtBoot, Task_Create, CallTooEarly, Kernel_Create_Task_Direct, Return,
                  WriteThroughNull, vars, sched
    <3>2. CASE \E p \in 0..MaxPid : Task_Suspend(p) \/ Task_Resume(p)
      BY <3>2 DEF Task_Suspend, Task_Resume, Return, sched
    <3>3. CASE \/ OS_Start \/ (\E t \in SleepTicks : Task_Sleep(t)) \/ Task_Yield
               \/ Task_Terminate \/ Preempt
      BY <3>3 DEF OS_Start, Task_Sleep, Task_Yield, Task_Terminate, Preempt, Switch,
                  Kernel_Dispatch_Next_Task
    <3>4. CASE IdlePoll \/ IdleDispatch
      BY <3>4 DEF IdlePoll, IdleDispatch
    <3> QED BY <1>2, <3>1, <3>2, <3>3, <3>4 DEF Next, SysCall, Kernel_Tick_ISR
  <2> QED BY <2>1
<1> QED BY <1>1, <1>2

\* A step that is no call of Task_Sleep, when the clock goes on by its ticks.
LEMMA SlumberKeepsTime ==
    ASSUME Inv, ClockInv, NEW n \in {0, 1}, Slumber(n), Elapse(n)
    PROVE  left' \in [1..MaxPid -> Int] /\ \A p \in 1..MaxPid : OnTime(p)'
<1>0. Tick_Count \in Nat /\ Batch \in Nat /\ Tick_Count <= Batch
  BY TicksAreNat, BatchIsNat DEF ClockInv
<1>1. left' \in [1..MaxPid -> Int]
  BY DEF Elapse, ClockInv
<1>2. ASSUME NEW p \in 1..MaxPid
      PROVE  IF p \in DOMAIN PD' THEN Punctual(PD'[p], left'[p], Tick_Count') ELSE left'[p] = 0
  <2>1. left'[p] = IF p \in DOMAIN PD /\ Asleep(PD[p]) THEN left[p] - n ELSE 0
    BY SleepingIsAsleep DEF Elapse
  <2>2. CASE p \in DOMAIN PD /\ Asleep(PD[p])
    <3>1. /\ Short(PD[p]) /\ left[p] \in Int
          /\ left[p] + Tick_Count - PD[p].request_timeout \in 0..Batch
      BY <2>2 DEF ClockInv, OnTime, Punctual
    <3>2. p \in DOMAIN PD' /\ left'[p] = left[p] - n
      BY <2>1, <2>2 DEF Slumber
    <3>3. CASE TicksStayPending(n)
      <4>1. /\ Tick_Count' = Tick_Count + n /\ Asleep(PD'[p])
            /\ PD'[p].request_timeout = PD[p].request_timeout
        BY <2>2, <3>3 DEF TicksStayPending
      <4>2. Short(PD'[p]) /\ left'[p] + Tick_Count' - PD'[p].request_timeout \in 0..Batch
        <5>1. Short(PD'[p])
          BY <3>1, <4>1 DEF Short
        <5>2. left'[p] + Tick_Count' - PD'[p].request_timeout =
                left[p] + Tick_Count - PD[p].request_timeout
          BY <1>0, <3>1, <3>2, <4>1 DEF Short
        <5> QED BY <3>1, <5>1, <5>2
      <4> QED BY <3>2, <4>1, <4>2 DEF Punctual
    <3>4. CASE TicksGetCharged(n)
      <4>1. Tick_Count' = 0 /\ Slept(PD[p], PD'[p], Tick_Count + n)
        BY <2>2, <3>4 DEF TicksGetCharged
      <4>2. /\ left'[p] \in Int /\ Tick_Count + n \in Nat /\ Tick_Count + n <= Batch + 1
            /\ left'[p] + (Tick_Count + n) = left[p] + Tick_Count
        BY <1>0, <3>1, <3>2
      <4>3. left'[p] + (Tick_Count + n) - PD[p].request_timeout \in 0..Batch
        BY <1>0, <3>1, <4>2 DEF Short
      <4>4. Punctual(PD'[p], left'[p], 0)
        BY <3>1, <4>1, <4>2, <4>3, SleptIsOnTime
      <4> QED BY <3>2, <4>1, <4>4
    <3> QED BY <3>3, <3>4 DEF Slumber
  <2>3. CASE ~(p \in DOMAIN PD /\ Asleep(PD[p]))
    <3>1. ~(p \in DOMAIN PD' /\ Asleep(PD'[p])) /\ left'[p] = 0
      BY <2>1, <2>3 DEF Slumber, NobodyFallsAsleep
    <3> QED BY <1>0, <3>1 DEF Punctual
  <2> QED BY <2>2, <2>3
<1>3. \A p \in 1..MaxPid : OnTime(p)'
  BY <1>2 DEF OnTime, Punctual, Asleep, Short, Batch
<1> QED BY <1>1, <1>3

\* A call of Task_Sleep sets the clock of the caller.
LEMMA SleepKeepsTime ==
    ASSUME Inv, ClockInv, CurrentIsRunning, ShortSleeps, NEW t \in SleepTicks, Task_Sleep(t),
           left' = [p \in 1..MaxPid |->
                       IF p = Current_Process THEN t
                       ELSE IF p \in DOMAIN PD /\ Sleeping(p) THEN left[p] ELSE 0]
    PROVE  left' \in [1..MaxPid -> Int] /\ \A p \in 1..MaxPid : OnTime(p)'
<1> DEFINE c == Current_Process
<1>0. /\ Tick_Count \in Nat /\ Batch \in Nat /\ Tick_Count <= Batch /\ Tick_Count <= Batch + 1
      /\ 2 * Tick_Count <= UINT /\ t \in Int /\ t \in Nat /\ t > 0 /\ 2 * t < UINT
  BY TicksAreNat, BatchIsNat, ConfigAssumption, EnvironmentAssumption DEF ClockInv, ShortSleeps
<1>1. left' \in [1..MaxPid -> Int]
  BY <1>0 DEF ClockInv
<1>2. /\ DOMAIN PD' = DOMAIN PD /\ c \in DOMAIN PD /\ ~Asleep(PD[c]) /\ Tick_Count' = 0
      /\ \E q : q.request_timeout = t /\ Slept(q, PD'[c], Tick_Count)
      /\ \A p \in DOMAIN PD \ {c} : /\ Asleep(PD[p]) => Slept(PD[p], PD'[p], Tick_Count)
                                    /\ ~Asleep(PD[p]) => ~Asleep(PD'[p])
  BY <1>0, SleepersAreProcesses, SleepCharges
<1>3. ASSUME NEW p \in 1..MaxPid
      PROVE  IF p \in DOMAIN PD' THEN Punctual(PD'[p], left'[p], Tick_Count') ELSE left'[p] = 0
  <2>1. CASE p = c
    <3>1. PICK q : q.request_timeout = t /\ Slept(q, PD'[c], Tick_Count)
      BY <1>2
    <3>2. Short(q) /\ t + Tick_Count - q.request_timeout \in 0..Batch
      BY <1>0, <3>1 DEF Short
    <3>3. Punctual(PD'[c], t, 0)
      BY <1>0, <3>1, <3>2, SleptIsOnTime
    <3>4. left'[p] = t
      BY <2>1
    <3> QED BY <1>2, <2>1, <3>3, <3>4
  <2>2. CASE p # c /\ p \in DOMAIN PD /\ Asleep(PD[p])
    <3>1. /\ Short(PD[p]) /\ left[p] \in Int
          /\ left[p] + Tick_Count - PD[p].request_timeout \in 0..Batch
      BY <2>2 DEF ClockInv, OnTime, Punctual
    <3>2. left'[p] = left[p]
      BY <2>2, SleepingIsAsleep
    <3>3. Slept(PD[p], PD'[p], Tick_Count)
      BY <1>2, <2>2
    <3>4. Punctual(PD'[p], left[p], 0)
      BY <1>0, <3>1, <3>3, SleptIsOnTime
    <3> QED BY <1>2, <2>2, <3>2, <3>4
  <2>3. CASE p # c /\ ~(p \in DOMAIN PD /\ Asleep(PD[p]))
    <3>1. left'[p] = 0 /\ ~(p \in DOMAIN PD' /\ Asleep(PD'[p]))
      BY <1>2, <2>3, SleepingIsAsleep
    <3> QED BY <1>0, <3>1 DEF Punctual
  <2> QED BY <2>1, <2>2, <2>3
<1>4. \A p \in 1..MaxPid : OnTime(p)'
  BY <1>3 DEF OnTime, Punctual, Asleep, Short, Batch
<1> QED BY <1>1, <1>4

-----------------------------------------------------------------------------
(* The theorem.                                                            *)

\* Nobody sleeps at first ...
LEMMA ClockInitiallyRight == ClockInit => ClockInv
<1> SUFFICES ASSUME ClockInit PROVE ClockInv
  OBVIOUS
<1>1. PD = <<>> /\ Tick_Count = 0 /\ left = [p \in 1..MaxPid |-> 0]
  BY DEF ClockInit, Init
<1> QED BY <1>1, BatchIsNat DEF ClockInv, OnTime

\* ... a step of the clock is a call of Task_Sleep or a slumber ...
SetsClock(t) ==
    left' = [p \in 1..MaxPid |->
                IF p = Current_Process THEN t
                ELSE IF p \in DOMAIN PD /\ Sleeping(p) THEN left[p] ELSE 0]

LEMMA ClockStepIsSlumber ==
    ASSUME PREEMPTIVE_CSWITCH, ~SelfSuspend, ShortSleeps, Inv, ClockInv, ClockNext
    PROVE  \/ \E t \in SleepTicks : Task_Sleep(t) /\ SetsClock(t)
           \/ \E n \in {0, 1} : Slumber(n) /\ Elapse(n)
<1>1. CurrentIsRunning
  BY DEF Inv, CallerRuns
<1>2. /\ SleepersAreShort /\ 2 * Tick_Count <= UINT /\ 2 * (Tick_Count + 1) <= UINT
  BY SleepersAreProcesses, TicksAreNat, BatchIsNat, ConfigAssumption DEF ClockInv, ShortSleeps
<1>3. CASE Kernel_Tick_ISR /\ Elapse(1)
  <2>1. Slumber(1)
    BY <1>2, <1>3, TickOnlyIsSlumber, PreemptIsSlumber DEF Kernel_Tick_ISR
  <2> QED BY <1>3, <2>1
<1>4. ASSUME \/ CreateAtBoot \/ CallTooEarly \/ OS_Start \/ Task_Create \/ Task_Yield \/ Task_Terminate
             \/ \E p \in 0..MaxPid : Task_Suspend(p) \/ Task_Resume(p)
             \/ IdlePoll \/ IdleDispatch
      PROVE  Slumber(0)
  <2>1. CASE CreateAtBoot \/ Task_Create
    BY <2>1, CreateIsSlumber DEF CreateAtBoot, Task_Create
  <2>2. CASE CallTooEarly
    <3>1. PD' = PD /\ Tick_Count' = Tick_Count + 0
      BY <2>2, TicksAreNat DEF CallTooEarly, Return, sched
    <3> QED BY <3>1, UnchangedIsSlumber
  <2>3. CASE OS_Start \/ Task_Yield \/ Task_Terminate
    BY <1>1, <1>2, <2>3, StartIsSlumber, YieldIsSlumber, TerminateIsSlumber
  <2>4. CASE \E p \in 0..MaxPid : Task_Suspend(p) \/ Task_Resume(p)
    BY <2>4, EnvironmentAssumption, SuspendIsSlumber, ResumeIsSlumber
  <2>5. CASE IdlePoll \/ IdleDispatch
    BY <1>2, <2>5, IdlePollIsSlumber, IdleDispatchIsSlumber
  <2> QED BY <1>4, <2>1, <2>2, <2>3, <2>4, <2>5
<1> QED BY <1>3, <1>4 DEF ClockNext, SetsClock

\* ... and every step keeps the clock right.
LEMMA ClockKeepsTime ==
    ASSUME PREEMPTIVE_CSWITCH, ~SelfSuspend, ShortSleeps
    PROVE  Inv /\ ClockInv /\ [ClockNext]_clockVars => Inv' /\ ClockInv' /\ [Next]_vars
<1> SUFFICES ASSUME Inv, ClockInv, [ClockNext]_clockVars PROVE Inv' /\ ClockInv' /\ [Next]_vars
  OBVIOUS
<1>1. [Next]_vars
  BY DEF ClockNext, Next, SysCall, clockVars
<1>2. Inv'
  BY <1>1, NextKeepsInv
<1>3. Tick_Count' <= Batch
  BY <1>1, TicksWithinABatch DEF ClockInv
<1>4. CurrentIsRunning
  BY DEF Inv, CallerRuns
<1>5. left' \in [1..MaxPid -> Int] /\ \A p \in 1..MaxPid : OnTime(p)'
  <2>1. ASSUME NEW t \in SleepTicks, Task_Sleep(t), SetsClock(t)
        PROVE  left' \in [1..MaxPid -> Int] /\ \A p \in 1..MaxPid : OnTime(p)'
    BY <1>4, <2>1, SleepKeepsTime DEF SetsClock
  <2>2. ASSUME NEW n \in {0, 1}, Slumber(n), Elapse(n)
        PROVE  left' \in [1..MaxPid -> Int] /\ \A p \in 1..MaxPid : OnTime(p)'
    BY <2>2, SlumberKeepsTime
  <2>3. CASE UNCHANGED clockVars
    BY <2>3 DEF clockVars, vars, sched, ClockInv, OnTime, Punctual, Asleep, Short, Batch
  <2>4. CASE ClockNext
    BY <2>1, <2>2, <2>4, ClockStepIsSlumber
  <2> QED BY <2>3, <2>4
<1>6. ClockInv'
  BY <1>3, <1>5 DEF ClockInv, Batch
<1> QED BY <1>1, <1>2, <1>6

\* Task_Sleep: when timers do not wrap, a sleep, suspended in the meantime or not, is
\* over at most a batch of ticks before its time and at most a batch after it.  The
\* error of Kernel_Tick_Handler does not grow with the length of the sleep, with
\* the charges and dispatches in between, or with the other sleepers.
THEOREM SleepsAreOnTime ==
    ASSUME PREEMPTIVE_CSWITCH, ~SelfSuspend, ShortSleeps
    PROVE  ClockSpec => []SleepWithinABatch
<1>1. ClockInit => Inv /\ ClockInv
  BY InitEstablishesInv, ClockInitiallyRight DEF ClockInit
<1>2. Inv /\ ClockInv /\ [ClockNext]_clockVars => Inv' /\ ClockInv'
  BY ClockKeepsTime
<1>3. Inv /\ ClockInv => SleepWithinABatch
  <2> SUFFICES ASSUME Inv, ClockInv, NEW p \in 1..MaxPid
               PROVE  (Awake(p) => left[p] <= Batch) /\ left[p] >= -Batch
    BY DEF SleepWithinABatch
  <2>1. Tick_Count \in Nat /\ Batch \in Nat /\ Tick_Count <= Batch /\ left[p] \in Int /\ OnTime(p)
    BY TicksAreNat, BatchIsNat DEF ClockInv
  <2>2. CASE p \in DOMAIN PD /\ Asleep(PD[p])
    <3>1. ~Awake(p)
      BY <2>2, SleepingIsAsleep DEF Awake
    <3>2. left[p] >= -Batch
      BY <2>1, <2>2 DEF OnTime, Punctual, Short
    <3> QED BY <3>1, <3>2
  <2>3. CASE ~(p \in DOMAIN PD /\ Asleep(PD[p]))
    BY <2>1, <2>3 DEF OnTime, Punctual
  <2> QED BY <2>2, <2>3
<1> QED BY <1>1, <1>2, <1>3, PTL DEF ClockSpec

-----------------------------------------------------------------------------
(* No tick is lost or counted twice.                                       *)

\* A slumber charges what it says.
LEMMA SlumberCharges ==
    ASSUME Inv, ClockInv, NEW n \in {0, 1}, Slumber(n), Elapse(n),
           NEW p \in DOMAIN PD, Sleeping(p)
    PROVE  ChargedOnce(p)
<1>1. Asleep(PD[p]) /\ (Sleeping(p)' <=> Asleep(PD'[p]))
  BY DEF Sleeping, Asleep
<1>2. PD[p].request_timeout \in Nat /\ Tick_Count \in Nat
  BY <1>1, SleepersAreProcesses, TicksAreNat DEF SleepersAreShort, Short
<1>3. Tick_Count + (left[p] - left'[p]) = Tick_Count + n
  <2>1. p \in 1..MaxPid /\ left[p] \in Int /\ left'[p] = left[p] - n
    BY SleepersAreProcesses DEF ClockInv, Elapse
  <2> QED BY <1>2, <2>1
<1>4. CASE TicksStayPending(n)
  <2>1. /\ Tick_Count' = Tick_Count + n /\ Asleep(PD'[p])
        /\ PD'[p].request_timeout = PD[p].request_timeout
    BY <1>1, <1>4 DEF TicksStayPending
  <2> QED BY <1>1, <1>3, <2>1 DEF ChargedOnce
<1>5. CASE TicksGetCharged(n)
  <2>1. Tick_Count' = 0 /\ Slept(PD[p], PD'[p], Tick_Count + n)
    BY <1>1, <1>5 DEF TicksGetCharged
  <2> QED BY <1>1, <1>2, <1>3, <2>1 DEF ChargedOnce, Slept
<1> QED BY <1>4, <1>5 DEF Slumber

\* A call of Task_Sleep charges the others what is pending.
LEMMA SleepChargesOthers ==
    ASSUME Inv, ClockInv, CurrentIsRunning, ShortSleeps, NEW t \in SleepTicks, Task_Sleep(t),
           SetsClock(t), NEW p \in DOMAIN PD, Sleeping(p)
    PROVE  ChargedOnce(p)
<1> DEFINE c == Current_Process
<1>0. /\ Tick_Count \in Nat /\ 2 * Tick_Count <= UINT /\ t > 0 /\ 2 * t < UINT
  BY TicksAreNat, BatchIsNat, ConfigAssumption, EnvironmentAssumption DEF ClockInv, ShortSleeps
<1>1. Asleep(PD[p]) /\ (Sleeping(p)' <=> Asleep(PD'[p]))
  BY DEF Sleeping, Asleep
<1>2. /\ ~Asleep(PD[c]) /\ Tick_Count' = 0
      /\ \A q \in DOMAIN PD \ {c} : Asleep(PD[q]) => Slept(PD[q], PD'[q], Tick_Count)
  BY <1>0, SleepersAreProcesses, SleepCharges
<1>3. Slept(PD[p], PD'[p], Tick_Count)
  BY <1>1, <1>2
<1>4. PD[p].request_timeout \in Nat
  BY <1>1, SleepersAreProcesses DEF SleepersAreShort, Short
<1>5. Tick_Count + (left[p] - left'[p]) = Tick_Count
  <2>1. p \in 1..MaxPid /\ left[p] \in Int /\ left'[p] = left[p]
    BY <1>1, <1>2, SleepersAreProcesses DEF ClockInv, SetsClock
  <2> QED BY <1>0, <2>1
<1> QED BY <1>0, <1>1, <1>2, <1>3, <1>4, <1>5 DEF ChargedOnce, Slept

\* Kernel_Tick_Handler: when timers do not wrap, no tick is lost to a sleeper and none is
\* taken off its sleep twice, by whatever mixture of calls, ends of time slices and
\* rounds of the idle loop the ticks are charged, however many sleep or are suspended.
THEOREM NoTickIsLost ==
    ASSUME PREEMPTIVE_CSWITCH, ~SelfSuspend, ShortSleeps
    PROVE  ClockSpec => TicksChargedOnce
<1>1. ClockInit => Inv /\ ClockInv
  BY InitEstablishesInv, ClockInitiallyRight DEF ClockInit
<1>2. Inv /\ ClockInv /\ [ClockNext]_clockVars => Inv' /\ ClockInv'
  BY ClockKeepsTime
<1>3. Inv /\ ClockInv /\ [ClockNext]_clockVars
        => [\A p \in DOMAIN PD : Sleeping(p) => ChargedOnce(p)]_clockVars
  <2> SUFFICES ASSUME Inv, ClockInv, ClockNext, NEW p \in DOMAIN PD, Sleeping(p)
               PROVE  ChargedOnce(p)
    OBVIOUS
  <2>1. CurrentIsRunning
    BY DEF Inv, CallerRuns
  <2> QED BY <2>1, ClockStepIsSlumber, SlumberCharges, SleepChargesOthers
<1> QED BY <1>1, <1>2, <1>3, PTL DEF ClockSpec, TicksChargedOnce

=============================================================================
