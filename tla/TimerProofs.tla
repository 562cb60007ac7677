----------------------------- MODULE TimerProofs -----------------------------
(***************************************************************************)
(* What a step of the scheduler can do to a process that takes no part in  *)
(* it, and what follows for sleeping and suspended processes, for every    *)
(* value of the constants.                                                 *)
(***************************************************************************)
EXTENDS KernelProofs

-----------------------------------------------------------------------------
(* Ageing: what the demotion of the caller, the charge of pending ticks and *)
(* the selection of the next task make of a descriptor.                     *)

Active == {"READY", "RUNNING"}

\* b is what becomes of a: it goes on as it was, it takes its turn among the
\* active, or its timer runs out.
Aged(a, b) ==
    /\ b.pri = a.pri
    /\ \/ /\ b.state = a.state /\ b.last_state = a.last_state
          /\ (b.request_timeout = 0) <=> (a.request_timeout = 0)
       \/ /\ a.state \in Active /\ b.state \in Active
          /\ a.request_timeout = 0 => b.request_timeout = 0
       \/ /\ a.request_timeout # 0 /\ b.request_timeout = 0
          /\ a.state # "DEAD"
          /\ \/ a.state = "SUSPENDED" /\ b.state = "SUSPENDED" /\ b.last_state = "READY"
             \/ a.state # "SUSPENDED" /\ b.state \in Active

\* A descriptor that nothing happens to ages.
LEMMA AgedReflexive == ASSUME NEW a PROVE Aged(a, a)
  BY DEF Aged

\* Several steps of ageing are one.
LEMMA AgedTransitive ==
    ASSUME NEW a, NEW b, NEW c, Aged(a, b), Aged(b, c)
    PROVE  Aged(a, c)
  BY DEF Aged, Active

\* The body of the loop of Kernel_Tick_Handler ages a process that is alive.
LEMMA ChargeTicksAges ==
    ASSUME NEW p \in Process, p.state # "DEAD", NEW ticks \in UInts
    PROVE  Aged(p, ChargeTicks(p, ticks))
<1> DEFINE starved == IF PREVENT_STARVATION /\ p.state = "READY"
                      THEN (p.starvation_ticks + ticks) % UINT
                      ELSE p.starvation_ticks
           left    == IF p.request_timeout = 0 THEN 0 ELSE TimeLeft(p, ticks)
           charged == [p EXCEPT !.starvation_ticks = starved, !.request_timeout = left]
<1>1. ChargeTicks(p, ticks) =
        IF p.request_timeout # 0 /\ left = 0 THEN Expired(charged) ELSE charged
  BY DEF ChargeTicks
<1>2. p.request_timeout = 0 => left = 0
  OBVIOUS
<1> HIDE DEF starved, left
<1>3. /\ charged.state = p.state /\ charged.last_state = p.last_state
      /\ charged.pri = p.pri /\ charged.request_timeout = left
  BY DEF Process
<1>4. \/ /\ p.state = "SUSPENDED"
         /\ Expired(charged) = [charged EXCEPT !.last_state = "READY"]
      \/ /\ p.state # "SUSPENDED"
         /\ Expired(charged) = [charged EXCEPT !.state = "READY"]
  BY <1>3 DEF Expired
<1>5. /\ Expired(charged).pri = p.pri /\ Expired(charged).request_timeout = left
      /\ \/ /\ p.state = "SUSPENDED"
            /\ Expired(charged).state = "SUSPENDED" /\ Expired(charged).last_state = "READY"
         \/ p.state # "SUSPENDED" /\ Expired(charged).state = "READY"
  BY <1>3, <1>4 DEF Process
<1> HIDE DEF charged
<1>6. CASE p.request_timeout # 0 /\ left = 0
  BY <1>6, <1>1, <1>5 DEF Aged, Active
<1>7. CASE ~(p.request_timeout # 0 /\ left = 0)
  BY <1>7, <1>1, <1>2, <1>3 DEF Aged
<1> QED BY <1>6, <1>7

\* Kernel_Tick_Handler ages everybody.
LEMMA TickHandlerAges ==
    ASSUME NEW pd, NEW list, Table(pd, list), NEW ticks \in UInts
    PROVE  LET f == Kernel_Tick_Handler(pd, list, ticks)
           IN DOMAIN f = DOMAIN pd /\ \A p \in DOMAIN pd : Aged(pd[p], f[p])
<1>1. CASE ticks = 0
  BY <1>1, AgedReflexive DEF Kernel_Tick_Handler
<1>2. CASE ticks # 0
  <2>1. ASSUME NEW p \in DOMAIN pd
        PROVE  Aged(pd[p], IF p \in Listed(list) THEN ChargeTicks(pd[p], ticks) ELSE pd[p])
    <3>1. pd[p] \in Process
      BY ElementOfSeq, LenProperties DEF Table
    <3>2. CASE p \in Listed(list)
      <4>1. pd[p].state # "DEAD"
        BY <3>2 DEF Table
      <4> QED BY <3>1, <3>2, <4>1, ChargeTicksAges
    <3> QED BY <3>2, AgedReflexive
  <2> QED BY <1>2, <2>1 DEF Kernel_Tick_Handler
<1> QED BY <1>1, <1>2

\* So does the demotion of the caller ...
LEMMA DemoteAges ==
    ASSUME NEW pd, NEW list, Table(pd, list)
    PROVE  DOMAIN Demote(pd) = DOMAIN pd /\ \A p \in DOMAIN pd : Aged(pd[p], Demote(pd)[p])
<1>1. ASSUME NEW p \in DOMAIN pd PROVE Aged(pd[p], Demote(pd)[p])
  <2>1. pd[p] \in Process
    BY ElementOfSeq, LenProperties DEF Table
  <2>2. CASE p = Current_Process /\ pd[p].state = "RUNNING"
    <3>1. Demote(pd)[p] = [pd[p] EXCEPT !.state = "READY"]
      BY <2>2 DEF Demote
    <3>2. /\ Demote(pd)[p].state = "READY" /\ Demote(pd)[p].pri = pd[p].pri
          /\ Demote(pd)[p].request_timeout = pd[p].request_timeout
      BY <2>1, <3>1 DEF Process
    <3> QED BY <2>2, <3>2 DEF Aged, Active
  <2>3. CASE ~(p = Current_Process /\ pd[p].state = "RUNNING")
    BY <2>3, AgedReflexive DEF Demote
  <2> QED BY <2>2, <2>3
<1> QED BY <1>1 DEF Demote

\* ... and the end of a dispatch, for the READY process that was selected.
LEMMA RunAges ==
    ASSUME NEW pd, NEW list, Table(pd, list), NEW p \in DOMAIN pd, pd[p].state = "READY",
           Run(pd, p)
    PROVE  DOMAIN PD' = DOMAIN pd /\ \A q \in DOMAIN pd : Aged(pd[q], PD'[q])
<1>1. pd[p] \in Process
  BY ElementOfSeq, LenProperties DEF Table
<1>2. /\ DOMAIN PD' = DOMAIN pd
      /\ \A q \in DOMAIN pd : q # p => PD'[q] = pd[q]
      /\ PD'[p] = [pd[p] EXCEPT !.state = "RUNNING",
                     !.starvation_ticks = IF PREVENT_STARVATION THEN 0 ELSE @]
  BY <1>1 DEF Run, Process
<1>3. /\ PD'[p].state = "RUNNING" /\ PD'[p].pri = pd[p].pri
      /\ PD'[p].request_timeout = pd[p].request_timeout
  BY <1>1, <1>2 DEF Process
<1>4. Aged(pd[p], PD'[p])
  BY <1>3 DEF Aged, Active
<1> QED BY <1>2, <1>4, AgedReflexive

\* A dispatch ages everybody, whoever asked for it and whoever is selected.
LEMMA DispatchAges ==
    ASSUME NEW pd, NEW list, Table(pd, list), OnlyCurrentRuns(pd),
           NEW last, list = <<>> \/ last \in Listed(list), NEW ticks \in UInts,
           Kernel_Dispatch_Next_Task(pd, list, last, ticks)
    PROVE  DOMAIN PD' = DOMAIN pd /\ \A q \in DOMAIN pd : Aged(pd[q], PD'[q])
<1> DEFINE demoted == Demote(pd)
           charged == Kernel_Tick_Handler(demoted, list, ticks)
           next    == Kernel_Select_Next_Task(charged, list, last)
<1>1. Table(demoted, list) /\ NoneRuns(demoted) /\ DOMAIN demoted = DOMAIN pd
  BY DemoteFacts
<1>2. \A q \in DOMAIN pd : Aged(pd[q], demoted[q])
  BY DemoteAges
<1>d. \/ \E p \in next : Run(charged, p)
      \/ PD' = charged
  BY DEF Kernel_Dispatch_Next_Task
<1> HIDE DEF demoted
<1>3. /\ Table(charged, list) /\ DOMAIN charged = DOMAIN pd
      /\ \A q \in DOMAIN pd : Aged(demoted[q], charged[q])
  BY <1>1, TickHandlerFacts, TickHandlerAges
<1> HIDE DEF charged
<1>4. \A q \in DOMAIN pd : Aged(pd[q], charged[q])
  BY <1>2, <1>3, AgedTransitive
<1>5. CASE \E p \in next : Run(charged, p)
  <2>1. PICK p \in next : Run(charged, p)
    BY <1>5
  <2>2. p \in Listed(list) /\ charged[p].state = "READY"
    <3> list \in Seq(DOMAIN charged)
      BY <1>3 DEF Table
    <3> QED BY SelectedIsReady
  <2>3. p \in DOMAIN charged
    BY <2>2, <1>3 DEF Table
  <2>4. DOMAIN PD' = DOMAIN pd /\ \A q \in DOMAIN pd : Aged(charged[q], PD'[q])
    BY <1>3, <2>1, <2>2, <2>3, RunAges
  <2> QED BY <1>4, <2>4, AgedTransitive
<1>6. CASE PD' = charged
  BY <1>3, <1>4, <1>6
<1> QED BY <1>d, <1>5, <1>6

-----------------------------------------------------------------------------
(* What a step of the scheduler can do to one process.                     *)

Suspended(a, b) ==
    /\ a.state \in {"READY", "RUNNING", "SLEEPING"} /\ b.state = "SUSPENDED"
    /\ b.last_state = IF a.state = "RUNNING" THEN "READY" ELSE a.state
    /\ b.request_timeout = a.request_timeout /\ b.pri = a.pri

Resumed(a, b) ==
    /\ a.state = "SUSPENDED" /\ b.state = a.last_state
    /\ b.state \in {"READY", "SLEEPING"}
    /\ b.request_timeout = a.request_timeout /\ b.pri = a.pri

\* The calls that end with the caller no longer active.
Retired(a, b) ==
    \/ \E t \in SleepTicks : Aged([a EXCEPT !.request_timeout = t, !.state = "SLEEPING"], b)
    \/ Aged([a EXCEPT !.state = "DEAD"], b)

Fate(p) ==
    \/ Aged(PD[p], PD'[p])
    \/ Suspended(PD[p], PD'[p])
    \/ Resumed(PD[p], PD'[p]) /\ Task_Resume(p)
    \/ p = Current_Process /\ mode = "task" /\ Retired(PD[p], PD'[p])

\* Nobody is forgotten, and everybody meets one of those fates.
Fates ==
    /\ DOMAIN PD \subseteq DOMAIN PD'
    /\ \A p \in DOMAIN PD : Fate(p)
    /\ \A p \in DOMAIN PD' \ DOMAIN PD :
          /\ PD'[p].state = "READY" /\ PD'[p].request_timeout \in FreshTimeouts
          /\ PD'[p].pri = Prio[p]

\* Nobody but these processes takes part in a step.
OnlyAges(movers) ==
    /\ DOMAIN PD \subseteq DOMAIN PD'
    /\ \A p \in DOMAIN PD \ movers : Aged(PD[p], PD'[p])

\* A step that leaves the process table alone, or only dispatches.
LEMMA AgeingIsFate ==
    ASSUME DOMAIN PD' = DOMAIN PD, \A p \in DOMAIN PD : Aged(PD[p], PD'[p])
    PROVE  Fates /\ \A movers : OnlyAges(movers)
  BY DEF Fates, Fate, OnlyAges

LEMMA NothingIsFate == ASSUME PD' = PD PROVE Fates /\ \A movers : OnlyAges(movers)
  BY AgedReflexive, AgeingIsFate

\* Creating a process is nobody else's business.
LEMMA CreateFates ==
    ASSUME Inv, NEW noErr, Kernel_Create_Task_Direct(noErr)
    PROVE  Fates /\ OnlyAges({})
<1>1. CASE PD' = PD
  BY <1>1, NothingIsFate
<1>2. ASSUME NEW timeout \in FreshTimeouts, NEW stack \in BOOLEAN, Last_PID < MaxPid,
             PD' = Append(PD, NewTask(Last_PID + 1, timeout, stack))
      PROVE  Fates /\ OnlyAges({})
  <2> DEFINE n   == Len(PD)
             new == NewTask(n + 1, timeout, stack)
  <2>1. n \in Nat /\ DOMAIN PD = 1..n /\ PD \in Seq(Process)
    BY LenProperties DEF Inv, Table
  <2>2. /\ new.state = "READY" /\ new.request_timeout = timeout /\ new.pri = Prio[n + 1]
    BY DEF NewTask
  <2>3. new \in Process
    <3>1. n + 1 \in 1..MaxPid
      BY <1>2, <2>1, EnvironmentAssumption DEF Last_PID
    <3>2. Prio[n + 1] \in Nat /\ timeout \in UInts /\ 0 \in UInts
      BY <3>1, ConfigAssumption, EnvironmentAssumption DEF UInts
    <3> QED BY <3>2 DEF NewTask, Process, States
  <2>4. PD' = Append(PD, new)
    BY <1>2 DEF Last_PID
  <2> HIDE DEF new
  <2>5. /\ DOMAIN PD' = 1..(n + 1) /\ PD'[n + 1] = new
        /\ \A p \in 1..n : PD'[p] = PD[p]
    BY <2>1, <2>3, <2>4, AppendProperties
  <2>6. \A p \in DOMAIN PD : Aged(PD[p], PD'[p])
    BY <2>1, <2>5, AgedReflexive
  <2>7. \A p \in DOMAIN PD' \ DOMAIN PD : p = n + 1
    BY <2>1, <2>5
  <2>8. DOMAIN PD \subseteq DOMAIN PD'
    BY <2>1, <2>5
  <2>9. OnlyAges({})
    BY <2>6, <2>8 DEF OnlyAges
  <2> QED BY <2>2, <2>5, <2>6, <2>7, <2>8, <2>9 DEF Fates, Fate
<1> QED BY <1>1, <1>2 DEF Kernel_Create_Task_Direct, Return, WriteThroughNull

LEMMA SuspendFates ==
    ASSUME Inv, NEW p \in Nat, Task_Suspend(p)
    PROVE  Fates /\ OnlyAges({p})
<1>1. CASE PD' = PD
  BY <1>1, NothingIsFate
<1>2. CASE /\ p \in Listed(ProcessList)
           /\ Suspendable(p)
           /\ PD' = [PD EXCEPT ![p].state = "SUSPENDED",
                 ![p].last_state = IF PD[p].state = "RUNNING" THEN "READY" ELSE PD[p].state]
  <2>1. p \in DOMAIN PD /\ PD[p] \in Process
    BY <1>2, ElementOfSeq, LenProperties DEF Inv, Table
  <2>2. /\ DOMAIN PD' = DOMAIN PD
        /\ \A q \in DOMAIN PD : q # p => PD'[q] = PD[q]
        /\ PD'[p] = [PD[p] EXCEPT !.state = "SUSPENDED",
                        !.last_state = IF PD[p].state = "RUNNING" THEN "READY" ELSE PD[p].state]
    BY <1>2, <2>1 DEF Process
  <2>3. Suspended(PD[p], PD'[p])
    BY <1>2, <2>1, <2>2 DEF Suspended, Suspendable, Process
  <2> QED BY <2>2, <2>3, AgedReflexive DEF Fates, Fate, OnlyAges
<1> QED BY <1>1, <1>2 DEF Task_Suspend, Return

LEMMA ResumeFates ==
    ASSUME Inv, NEW p \in Nat, Task_Resume(p)
    PROVE  Fates /\ OnlyAges({p})
<1>1. CASE PD' = PD
  BY <1>1, NothingIsFate
<1>2. CASE /\ p \in Listed(ProcessList)
           /\ PD[p].state = "SUSPENDED"
           /\ PD' = [PD EXCEPT ![p].last_state = "SUSPENDED",
                 ![p].state = IF PD[p].last_state = "RUNNING" THEN "READY"
                                                              ELSE PD[p].last_state]
  <2>1. p \in DOMAIN PD /\ PD[p] \in Process /\ PD[p].last_state \in {"READY", "SLEEPING"}
    BY <1>2, ElementOfSeq, LenProperties DEF Inv, Table
  <2>2. /\ DOMAIN PD' = DOMAIN PD
        /\ \A q \in DOMAIN PD : q # p => PD'[q] = PD[q]
        /\ PD'[p] = [PD[p] EXCEPT !.last_state = "SUSPENDED", !.state = PD[p].last_state]
    BY <1>2, <2>1 DEF Process
  <2>3. Resumed(PD[p], PD'[p])
    BY <1>2, <2>1, <2>2 DEF Resumed, Process
  <2> QED BY <2>2, <2>3, AgedReflexive DEF Fates, Fate, OnlyAges
<1> QED BY <1>1, <1>2 DEF Task_Resume, Return

\* A context switch on a table the call has prepared.
LEMMA SwitchAges ==
    ASSUME Inv, Running, NEW pd, Table(pd, ProcessList), OnlyCurrentRuns(pd),
           DOMAIN pd = DOMAIN PD, NEW error, Switch(error, pd)
    PROVE  DOMAIN PD' = DOMAIN PD /\ \A p \in DOMAIN PD : Aged(pd[p], PD'[p])
<1>1. /\ Last_Dispatched \in Listed(ProcessList) /\ Tick_Count \in UInts
      /\ Kernel_Dispatch_Next_Task(pd, ProcessList, Last_Dispatched, Tick_Count)
  BY CallFacts DEF Switch
<1> QED BY <1>1, DispatchAges

\* A call that ends with the caller asleep or dead.
LEMMA CallerFates ==
    ASSUME Inv, mode = "task", Current_Process \in DOMAIN PD,
           Retired(PD[Current_Process], PD'[Current_Process]),
           DOMAIN PD' = DOMAIN PD,
           \A p \in DOMAIN PD : p # Current_Process => Aged(PD[p], PD'[p])
    PROVE  Fates /\ OnlyAges({Current_Process})
  BY DEF Fates, Fate, OnlyAges

LEMMA SleepFates ==
    ASSUME Inv, NEW t \in SleepTicks, Task_Sleep(t)
    PROVE  /\ Fates /\ OnlyAges({Current_Process})
           /\ \E a \in Process : a.state = "SLEEPING" /\ Aged(a, PD'[Current_Process])
<1> DEFINE c == Current_Process
           q == [PD[c] EXCEPT !.request_timeout = t, !.state = "SLEEPING"]
           f == [PD EXCEPT ![c] = q]
<1>1. Running /\ UNCHANGED ProcessList
  BY DEF Task_Sleep
<1>2. c \in DOMAIN PD /\ PD[c] \in Process /\ PD[c].state # "DEAD"
  BY <1>1, CallFacts, ElementOfSeq DEF Table
<1>3. q \in Process /\ q.state = "SLEEPING"
  <2>1. t \in UInts
    BY EnvironmentAssumption DEF UInts
  <2> QED BY <1>2, <2>1 DEF Process, States
<1>4. Switch("NO_ERR", f)
  BY <1>2 DEF Task_Sleep, Process
<1> HIDE DEF q
<1>5. Table(f, ProcessList) /\ DOMAIN f = DOMAIN PD
  BY <1>1, <1>2, <1>3, CallFacts, UpdateKeepsTable
<1>6. \A r \in DOMAIN PD : f[r] = IF r = c THEN q ELSE PD[r]
  OBVIOUS
<1> HIDE DEF f
<1>7. OnlyCurrentRuns(f)
  BY <1>5, <1>6, <1>3 DEF Inv, OnlyCurrentRuns
<1>8. DOMAIN PD' = DOMAIN PD /\ \A p \in DOMAIN PD : Aged(f[p], PD'[p])
  BY <1>1, <1>4, <1>5, <1>7, SwitchAges
<1>9. Aged(q, PD'[c])
  BY <1>2, <1>6, <1>8
<1>10. Retired(PD[c], PD'[c])
  BY <1>9 DEF Retired, q
<1> QED BY <1>1, <1>2, <1>3, <1>6, <1>8, <1>9, <1>10, CallerFates DEF Running

LEMMA TerminateFates ==
    ASSUME Inv, Task_Terminate
    PROVE  Fates /\ OnlyAges({Current_Process})
<1>1. Running
  BY DEF Task_Terminate
<1>2. PICK i \in DOMAIN ProcessList :
        /\ ProcessList[i] = Current_Process
        /\ Kernel_Dispatch_Next_Task([PD EXCEPT ![Current_Process].state = "DEAD"],
               RemoveAt(ProcessList, i), LeftBehind(ProcessList, i), Tick_Count)
  BY DEF Task_Terminate
<1> DEFINE c    == Current_Process
           f    == [PD EXCEPT ![c].state = "DEAD"]
           left == RemoveAt(ProcessList, i)
           last == LeftBehind(ProcessList, i)
<1>3. Kernel_Dispatch_Next_Task(f, left, last, Tick_Count)
  BY <1>2
<1>4. /\ Table(f, left) /\ OnlyCurrentRuns(f) /\ DOMAIN f = DOMAIN PD
      /\ f[c] = [PD[c] EXCEPT !.state = "DEAD"]
      /\ \A p \in DOMAIN PD : p # c => f[p] = PD[p]
      /\ left = <<>> \/ last \in Listed(left)
  BY <1>1, <1>2, LeavingKeepsTable
<1> HIDE DEF f, left, last
<1>5. Tick_Count \in UInts /\ c \in DOMAIN PD
  BY <1>1, CallFacts
<1>6. DOMAIN PD' = DOMAIN PD /\ \A p \in DOMAIN PD : Aged(f[p], PD'[p])
  BY <1>3, <1>4, <1>5, DispatchAges
<1>7. Retired(PD[c], PD'[c])
  BY <1>4, <1>5, <1>6 DEF Retired
<1> QED BY <1>1, <1>4, <1>5, <1>6, <1>7, CallerFates DEF Running

LEMMA PreemptFates ==
    ASSUME Inv, Preempt
    PROVE  Fates /\ OnlyAges({})
<1>1. Running
  BY DEF Preempt, Running
<1> DEFINE ticks == (Tick_Count + 1) % UINT
<1>2. ticks \in UInts
  <2>1. Tick_Count + 1 \in Int
    BY <1>1, CallFacts DEF UInts
  <2> QED BY <2>1, ModIsUInt
<1>3. Kernel_Dispatch_Next_Task(PD, ProcessList, Last_Dispatched, ticks)
  BY DEF Preempt
<1> HIDE DEF ticks
<1>4. Last_Dispatched \in Listed(ProcessList)
  BY <1>1, CallFacts
<1>5. DOMAIN PD' = DOMAIN PD /\ \A p \in DOMAIN PD : Aged(PD[p], PD'[p])
  BY <1>1, <1>2, <1>3, <1>4, CallFacts, DispatchAges
<1> QED BY <1>5, AgeingIsFate

LEMMA StartFates ==
    ASSUME Inv, OS_Start
    PROVE  Fates /\ OnlyAges({})
<1>1. PICK last \in Listed(ProcessList) :
        Kernel_Dispatch_Next_Task(PD, ProcessList, last, Tick_Count)
  BY StartDispatches
<1>2. Table(PD, ProcessList) /\ OnlyCurrentRuns(PD) /\ Tick_Count \in UInts
  BY StartDispatches
<1>3. DOMAIN PD' = DOMAIN PD /\ \A p \in DOMAIN PD : Aged(PD[p], PD'[p])
  BY <1>1, <1>2, DispatchAges
<1> QED BY <1>3, AgeingIsFate

LEMMA IdlePollFates ==
    ASSUME Inv, IdlePoll
    PROVE  Fates /\ OnlyAges({})
<1>1. Table(PD, ProcessList) /\ Tick_Count \in UInts
  BY DEF Inv, VarTypes
<1>2. PD' = Kernel_Tick_Handler(PD, ProcessList, Tick_Count)
  BY DEF IdlePoll
<1> QED BY <1>1, <1>2, TickHandlerAges, AgeingIsFate

LEMMA IdleDispatchFates ==
    ASSUME Inv, IdleDispatch
    PROVE  Fates /\ OnlyAges({})
<1> DEFINE next == Kernel_Select_Next_Task(PD, ProcessList, Last_Dispatched)
<1>1. CASE PD' = PD
  BY <1>1, NothingIsFate
<1>2. CASE \E p \in next : Run(PD, p)
  <2>1. PICK p \in next : Run(PD, p)
    BY <1>2
  <2>2. Table(PD, ProcessList) /\ Last_Dispatched \in Listed(ProcessList)
    BY DEF IdleDispatch, Inv, ScanStart
  <2>3. p \in Listed(ProcessList) /\ PD[p].state = "READY"
    <3> ProcessList \in Seq(DOMAIN PD)
      BY <2>2 DEF Table
    <3> QED BY <2>1, <2>2, SelectedIsReady
  <2>4. p \in DOMAIN PD
    BY <2>2, <2>3 DEF Table
  <2>5. DOMAIN PD' = DOMAIN PD /\ \A q \in DOMAIN PD : Aged(PD[q], PD'[q])
    BY <2>1, <2>2, <2>3, <2>4, RunAges
  <2> QED BY <2>5, AgeingIsFate
<1> QED BY <1>1, <1>2 DEF IdleDispatch

\* Every step of the scheduler, and every step that leaves it alone.
LEMMA NextFates == Inv /\ [Next]_vars => Fates
<1> SUFFICES ASSUME Inv, [Next]_vars PROVE Fates
  OBVIOUS
<1>1. CASE CreateAtBoot \/ Task_Create
  BY <1>1, CreateFates DEF CreateAtBoot, Task_Create
<1>2. CASE OS_Start
  BY <1>2, StartFates
<1>3. ASSUME NEW p \in 0..MaxPid, Task_Suspend(p) \/ Task_Resume(p)
      PROVE  Fates
  <2>1. p \in Nat
    BY EnvironmentAssumption
  <2>2. CASE Task_Suspend(p)
    BY <2>1, <2>2, SuspendFates
  <2>3. CASE Task_Resume(p)
    BY <2>1, <2>3, ResumeFates
  <2> QED BY <1>3, <2>2, <2>3
<1>4. CASE \E t \in SleepTicks : Task_Sleep(t)
  BY <1>4, SleepFates
<1>5. CASE Task_Yield
  <2>1. Running /\ Switch("NO_ERR", PD) /\ Table(PD, ProcessList) /\ OnlyCurrentRuns(PD)
    BY <1>5 DEF Task_Yield, Inv
  <2> QED BY <2>1, SwitchAges, AgeingIsFate
<1>6. CASE Task_Terminate
  BY <1>6, TerminateFates
<1>7. CASE Preempt
  BY <1>7, PreemptFates
<1>8. CASE CallTooEarly \/ TickOnly \/ UNCHANGED vars
  BY <1>8, NothingIsFate DEF CallTooEarly, Return, TickOnly, vars
<1>9. CASE IdlePoll \/ IdleDispatch
  BY <1>9, IdlePollFates, IdleDispatchFates
<1> QED BY <1>1, <1>2, <1>3, <1>4, <1>5, <1>6, <1>7, <1>8, <1>9 DEF Next, SysCall, Kernel_Tick_ISR

\* Process p is put in a state by a call that ends with a context switch.
Moved(p, state) ==
    \E a \in Process : /\ a.state = state /\ a.request_timeout = PD[p].request_timeout
                       /\ Aged(a, PD'[p])

\* Nobody but these processes takes part in a call.
OthersAge(movers) ==
    /\ DOMAIN PD' = DOMAIN PD
    /\ \A p \in DOMAIN PD \ movers : Aged(PD[p], PD'[p])

\* A call makes one process wait, or wakes it, and ends with a context switch.
LEMMA SwitchMoves ==
    ASSUME Inv, Running, UNCHANGED ProcessList,
           NEW p \in DOMAIN PD, PD[p].state # "DEAD",
           NEW q \in Process, q.state \notin {"DEAD", "RUNNING", "SUSPENDED"},
           Switch("NO_ERR", [PD EXCEPT ![p] = q])
    PROVE  Inv' /\ Aged(q, PD'[p]) /\ OthersAge({p})
<1> DEFINE f == [PD EXCEPT ![p] = q]
<1>1. Switch("NO_ERR", f)
  OBVIOUS
<1>2. Table(f, ProcessList) /\ DOMAIN f = DOMAIN PD /\ Len(f) = Len(PD)
  BY CallFacts, UpdateKeepsTable
<1>3. \A r \in DOMAIN PD : f[r] = IF r = p THEN q ELSE PD[r]
  OBVIOUS
<1> HIDE DEF f
<1>4. OnlyCurrentRuns(f)
  BY <1>2, <1>3 DEF Inv, OnlyCurrentRuns
<1>5. Inv' /\ DOMAIN PD' = DOMAIN PD /\ \A r \in DOMAIN PD : Aged(f[r], PD'[r])
  BY <1>1, <1>2, <1>4, SwitchKeepsInv, SwitchAges
<1> QED BY <1>3, <1>5 DEF OthersAge

-----------------------------------------------------------------------------
(* Tasks that wait for something but time.  They are safe from the timer as  *)
(* long as nobody but a sleeper has one.                                     *)

Waiting == {"WAIT_EVENT", "WAIT_EVENTG", "WAIT_MUTEX", "WAIT_SEMAPHORE", "WAIT_MAILBOX"}

\* A timer that runs is that of a sleeper, suspended or not, or of a dead process.
Timely(a) ==
    a.request_timeout # 0 => \/ a.state \in {"SLEEPING", "DEAD"}
                             \/ a.state = "SUSPENDED" /\ a.last_state = "SLEEPING"

AllTimely == \A p \in DOMAIN PD : Timely(PD[p])

\* b waits for what a waits for.
WaitsAlike(a, b) == \A s \in Waiting : b.state = s <=> a.state = s

LEMMA AgedWaitsAlike ==
    ASSUME NEW a, NEW b, Timely(a), Aged(a, b)
    PROVE  Timely(b) /\ WaitsAlike(a, b)
  BY DEF Timely, Aged, Active, WaitsAlike, Waiting

\* Whatever its timer, a process that ages does not begin to wait.
LEMMA AgedWaitsNotAnew ==
    ASSUME NEW a, NEW b, Aged(a, b), NEW s \in Waiting
    PROVE  b.state = s => a.state = s
  BY DEF Aged, Active, Waiting

\* Nor does one that meets any other fate.
LEMMA FatesStartNoWait ==
    ASSUME Inv, Fates, NEW p \in DOMAIN PD', NEW s \in Waiting, PD'[p].state = s
    PROVE  /\ p \in DOMAIN PD /\ PD[p].state = s
           /\ PD'[p].request_timeout # 0 => PD[p].request_timeout # 0
<1>1. p \in DOMAIN PD /\ Fate(p)
  BY DEF Fates, Waiting
<1> DEFINE a == PD[p]
           b == PD'[p]
<1>2. a \in Process
  BY <1>1, ElementOfSeq, LenProperties DEF Inv, Table
<1>3. CASE Aged(a, b)
  BY <1>1, <1>3 DEF Aged, Active, Waiting
<1>4. CASE Suspended(a, b) \/ Resumed(a, b)
  BY <1>4 DEF Suspended, Resumed, Waiting
<1>5. CASE Retired(a, b)
  <2>1. ASSUME NEW d, d.state \in {"SLEEPING", "DEAD"}, Aged(d, b) PROVE FALSE
    BY <2>1, AgedWaitsNotAnew DEF Waiting
  <2>2. CASE Aged([a EXCEPT !.state = "DEAD"], b)
    BY <1>2, <2>1, <2>2 DEF Process
  <2>3. ASSUME NEW t \in SleepTicks,
               Aged([a EXCEPT !.request_timeout = t, !.state = "SLEEPING"], b)
        PROVE  FALSE
    <3> DEFINE e == [a EXCEPT !.request_timeout = t, !.state = "SLEEPING"]
    <3>1. e.state = "SLEEPING" /\ Aged(e, b)
      BY <1>2, <2>3 DEF Process
    <3> HIDE DEF e
    <3> QED BY <2>1, <3>1
  <2> QED BY <1>5, <2>2, <2>3 DEF Retired
<1> QED BY <1>1, <1>3, <1>4, <1>5 DEF Fate

\* No step of the scheduler starts or ends such a wait.
LEMMA FateWaitsAlike ==
    ASSUME ~SelfSuspend, Inv, NEW p \in DOMAIN PD, Timely(PD[p]), Fate(p)
    PROVE  Timely(PD'[p]) /\ WaitsAlike(PD[p], PD'[p])
<1> DEFINE a == PD[p]
           b == PD'[p]
<1>1. a \in Process
  BY ElementOfSeq, LenProperties DEF Inv, Table
<1>2. CASE Aged(a, b)
  BY <1>2, AgedWaitsAlike
<1>3. CASE Suspended(a, b) \/ Resumed(a, b)
  BY <1>3 DEF Suspended, Resumed, Timely, WaitsAlike, Waiting
<1>4. CASE p = Current_Process /\ mode = "task" /\ Retired(a, b)
  <2>1. a.state = "RUNNING"
    BY <1>4 DEF Inv, CallerRuns, CurrentIsRunning
  <2>2. ASSUME NEW d, d.state \in {"SLEEPING", "DEAD"}, Aged(d, b)
        PROVE  Timely(b) /\ WaitsAlike(d, b) /\ WaitsAlike(a, d)
    <3>1. Timely(d) /\ WaitsAlike(a, d)
      BY <2>1, <2>2 DEF Timely, WaitsAlike, Waiting
    <3> QED BY <2>2, <3>1, AgedWaitsAlike
  <2>3. PICK d : d.state \in {"SLEEPING", "DEAD"} /\ Aged(d, b)
    <3>1. CASE Aged([a EXCEPT !.state = "DEAD"], b)
      BY <1>1, <3>1 DEF Process
    <3>2. ASSUME NEW t \in SleepTicks,
                 Aged([a EXCEPT !.request_timeout = t, !.state = "SLEEPING"], b)
          PROVE  \E d : d.state \in {"SLEEPING", "DEAD"} /\ Aged(d, b)
      <4> DEFINE e == [a EXCEPT !.request_timeout = t, !.state = "SLEEPING"]
      <4>1. e.state = "SLEEPING" /\ Aged(e, b)
        BY <1>1, <3>2 DEF Process
      <4> HIDE DEF e
      <4> QED BY <4>1
    <3> QED BY <1>4, <3>1, <3>2 DEF Retired
  <2> QED BY <2>2, <2>3 DEF WaitsAlike
<1> QED BY <1>2, <1>3, <1>4 DEF Fate

\* Nobody is added to those who wait, when a new descriptor has no timer.
LEMMA FatesWaitAlike ==
    ASSUME ~SelfSuspend, FreshTimeouts \subseteq {0}, Inv, AllTimely, Fates
    PROVE  /\ AllTimely' /\ DOMAIN PD \subseteq DOMAIN PD'
           /\ \A p \in DOMAIN PD : WaitsAlike(PD[p], PD'[p])
           /\ \A p \in DOMAIN PD' \ DOMAIN PD : PD'[p].state \notin Waiting
<1>1. \A p \in DOMAIN PD : Timely(PD'[p]) /\ WaitsAlike(PD[p], PD'[p])
  BY FateWaitsAlike DEF AllTimely, Fates
<1>2. \A p \in DOMAIN PD' \ DOMAIN PD :
        Timely(PD'[p]) /\ PD'[p].state \notin Waiting
  BY DEF Fates, Timely, Waiting
<1> QED BY <1>1, <1>2 DEF AllTimely, Fates

-----------------------------------------------------------------------------
(* The theorems.                                                           *)

\* A sleeper keeps a timer through every step, when tasks sleep for a positive time.
LEMMA SleeperKeepsTimer ==
    ASSUME 0 \notin SleepTicks, Fates, SleeperHasTimer, Inv, Inv'
    PROVE  SleeperHasTimer'
<1> SUFFICES ASSUME NEW p \in DOMAIN PD', Sleeping(p)'
             PROVE  PD'[p].request_timeout # 0
  <2>1. PD' \in Seq(Process)
    BY DEF Inv, Table
  <2>2. \A r \in DOMAIN PD' : PD'[r] \in Process
    BY <2>1, ElementOfSeq, LenProperties
  <2>3. \A r \in DOMAIN PD' : PD'[r].request_timeout \in UInts
    BY <2>2 DEF Process
  <2> QED BY <2>3, ConfigAssumption DEF SleeperHasTimer, UInts
<1>1. p \in DOMAIN PD /\ Fate(p)
  BY DEF Fates, Sleeping
<1>2. Sleeping(p) => PD[p].request_timeout # 0
  BY <1>1 DEF SleeperHasTimer
<1> DEFINE a == PD[p]
           b == PD'[p]
<1>a. a \in Process
  BY <1>1, ElementOfSeq, LenProperties DEF Inv, Table
<1>3. CASE Aged(a, b) \/ Suspended(a, b) \/ Resumed(a, b)
  BY <1>2, <1>3 DEF Aged, Active, Suspended, Resumed, Sleeping
<1>4. CASE Retired(a, b)
  <2>1. CASE Aged([a EXCEPT !.state = "DEAD"], b)
    BY <1>a, <2>1 DEF Process, Aged, Active, Sleeping
  <2>2. ASSUME NEW t \in SleepTicks, Aged([a EXCEPT !.request_timeout = t, !.state = "SLEEPING"], b)
        PROVE  b.request_timeout # 0
    BY <1>a, <2>2 DEF Process, Aged, Active, Sleeping
  <2> QED BY <1>4, <2>1, <2>2 DEF Retired
<1> QED BY <1>1, <1>3, <1>4 DEF Fate

\* As long as tasks sleep for at least one tick, nobody sleeps without a timer,
\* suspended or not, whatever the order of calls, ticks and failures.
THEOREM SleepersHaveTimers ==
    ASSUME 0 \notin SleepTicks
    PROVE  Spec => []SleeperHasTimer
<1>1. Init => SleeperHasTimer
  BY DEF Init, SleeperHasTimer
<1>2. Inv /\ Inv' /\ SleeperHasTimer /\ [Next]_vars => SleeperHasTimer'
  BY NextFates, SleeperKeepsTimer
<1> QED BY <1>1, <1>2, Invariance, PTL DEF Spec

\* When no task suspends itself, only Task_Resume ends a suspension: no timer,
\* no interrupt and no termination of another task does.
THEOREM SuspensionLasts ==
    ASSUME ~SelfSuspend
    PROVE  Spec => SuspendedUntilResumed
<1>1. Inv /\ [Next]_vars =>
        [\A p \in DOMAIN PD : InState(p, {"SUSPENDED"}) /\ PD'[p].state # "SUSPENDED" =>
            p # Current_Process /\ Task_Resume(p)]_vars
  <2> SUFFICES ASSUME Inv, [Next]_vars, NEW p \in DOMAIN PD,
                      PD[p].state = "SUSPENDED", PD'[p].state # "SUSPENDED"
               PROVE  p # Current_Process /\ Task_Resume(p)
    BY DEF InState
  <2>1. Fate(p)
    BY NextFates DEF Fates
  <2>2. mode = "task" => p # Current_Process
    BY DEF Inv, CallerRuns, CurrentIsRunning
  <2>3. Task_Resume(p)
    BY <2>1, <2>2 DEF Fate, Aged, Active, Suspended
  <2> QED BY <2>2, <2>3 DEF Task_Resume, Running
<1> QED BY <1>1, Invariance, PTL DEF Spec, SuspendedUntilResumed

-----------------------------------------------------------------------------
(* Wait queues.                                                             *)

\* The tasks of W are those on the queues w, each on one queue and once.
Match(w, W) ==
    /\ \A m \in DOMAIN w : \A i \in DOMAIN w[m] : w[m][i] \in W
    /\ \A p \in W : \E m \in DOMAIN w : \E i \in DOMAIN w[m] : w[m][i] = p
    /\ \A m, n \in DOMAIN w : \A i \in DOMAIN w[m], j \in DOMAIN w[n] :
          w[m][i] = w[n][j] => m = n /\ i = j

=============================================================================
