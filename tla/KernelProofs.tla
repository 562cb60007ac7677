---------------------------- MODULE KernelProofs ----------------------------
(***************************************************************************)
(* Theorems about Kernel, for every value of its constants: its variables, *)
(* and whom Kernel_Select_Next_Task dispatches.                            *)
(***************************************************************************)
EXTENDS Kernel, SequenceTheorems, WellFoundedInduction, TLAPS

-----------------------------------------------------------------------------
(* Facts about the data.                                                   *)

\* Unsigned arithmetic (Tick_Count, the timers) stays within an unsigned int.
LEMMA ModIsUInt ==
    ASSUME NEW a \in Int PROVE a % UINT \in UInts
  BY ConfigAssumption DEF UInts

\* Wrapping never makes a counter larger than it would have been.
LEMMA ModBounded ==
    ASSUME NEW a \in Nat PROVE a % UINT \in UInts /\ a % UINT <= a
  BY ConfigAssumption DEF UInts

\* A function on an initial segment of the naturals is a sequence.
LEMMA SegmentIsSeq ==
    ASSUME NEW S, NEW n \in Nat, NEW f \in [1..n -> S]
    PROVE  f \in Seq(S) /\ Len(f) = n /\ DOMAIN f = 1..n
  OBVIOUS

\* The list without its i-th entry.
LEMMA RemoveAtFacts ==
    ASSUME NEW S, NEW s \in Seq(S), NEW i \in 1..Len(s)
    PROVE  /\ RemoveAt(s, i) \in Seq(S)
           /\ Len(RemoveAt(s, i)) = Len(s) - 1
           /\ \A j \in 1..(Len(s) - 1) :
                 RemoveAt(s, i)[j] = IF j < i THEN s[j] ELSE s[j + 1]
<1> DEFINE n == Len(s)
           a == SubSeq(s, 1, i - 1)
           b == SubSeq(s, i + 1, n)
           c == a \o b
<1>0. n \in Nat /\ i \in 1..n
  BY LenProperties
<1>1. /\ a \in Seq(S) /\ Len(a) = i - 1
      /\ \A j \in 1..(i - 1) : a[j] = s[j]
  BY SubSeqProperties, ElementOfSeq
<1>2. /\ b \in Seq(S) /\ Len(b) = n - i
      /\ \A j \in 1..(n - i) : b[j] = s[i + j]
  BY SubSeqProperties, ElementOfSeq
<1>3. /\ c \in Seq(S)
      /\ Len(c) = Len(a) + Len(b)
      /\ \A j \in 1..(Len(a) + Len(b)) : c[j] = IF j <= Len(a) THEN a[j] ELSE b[j - Len(a)]
  <2> HIDE DEF a, b
  <2> QED BY <1>1, <1>2, ConcatProperties
<1>4. RemoveAt(s, i) = c
  BY DEF RemoveAt
<1> HIDE DEF n, a, b, c
<1>5. Len(c) = n - 1
  BY <1>0, <1>1, <1>2, <1>3
<1>6. ASSUME NEW j \in 1..(n - 1)
      PROVE  c[j] = IF j < i THEN s[j] ELSE s[j + 1]
  <2>1. CASE j < i
    BY <2>1, <1>0, <1>1, <1>2, <1>3
  <2>2. CASE ~(j < i)
    <3>1. j - Len(a) \in 1..(n - i) /\ j \in 1..(Len(a) + Len(b)) /\ ~(j <= Len(a))
      BY <2>2, <1>0, <1>1, <1>2
    <3>2. b[j - Len(a)] = s[i + (j - Len(a))] /\ i + (j - Len(a)) = j + 1
      BY <3>1, <1>0, <1>1, <1>2
    <3> QED BY <3>1, <3>2, <2>2, <1>3
  <2> QED BY <2>1, <2>2
<1> QED BY <1>3, <1>4, <1>5, <1>6 DEF n

\* Of a list that holds nothing twice, one entry goes and the others stay.
LEMMA RemoveAtDistinct ==
    ASSUME NEW S, NEW s \in Seq(S), NEW i \in 1..Len(s),
           \A j, k \in DOMAIN s : s[j] = s[k] => j = k
    PROVE  LET left == RemoveAt(s, i)
           IN /\ \A j, k \in DOMAIN left : left[j] = left[k] => j = k
              /\ ToSet(left) = ToSet(s) \ {s[i]}
<1> DEFINE n     == Len(s)
           left  == RemoveAt(s, i)
           at(j) == IF j < i THEN j ELSE j + 1
<1>1. n \in Nat /\ DOMAIN s = 1..n /\ i \in 1..n
  BY LenProperties
<1>2. /\ left \in Seq(S) /\ Len(left) = n - 1
      /\ \A j \in 1..(n - 1) : left[j] = IF j < i THEN s[j] ELSE s[j + 1]
  BY RemoveAtFacts
<1>3. DOMAIN left = 1..(n - 1)
  BY <1>2, LenProperties
<1> HIDE DEF left, n
<1>4. \A j \in 1..(n - 1) : at(j) \in 1..n /\ at(j) # i /\ left[j] = s[at(j)]
  BY <1>1, <1>2
<1>5. \A j, k \in 1..(n - 1) : at(j) = at(k) => j = k
  BY <1>1
<1> HIDE DEF at
<1>6. \A j, k \in DOMAIN left : left[j] = left[k] => j = k
  BY <1>1, <1>3, <1>4, <1>5
<1>7. ASSUME NEW x \in ToSet(left) PROVE x \in ToSet(s) /\ x # s[i]
  <2>1. PICK j \in 1..(n - 1) : x = left[j]
    BY <1>3 DEF ToSet
  <2>2. PICK k \in 1..n : k # i /\ x = s[k]
    BY <1>4, <2>1
  <2> QED BY <1>1, <2>2 DEF ToSet
<1>8. ASSUME NEW x \in ToSet(s), x # s[i] PROVE x \in ToSet(left)
  <2>1. PICK k \in 1..n : x = s[k]
    BY <1>1 DEF ToSet
  <2>2. CASE k < i
    <3>1. k \in 1..(n - 1) /\ left[k] = x
      BY <1>1, <1>2, <2>1, <2>2
    <3> QED BY <3>1, <1>3 DEF ToSet
  <2>3. CASE k > i
    <3>1. k - 1 \in 1..(n - 1) /\ ~(k - 1 < i) /\ (k - 1) + 1 = k
      BY <1>1, <2>3
    <3>2. left[k - 1] = x
      BY <3>1, <1>2, <2>1
    <3> QED BY <3>1, <3>2, <1>3 DEF ToSet
  <2> QED BY <1>1, <1>8, <2>1, <2>2, <2>3
<1> QED BY <1>6, <1>7, <1>8 DEF left

-----------------------------------------------------------------------------
(* The timer and the scheduler, as functions of the process table.         *)

\* Charging ticks keeps a descriptor well formed; it can only make a process
\* READY, and never takes a process out of a suspension.
LEMMA ChargeTicksFacts ==
    ASSUME NEW p \in Process, NEW ticks \in UInts
    PROVE  LET q == ChargeTicks(p, ticks)
           IN /\ q \in Process
              /\ q.state \in {p.state, "READY"}
              /\ p.state = "SUSPENDED" => q.state = "SUSPENDED"
              /\ q.state = "SUSPENDED" => q.last_state \in {p.last_state, "READY"}
<1> DEFINE starved == IF PREVENT_STARVATION /\ p.state = "READY"
                      THEN (p.starvation_ticks + ticks) % UINT
                      ELSE p.starvation_ticks
           left    == IF p.request_timeout = 0 THEN 0 ELSE TimeLeft(p, ticks)
<1>1. starved \in UInts
  <2>1. p.starvation_ticks \in UInts /\ p.starvation_ticks + ticks \in Int
    BY DEF Process, UInts
  <2> QED BY <2>1, ModIsUInt
<1>2. left \in UInts
  <2>1. p.request_timeout - ticks \in Int
    BY DEF Process, UInts
  <2>2. (p.request_timeout - ticks) % UINT \in UInts
    BY <2>1, ModIsUInt
  <2> QED BY <2>2, ConfigAssumption DEF TimeLeft, ToInt, UInts
<1> DEFINE charged == [p EXCEPT !.starvation_ticks = starved, !.request_timeout = left]
<1>3. ChargeTicks(p, ticks) = charged \/ ChargeTicks(p, ticks) = Expired(charged)
  BY DEF ChargeTicks
<1> HIDE DEF starved, left
<1>4. charged \in Process /\ charged.state = p.state /\ charged.last_state = p.last_state
  BY <1>1, <1>2 DEF Process
<1>5. /\ Expired(charged) \in Process
      /\ \/ /\ p.state = "SUSPENDED"
            /\ Expired(charged).state = "SUSPENDED" /\ Expired(charged).last_state = "READY"
         \/ p.state # "SUSPENDED" /\ Expired(charged).state = "READY"
  BY <1>4 DEF Expired, Process, States
<1> HIDE DEF charged
<1> QED BY <1>3, <1>4, <1>5

\* The process table: descriptors are well formed, the list holds every process
\* that is alive, once, and a suspended process has a state to go back to.
Table(pd, list) ==
    /\ pd \in Seq(Process)
    /\ list \in Seq(DOMAIN pd)
    /\ \A i, j \in DOMAIN list : list[i] = list[j] => i = j
    /\ Listed(list) = {p \in DOMAIN pd : pd[p].state # "DEAD"}
    /\ \A p \in DOMAIN pd : pd[p].state = "SUSPENDED" => pd[p].last_state \in {"READY", "SLEEPING"}

NoneRuns(pd) == \A p \in DOMAIN pd : pd[p].state # "RUNNING"

OnlyCurrentRuns(pd) == \A p \in DOMAIN pd : pd[p].state = "RUNNING" => p = Current_Process

\* Replacing descriptors one for one keeps the table, as long as nobody dies or
\* comes back from the dead.
LEMMA TableKept ==
    ASSUME NEW pd, NEW list, Table(pd, list),
           NEW f, f = [p \in DOMAIN pd |-> f[p]],
           \A p \in DOMAIN pd :
              /\ f[p] \in Process
              /\ f[p].state = "DEAD" <=> pd[p].state = "DEAD"
              /\ f[p].state = "SUSPENDED" => f[p].last_state \in {"READY", "SLEEPING"}
    PROVE  Table(f, list) /\ DOMAIN f = DOMAIN pd /\ Len(f) = Len(pd)
<1>1. Len(pd) \in Nat /\ DOMAIN pd = 1..Len(pd)
  BY LenProperties DEF Table
<1>2. f \in [1..Len(pd) -> Process]
  BY <1>1
<1>3. f \in Seq(Process) /\ Len(f) = Len(pd) /\ DOMAIN f = DOMAIN pd
  BY <1>1, <1>2, SegmentIsSeq
<1> QED BY <1>3 DEF Table

\* Demoting the caller (kernel.c:227) keeps the table, and leaves nobody RUNNING
\* where only the caller was.
LEMMA DemoteFacts ==
    ASSUME NEW pd, NEW list, Table(pd, list), OnlyCurrentRuns(pd)
    PROVE  /\ Table(Demote(pd), list) /\ NoneRuns(Demote(pd))
           /\ DOMAIN Demote(pd) = DOMAIN pd /\ Len(Demote(pd)) = Len(pd)
<1> DEFINE f == Demote(pd)
<1>1. f = [p \in DOMAIN pd |-> f[p]]
  BY DEF Demote
<1>2. ASSUME NEW p \in DOMAIN pd
      PROVE  /\ f[p] \in Process
             /\ f[p].state = "DEAD" <=> pd[p].state = "DEAD"
             /\ f[p].state = "SUSPENDED" => f[p].last_state \in {"READY", "SLEEPING"}
             /\ f[p].state # "RUNNING"
  <2>1. pd[p] \in Process
    BY ElementOfSeq, LenProperties DEF Table
  <2>2. CASE p = Current_Process /\ pd[p].state = "RUNNING"
    <3>1. f[p] = [pd[p] EXCEPT !.state = "READY"]
      BY <2>2 DEF Demote
    <3> QED BY <2>1, <2>2, <3>1 DEF Process, States
  <2>3. CASE ~(p = Current_Process /\ pd[p].state = "RUNNING")
    <3>1. f[p] = pd[p] /\ pd[p].state # "RUNNING"
      BY <2>3 DEF Demote, OnlyCurrentRuns
    <3> QED BY <2>1, <3>1 DEF Table
  <2> QED BY <2>2, <2>3
<1> HIDE DEF f
<1>3. Table(f, list) /\ DOMAIN f = DOMAIN pd /\ Len(f) = Len(pd)
  BY <1>1, <1>2, TableKept
<1> QED BY <1>2, <1>3 DEF f, NoneRuns

\* Kernel_Tick_Handler keeps the table and makes nobody RUNNING.
LEMMA TickHandlerFacts ==
    ASSUME NEW pd, NEW list, Table(pd, list), NoneRuns(pd), NEW ticks \in UInts
    PROVE  LET q == Kernel_Tick_Handler(pd, list, ticks)
           IN Table(q, list) /\ NoneRuns(q) /\ DOMAIN q = DOMAIN pd /\ Len(q) = Len(pd)
<1> DEFINE f == Kernel_Tick_Handler(pd, list, ticks)
<1>1. CASE ticks = 0
  BY <1>1 DEF Kernel_Tick_Handler
<1>2. CASE ticks # 0
  <2>1. /\ f = [p \in DOMAIN pd |-> f[p]]
        /\ \A p \in DOMAIN pd :
              f[p] = IF p \in Listed(list) THEN ChargeTicks(pd[p], ticks) ELSE pd[p]
    BY <1>2 DEF Kernel_Tick_Handler
  <2> HIDE DEF f
  <2>2. ASSUME NEW p \in DOMAIN pd
        PROVE  /\ f[p] \in Process
               /\ f[p].state = "DEAD" <=> pd[p].state = "DEAD"
               /\ f[p].state = "SUSPENDED" => f[p].last_state \in {"READY", "SLEEPING"}
               /\ f[p].state # "RUNNING"
    <3>1. pd[p] \in Process /\ pd[p].state # "RUNNING"
      BY ElementOfSeq, LenProperties DEF Table, NoneRuns
    <3>2. CASE p \in Listed(list)
      <4>1. pd[p].state # "DEAD"
        BY <3>2 DEF Table
      <4>2. f[p] = ChargeTicks(pd[p], ticks)
        BY <2>1, <3>2
      <4>3. /\ f[p] \in Process
            /\ f[p].state \in {pd[p].state, "READY"}
            /\ f[p].state = "SUSPENDED" => f[p].last_state \in {pd[p].last_state, "READY"}
        BY <3>1, <4>2, ChargeTicksFacts
      <4> QED BY <3>1, <4>1, <4>3 DEF Table
    <3>3. CASE p \notin Listed(list)
      BY <2>1, <3>1, <3>3 DEF Table
    <3> QED BY <3>2, <3>3
  <2>3. Table(f, list) /\ DOMAIN f = DOMAIN pd /\ Len(f) = Len(pd)
    BY <2>1, <2>2, TableKept
  <2> QED BY <2>2, <2>3 DEF f, NoneRuns
<1> QED BY <1>1, <1>2

\* The scan visits processes of the list only.
LEMMA ScanListed ==
    ASSUME NEW S, NEW list \in Seq(S), NEW last \in Listed(list)
    PROVE  /\ DOMAIN ScanOrder(list, last) = 1..Len(list)
           /\ \A k \in 1..Len(list) : ScanOrder(list, last)[k] \in Listed(list)
<1> DEFINE n == Len(list)
           i == CHOOSE i \in 1..n : list[i] = last
<1>1. n \in Nat /\ DOMAIN list = 1..n
  BY LenProperties
<1>2. i \in 1..n
  BY <1>1 DEF Listed, ToSet
<1>3. ASSUME NEW k \in 1..n PROVE ((i + k - 1) % n) + 1 \in 1..n
  <2> HIDE DEF n, i
  <2> QED BY <1>1, <1>2
<1>4. \A j \in 1..n : list[j] \in Listed(list)
  BY <1>1 DEF Listed, ToSet
<1> QED BY <1>3, <1>4 DEF ScanOrder

\* Whatever the policy, only a READY process of the list is selected.
LEMMA SelectedIsReady ==
    ASSUME NEW S, NEW list \in Seq(S), NEW last, list = <<>> \/ last \in Listed(list), NEW pd,
           NEW p \in Kernel_Select_Next_Task(pd, list, last)
    PROVE  p \in Listed(list) /\ pd[p].state = "READY"
<1> DEFINE scan == ScanOrder(list, last)
<1>1. PICK k \in DOMAIN scan : p = scan[k] /\ pd[scan[k]].state = "READY"
  BY DEF Kernel_Select_Next_Task, Improves, CountsAsStarving
<1>2. DOMAIN scan = 1..Len(list)
  BY DEF ScanOrder
<1>3. list # <<>>
  BY <1>1, <1>2, EmptySeq
<1> QED BY <1>1, <1>2, <1>3, ScanListed

-----------------------------------------------------------------------------
(* The inductive invariant.  Beyond the properties to be proved it says why a *)
(* resumed process is neither DEAD nor RUNNING (in Table), and what the scan  *)
(* of the dispatcher starts from.                                             *)

VarTypes ==
    /\ Len(PD) <= MaxPid
    /\ Current_Process \in {0} \cup DOMAIN PD
    /\ Last_Dispatched \in {0} \cup DOMAIN PD
    /\ Tick_Count \in UInts
    /\ Ticks_Since_Last_Cswitch \in Nat
    /\ mode \in Modes
    /\ err \in Errors

ScanStart ==
    /\ mode \in {"task", "idle"} => Last_Dispatched \in Listed(ProcessList)
    /\ mode = "task" => Last_Dispatched = Current_Process

CallerRuns == ~SelfSuspend => CurrentIsRunning

Inv ==
    /\ Table(PD, ProcessList)
    /\ OnlyCurrentRuns(PD)
    /\ mode \in {"boot", "idle"} => NoneRuns(PD)
    /\ VarTypes
    /\ ScanStart
    /\ CallerRuns
    /\ TicksAreCharged

\* The inductive invariant is strong enough for the type and safety invariants.
LEMMA InvImplies == Inv => TypeOK /\ AtMostOneRunning /\ ListIsLive
<1> SUFFICES ASSUME Inv PROVE TypeOK /\ AtMostOneRunning /\ ListIsLive
  OBVIOUS
<1>1. TypeOK
  BY DEF Inv, Table, VarTypes, TypeOK
<1>2. AtMostOneRunning
  BY DEF Inv, OnlyCurrentRuns, NoneRuns, VarTypes, Modes, AtMostOneRunning
<1>3. ListIsLive
  BY DEF Inv, Table, ScanStart, ListIsLive
<1> QED BY <1>1, <1>2, <1>3

\* Dispatching a READY process of the list.
LEMMA RunEstablishesInv ==
    ASSUME NEW pd, Table(pd, ProcessList'), NoneRuns(pd), Len(pd) <= MaxPid,
           NEW p \in Listed(ProcessList'), pd[p].state = "READY", Run(pd, p),
           Tick_Count' \in UInts, Tick_Count' <= IdleLag, err' \in Errors
    PROVE  Inv'
<1>1. p \in DOMAIN pd /\ pd[p] \in Process
  BY ElementOfSeq, LenProperties DEF Table
<1>2. /\ PD' = [q \in DOMAIN pd |-> PD'[q]]
      /\ \A q \in DOMAIN pd : q # p => PD'[q] = pd[q]
      /\ PD'[p] = [pd[p] EXCEPT !.state = "RUNNING",
                     !.starvation_ticks = IF PREVENT_STARVATION THEN 0 ELSE @]
  BY <1>1 DEF Run, Process
<1>3. PD'[p] \in Process /\ PD'[p].state = "RUNNING"
  <2> DEFINE starved == IF PREVENT_STARVATION THEN 0 ELSE pd[p].starvation_ticks
  <2>1. starved \in UInts
    BY <1>1, ConfigAssumption DEF Process, UInts
  <2>2. PD'[p] = [pd[p] EXCEPT !.state = "RUNNING", !.starvation_ticks = starved]
    BY <1>1, <1>2 DEF Process
  <2> HIDE DEF starved
  <2> QED BY <1>1, <2>1, <2>2 DEF Process, States
<1>4. ASSUME NEW q \in DOMAIN pd
      PROVE  /\ PD'[q] \in Process
             /\ PD'[q].state = "DEAD" <=> pd[q].state = "DEAD"
             /\ PD'[q].state = "SUSPENDED" => PD'[q].last_state \in {"READY", "SLEEPING"}
  <2>1. CASE q = p
    BY <2>1, <1>3
  <2>2. CASE q # p
    <3>1. PD'[q] = pd[q] /\ pd[q] \in Process
      BY <2>2, <1>2, ElementOfSeq, LenProperties DEF Table
    <3> QED BY <3>1 DEF Table
  <2> QED BY <2>1, <2>2
<1>5. Table(PD', ProcessList') /\ DOMAIN PD' = DOMAIN pd /\ Len(PD') = Len(pd)
  BY <1>2, <1>4, TableKept
<1>6. OnlyCurrentRuns(PD)'
  BY <1>2, <1>5 DEF OnlyCurrentRuns, NoneRuns, Run
<1>7. VarTypes'
  BY <1>1, <1>5 DEF VarTypes, Run, Modes
<1>8. mode' \in {"task", "halted"} /\ ScanStart' /\ CallerRuns'
  BY <1>3 DEF ScanStart, CallerRuns, CurrentIsRunning, Run
<1>9. TicksAreCharged'
  BY <1>7, <1>8, ConfigAssumption, EnvironmentAssumption DEF TicksAreCharged, Run, UInts
<1> QED BY <1>5, <1>6, <1>7, <1>8, <1>9 DEF Inv

\* A dispatch, whoever asked for it.
LEMMA DispatchEstablishesInv ==
    ASSUME NEW pd, Table(pd, ProcessList'), OnlyCurrentRuns(pd), Len(pd) <= MaxPid,
           NEW last \in {0} \cup DOMAIN pd, ProcessList' = <<>> \/ last \in Listed(ProcessList'),
           Current_Process \in {0} \cup DOMAIN pd, Ticks_Since_Last_Cswitch \in Nat,
           NEW ticks \in UInts, err' \in Errors,
           Kernel_Dispatch_Next_Task(pd, ProcessList', last, ticks)
    PROVE  Inv'
<1> DEFINE charged == Kernel_Tick_Handler(Demote(pd), ProcessList', ticks)
           next    == Kernel_Select_Next_Task(charged, ProcessList', last)
<1>1. /\ Table(charged, ProcessList') /\ NoneRuns(charged)
      /\ DOMAIN charged = DOMAIN pd /\ Len(charged) = Len(pd)
  <2>1. /\ Table(Demote(pd), ProcessList') /\ NoneRuns(Demote(pd))
        /\ DOMAIN Demote(pd) = DOMAIN pd /\ Len(Demote(pd)) = Len(pd)
    BY DemoteFacts
  <2> QED BY <2>1, TickHandlerFacts
<1>2. Tick_Count' = 0 /\ Tick_Count' \in UInts /\ Tick_Count' <= IdleLag
  BY ConfigAssumption, EnvironmentAssumption DEF Kernel_Dispatch_Next_Task, UInts
<1>3. CASE \E p \in next : Run(charged, p)
  <2>1. PICK p \in next : Run(charged, p)
    BY <1>3
  <2>2. p \in Listed(ProcessList') /\ charged[p].state = "READY"
    <3> ProcessList' \in Seq(DOMAIN pd)
      BY DEF Table
    <3> HIDE DEF charged
    <3> QED BY SelectedIsReady
  <2> HIDE DEF charged
  <2> QED BY <1>1, <1>2, <2>1, <2>2, RunEstablishesInv
<1>4. CASE /\ next = {}
           /\ PD' = charged
           /\ Last_Dispatched' = last
           /\ mode' = IF ProcessList' = <<>> THEN "halted" ELSE "idle"
           /\ UNCHANGED <<Current_Process, Ticks_Since_Last_Cswitch>>
  <2> HIDE DEF charged, next
  <2>1. OnlyCurrentRuns(PD)' /\ NoneRuns(PD)'
    BY <1>1, <1>4 DEF OnlyCurrentRuns, NoneRuns
  <2>2. VarTypes'
    BY <1>1, <1>2, <1>4 DEF VarTypes, Modes
  <2>3. ScanStart' /\ CallerRuns'
    BY <1>4 DEF ScanStart, CallerRuns, CurrentIsRunning
  <2>4. TicksAreCharged'
    BY <1>2, <1>4 DEF TicksAreCharged
  <2> QED BY <1>1, <1>4, <2>1, <2>2, <2>3, <2>4 DEF Inv
<1> QED BY <1>3, <1>4 DEF Kernel_Dispatch_Next_Task

\* A request that returns to its caller.
LEMMA ReturnKeepsInv ==
    ASSUME Inv, mode \in {"boot", "task"},
           NEW pd, NEW error \in Errors, Return(error, pd),
           Table(pd, ProcessList'), OnlyCurrentRuns(pd), mode = "boot" => NoneRuns(pd),
           DOMAIN PD \subseteq DOMAIN pd, Len(pd) <= MaxPid,
           Listed(ProcessList) \subseteq Listed(ProcessList'),
           CallerRuns => (~SelfSuspend /\ mode = "task" => pd[Current_Process].state = "RUNNING")
    PROVE  Inv'
<1>1. OnlyCurrentRuns(PD)' /\ (mode' = "boot" => NoneRuns(PD)') /\ mode' # "idle"
  BY DEF Return, sched, OnlyCurrentRuns, NoneRuns
<1>2. VarTypes' /\ ScanStart'
  BY DEF Return, sched, Inv, VarTypes, ScanStart
<1>3. CallerRuns' /\ TicksAreCharged'
  BY DEF Return, sched, Inv, CallerRuns, CurrentIsRunning, TicksAreCharged
<1> QED BY <1>1, <1>2, <1>3 DEF Inv, Return

\* The same for requests that change nothing but err.
LEMMA RefusalKeepsInv ==
    ASSUME Inv, mode \in {"boot", "task"}, NEW error \in Errors,
           Return(error, PD), UNCHANGED ProcessList
    PROVE  Inv'
<1>1. CallerRuns => (~SelfSuspend /\ mode = "task" => PD[Current_Process].state = "RUNNING")
  BY DEF CallerRuns, CurrentIsRunning
<1>2. Len(PD) <= MaxPid
  BY DEF Inv, VarTypes
<1> QED BY <1>1, <1>2, ReturnKeepsInv DEF Inv

\* ... and for a stop in undefined behaviour.
LEMMA StopKeepsInv ==
    ASSUME Inv, mode' = "halted", UNCHANGED <<PD, ProcessList, sched>>, err' \in Errors
    PROVE  Inv'
  BY DEF Inv, Table, OnlyCurrentRuns, NoneRuns, VarTypes, Modes, ScanStart, CallerRuns,
         CurrentIsRunning, TicksAreCharged, sched

LEMMA HaltKeepsInv ==
    ASSUME Inv, mode' = "halted", UNCHANGED <<PD, ProcessList, sched, err>>
    PROVE  Inv'
  BY StopKeepsInv DEF Inv, VarTypes

\* Kernel_Create_Task_Direct, with each of its failures: the new process is READY
\* and goes to the end of the list.
LEMMA CreateKeepsInv ==
    ASSUME Inv, mode \in {"boot", "task"}, NEW noErr \in Errors,
           Kernel_Create_Task_Direct(noErr)
    PROVE  Inv'
<1>1. CASE Return("MAX_OBJECT_ERR", PD) /\ UNCHANGED ProcessList
  BY <1>1, RefusalKeepsInv DEF Errors
<1>2. CASE Return("MALLOC_FAILED_ERR", PD) /\ UNCHANGED ProcessList
  BY <1>2, RefusalKeepsInv DEF Errors
<1>3. CASE WriteThroughNull
  BY <1>3, HaltKeepsInv DEF WriteThroughNull
<1>4. ASSUME Last_PID < MaxPid,
             NEW timeout \in FreshTimeouts, NEW stack \in BOOLEAN,
             Return(IF stack THEN noErr ELSE "MALLOC_FAILED_ERR",
                    Append(PD, NewTask(Last_PID + 1, timeout, stack))),
             ProcessList' = Append(ProcessList, Last_PID + 1)
      PROVE  Inv'
  <2> DEFINE n    == Len(PD)
             new  == NewTask(n + 1, timeout, stack)
             pd   == Append(PD, new)
             list == Append(ProcessList, n + 1)
  <2>1. /\ n \in Nat /\ DOMAIN PD = 1..n /\ n < MaxPid /\ n + 1 \in 1..MaxPid
        /\ PD \in Seq(Process) /\ ProcessList \in Seq(DOMAIN PD)
    BY <1>4, LenProperties, EnvironmentAssumption DEF Inv, Table, Last_PID
  <2>2. new \in Process /\ new.state = "READY"
    <3>1. Prio[n + 1] \in Nat /\ timeout \in UInts /\ 0 \in UInts
      BY <2>1, ConfigAssumption, EnvironmentAssumption DEF UInts
    <3> QED BY <3>1 DEF NewTask, Process, States
  <2> HIDE DEF new
  <2>3. /\ pd \in Seq(Process) /\ Len(pd) = n + 1 /\ DOMAIN pd = 1..(n + 1)
        /\ pd[n + 1] = new /\ \A p \in 1..n : pd[p] = PD[p]
    BY <2>1, <2>2, AppendProperties
  <2>4. ProcessList \in Seq(DOMAIN pd)
    BY <2>1, <2>3, SeqMonotonic
  <2>5. /\ list \in Seq(DOMAIN pd) /\ Len(list) = Len(ProcessList) + 1
        /\ DOMAIN list = 1..(Len(ProcessList) + 1)
        /\ list[Len(ProcessList) + 1] = n + 1
        /\ \A i \in 1..Len(ProcessList) : list[i] = ProcessList[i]
    <3>1. n + 1 \in DOMAIN pd
      BY <2>1, <2>3
    <3> HIDE DEF pd
    <3> QED BY <2>4, <3>1, AppendProperties, LenProperties
  <2> HIDE DEF pd, list
  <2>6. Len(ProcessList) \in Nat /\ DOMAIN ProcessList = 1..Len(ProcessList)
        /\ \A i \in 1..Len(ProcessList) : ProcessList[i] \in 1..n
    BY <2>1, LenProperties, ElementOfSeq
  <2>7. \A i, j \in DOMAIN list : list[i] = list[j] => i = j
    BY <2>1, <2>5, <2>6 DEF Inv, Table
  <2>8. Listed(list) = Listed(ProcessList) \cup {n + 1}
    BY <2>5, <2>6 DEF Listed, ToSet
  <2>9. Listed(list) = {p \in DOMAIN pd : pd[p].state # "DEAD"}
    BY <2>1, <2>2, <2>3, <2>8 DEF Inv, Table
  <2>a. \A p \in DOMAIN pd : pd[p] = new \/ (p \in DOMAIN PD /\ pd[p] = PD[p])
    BY <2>1, <2>3
  <2>b. \A p \in DOMAIN pd :
           pd[p].state = "SUSPENDED" => pd[p].last_state \in {"READY", "SLEEPING"}
    BY <2>2, <2>a DEF Inv, Table
  <2>10. Table(pd, list)
    BY <2>3, <2>5, <2>7, <2>9, <2>b DEF Table
  <2>11. OnlyCurrentRuns(pd) /\ (mode = "boot" => NoneRuns(pd))
    BY <2>2, <2>a DEF Inv, OnlyCurrentRuns, NoneRuns
  <2>12. CallerRuns => (~SelfSuspend /\ mode = "task" => pd[Current_Process].state = "RUNNING")
    <3>1. mode = "task" => Current_Process \in 1..n
      BY <2>1 DEF Inv, ScanStart, Table
    <3> QED BY <3>1, <2>3 DEF CallerRuns, CurrentIsRunning
  <2>13. (IF stack THEN noErr ELSE "MALLOC_FAILED_ERR") \in Errors
    BY DEF Errors
  <2>14. Return(IF stack THEN noErr ELSE "MALLOC_FAILED_ERR", pd) /\ ProcessList' = list
    BY <1>4 DEF pd, list, new, Last_PID
  <2>15. DOMAIN PD \subseteq DOMAIN pd /\ Len(pd) <= MaxPid
    BY <2>1, <2>3
  <2> QED BY <2>8, <2>10, <2>11, <2>12, <2>13, <2>14, <2>15, ReturnKeepsInv
<1> QED BY <1>1, <1>2, <1>3, <1>4 DEF Kernel_Create_Task_Direct

-----------------------------------------------------------------------------
(* The task services, one lemma each.                                      *)

\* What holds whenever the running task makes a call.
LEMMA CallFacts ==
    ASSUME Inv, Running
    PROVE  /\ Table(PD, ProcessList) /\ OnlyCurrentRuns(PD)
           /\ Len(PD) \in Nat /\ DOMAIN PD = 1..Len(PD) /\ Len(PD) <= MaxPid
           /\ Current_Process \in Listed(ProcessList) /\ Current_Process \in DOMAIN PD
           /\ Last_Dispatched = Current_Process
           /\ Ticks_Since_Last_Cswitch \in Nat /\ Tick_Count \in UInts
           /\ mode \in {"boot", "task"} /\ mode # "boot" /\ ~(mode \in {"idle"})
<1>1. Len(PD) \in Nat /\ DOMAIN PD = 1..Len(PD)
  BY LenProperties DEF Inv, Table
<1> QED BY <1>1 DEF Inv, Running, ScanStart, VarTypes, Table

\* One descriptor is replaced.
LEMMA UpdateKeepsTable ==
    ASSUME NEW pd, NEW list, Table(pd, list), NEW p \in DOMAIN pd,
           NEW q \in Process, q.state = "DEAD" <=> pd[p].state = "DEAD",
           q.state = "SUSPENDED" => q.last_state \in {"READY", "SLEEPING"}
    PROVE  LET f == [pd EXCEPT ![p] = q]
           IN Table(f, list) /\ DOMAIN f = DOMAIN pd /\ Len(f) = Len(pd)
<1> DEFINE f == [pd EXCEPT ![p] = q]
<1>1. f = [r \in DOMAIN pd |-> f[r]]
  OBVIOUS
<1>2. ASSUME NEW r \in DOMAIN pd
      PROVE  /\ f[r] \in Process
             /\ f[r].state = "DEAD" <=> pd[r].state = "DEAD"
             /\ f[r].state = "SUSPENDED" => f[r].last_state \in {"READY", "SLEEPING"}
  <2>1. f[r] = IF r = p THEN q ELSE pd[r]
    OBVIOUS
  <2>2. pd[r] \in Process
    BY ElementOfSeq, LenProperties DEF Table
  <2> HIDE DEF f
  <2> QED BY <2>1, <2>2 DEF Table
<1> HIDE DEF f
<1>3. Table(f, list) /\ DOMAIN f = DOMAIN pd /\ Len(f) = Len(pd)
  BY <1>1, <1>2, TableKept
<1> QED BY <1>3 DEF f

\* Task_Suspend keeps the invariant, also when a task suspends itself.
LEMMA SuspendKeepsInv ==
    ASSUME Inv, NEW p \in Nat, Task_Suspend(p)
    PROVE  Inv'
<1>1. Running /\ UNCHANGED ProcessList /\ (p # Current_Process \/ SelfSuspend)
  BY DEF Task_Suspend
<1>2. CASE Return("OBJECT_NOT_FOUND_ERR", PD) \/ Return("UNPROCESSABLE_TASK_STATE_ERR", PD)
  BY <1>1, <1>2, CallFacts, RefusalKeepsInv DEF Errors
<1>3. CASE /\ p \in Listed(ProcessList)
           /\ Suspendable(p)
           /\ Return("NO_ERR", [PD EXCEPT ![p].state = "SUSPENDED",
                 ![p].last_state = IF PD[p].state = "RUNNING" THEN "READY" ELSE PD[p].state])
  <2> DEFINE was == IF PD[p].state = "RUNNING" THEN "READY" ELSE PD[p].state
             q   == [PD[p] EXCEPT !.state = "SUSPENDED", !.last_state = was]
             f   == [PD EXCEPT ![p] = q]
  <2>1. p \in DOMAIN PD /\ PD[p] \in Process /\ PD[p].state # "DEAD"
    BY <1>3, ElementOfSeq, LenProperties DEF Inv, Table
  <2>2. was \in {"READY", "SLEEPING"}
    BY <1>3 DEF Suspendable
  <2> HIDE DEF was
  <2>3. q \in Process /\ q.state = "SUSPENDED" /\ q.last_state = was
    BY <2>1, <2>2 DEF Process, States
  <2>4. Return("NO_ERR", f)
    BY <1>3, <2>1 DEF was, Process
  <2> HIDE DEF q
  <2>5. Table(f, ProcessList) /\ DOMAIN f = DOMAIN PD /\ Len(f) = Len(PD)
    BY <1>1, <2>1, <2>2, <2>3, CallFacts, UpdateKeepsTable
  <2>6. \A r \in DOMAIN PD : f[r] = IF r = p THEN q ELSE PD[r]
    OBVIOUS
  <2> HIDE DEF f
  <2>7. OnlyCurrentRuns(f)
    BY <2>3, <2>5, <2>6 DEF Inv, OnlyCurrentRuns
  <2>8. CallerRuns => (~SelfSuspend /\ mode = "task" => f[Current_Process].state = "RUNNING")
    BY <1>1, <2>6, CallFacts DEF CallerRuns, CurrentIsRunning
  <2> QED BY <1>1, <2>4, <2>5, <2>7, <2>8, CallFacts, ReturnKeepsInv DEF Errors
<1> QED BY <1>2, <1>3 DEF Task_Suspend

\* Task_Resume keeps the invariant: last_state is never RUNNING or DEAD.
LEMMA ResumeKeepsInv ==
    ASSUME Inv, NEW p \in Nat, Task_Resume(p)
    PROVE  Inv'
<1>1. Running /\ UNCHANGED ProcessList
  BY DEF Task_Resume
<1>2. CASE Return("OBJECT_NOT_FOUND_ERR", PD) \/ Return("UNPROCESSABLE_TASK_STATE_ERR", PD)
  BY <1>1, <1>2, CallFacts, RefusalKeepsInv DEF Errors
<1>3. CASE /\ p \in Listed(ProcessList)
           /\ PD[p].state = "SUSPENDED"
           /\ Return("NO_ERR", [PD EXCEPT ![p].last_state = "SUSPENDED",
                 ![p].state = IF PD[p].last_state = "RUNNING" THEN "READY"
                                                              ELSE PD[p].last_state])
  <2> DEFINE back == IF PD[p].last_state = "RUNNING" THEN "READY" ELSE PD[p].last_state
             q    == [PD[p] EXCEPT !.last_state = "SUSPENDED", !.state = back]
             f    == [PD EXCEPT ![p] = q]
  <2>1. p \in DOMAIN PD /\ PD[p] \in Process
    BY <1>3, ElementOfSeq, LenProperties DEF Inv, Table
  <2>2. back \in {"READY", "SLEEPING"}
    BY <1>3, <2>1 DEF Inv, Table
  <2> HIDE DEF back
  <2>3. q \in Process /\ q.state = back
    BY <2>1, <2>2 DEF Process, States
  <2>4. Return("NO_ERR", f)
    BY <1>3, <2>1 DEF back, Process
  <2> HIDE DEF q
  <2>5. Table(f, ProcessList) /\ DOMAIN f = DOMAIN PD /\ Len(f) = Len(PD)
    BY <1>1, <1>3, <2>1, <2>2, <2>3, CallFacts, UpdateKeepsTable
  <2>6. \A r \in DOMAIN PD : f[r] = IF r = p THEN q ELSE PD[r]
    OBVIOUS
  <2> HIDE DEF f
  <2>7. OnlyCurrentRuns(f)
    BY <2>2, <2>3, <2>5, <2>6 DEF Inv, OnlyCurrentRuns
  <2>8. CallerRuns => (~SelfSuspend /\ mode = "task" => f[Current_Process].state = "RUNNING")
    BY <1>1, <1>3, <2>6, CallFacts DEF CallerRuns, CurrentIsRunning
  <2> QED BY <1>1, <2>4, <2>5, <2>7, <2>8, CallFacts, ReturnKeepsInv DEF Errors
<1> QED BY <1>2, <1>3 DEF Task_Resume

\* A context switch on a table that has only the caller RUNNING, if anyone.
LEMMA SwitchKeepsInv ==
    ASSUME Inv, Running, UNCHANGED ProcessList,
           NEW pd, Table(pd, ProcessList), OnlyCurrentRuns(pd),
           DOMAIN pd = DOMAIN PD, Len(pd) = Len(PD), Switch("NO_ERR", pd)
    PROVE  Inv'
<1>1. Table(pd, ProcessList') /\ Kernel_Dispatch_Next_Task(pd, ProcessList', Last_Dispatched, Tick_Count)
  BY DEF Switch
<1>2. err' \in Errors
  BY DEF Switch, Errors
<1> QED BY <1>1, <1>2, CallFacts, DispatchEstablishesInv

\* Task_Sleep keeps the invariant: the caller is no longer RUNNING at the dispatch.
LEMMA SleepKeepsInv ==
    ASSUME Inv, NEW t \in SleepTicks, Task_Sleep(t)
    PROVE  Inv'
<1> DEFINE c == Current_Process
           q == [PD[c] EXCEPT !.request_timeout = t, !.state = "SLEEPING"]
           f == [PD EXCEPT ![c] = q]
<1>1. Running /\ UNCHANGED ProcessList
  BY DEF Task_Sleep
<1>2. c \in DOMAIN PD /\ PD[c] \in Process /\ PD[c].state # "DEAD"
  BY <1>1, CallFacts, ElementOfSeq DEF Table
<1>3. q \in Process /\ q.state = "SLEEPING"
  <2>1. t \in UInts
    BY EnvironmentAssumption DEF UInts
  <2> QED BY <1>2, <2>1 DEF Process, States
<1>4. Switch("NO_ERR", f)
  BY <1>2 DEF Task_Sleep, Process
<1> HIDE DEF q
<1>5. Table(f, ProcessList) /\ DOMAIN f = DOMAIN PD /\ Len(f) = Len(PD)
  BY <1>1, <1>2, <1>3, CallFacts, UpdateKeepsTable
<1>6. \A r \in DOMAIN PD : f[r] = IF r = c THEN q ELSE PD[r]
  OBVIOUS
<1> HIDE DEF f
<1>7. OnlyCurrentRuns(f)
  BY <1>5, <1>6 DEF Inv, OnlyCurrentRuns
<1> QED BY <1>1, <1>4, <1>5, <1>7, SwitchKeepsInv

\* Task_Yield keeps the invariant.
LEMMA YieldKeepsInv ==
    ASSUME Inv, Task_Yield
    PROVE  Inv'
  BY CallFacts, SwitchKeepsInv DEF Task_Yield

\* The caller leaves the table and the list: what remains is a table, and the
\* entry the scan starts from is on the list, or the list is empty.
LEMMA LeavingKeepsTable ==
    ASSUME Inv, Running, NEW i \in DOMAIN ProcessList, ProcessList[i] = Current_Process
    PROVE  LET f    == [PD EXCEPT ![Current_Process].state = "DEAD"]
               left == RemoveAt(ProcessList, i)
               last == LeftBehind(ProcessList, i)
           IN /\ Table(f, left) /\ OnlyCurrentRuns(f)
              /\ DOMAIN f = DOMAIN PD /\ Len(f) = Len(PD)
              /\ f[Current_Process] = [PD[Current_Process] EXCEPT !.state = "DEAD"]
              /\ \A p \in DOMAIN PD : p # Current_Process => f[p] = PD[p]
              /\ last \in {0} \cup DOMAIN PD /\ (left = <<>> \/ last \in Listed(left))
<1> DEFINE c    == Current_Process
           n    == Len(ProcessList)
           q    == [PD[c] EXCEPT !.state = "DEAD"]
           f    == [PD EXCEPT ![c] = q]
           left == RemoveAt(ProcessList, i)
           last == LeftBehind(ProcessList, i)
<1>3. /\ c \in DOMAIN PD /\ PD[c] \in Process
      /\ PD \in Seq(Process) /\ ProcessList \in Seq(DOMAIN PD)
      /\ n \in Nat /\ DOMAIN ProcessList = 1..n /\ i \in 1..n
  BY CallFacts, ElementOfSeq, LenProperties DEF Table
<1>4. q \in Process /\ q.state = "DEAD" /\ q.state # "RUNNING" /\ q.state # "SUSPENDED"
  BY <1>3 DEF Process, States
<1>5. [PD EXCEPT ![c].state = "DEAD"] = f
  BY <1>3 DEF Process
<1> HIDE DEF q
<1>6. f \in Seq(Process) /\ Len(f) = Len(PD) /\ DOMAIN f = DOMAIN PD
  BY <1>3, <1>4, ExceptSeq
<1>7. \A r \in DOMAIN PD : f[r] = IF r = c THEN q ELSE PD[r]
  OBVIOUS
<1>8. /\ left \in Seq(DOMAIN PD) /\ Len(left) = n - 1
      /\ \A j \in 1..(n - 1) : left[j] = IF j < i THEN ProcessList[j] ELSE ProcessList[j + 1]
  BY <1>3, RemoveAtFacts
<1>9. DOMAIN left = 1..(n - 1)
  BY <1>8, LenProperties
<1> HIDE DEF f, left
<1>b. /\ \A j, k \in DOMAIN left : left[j] = left[k] => j = k
      /\ Listed(left) = Listed(ProcessList) \ {c}
  <2>1. /\ \A j, k \in DOMAIN ProcessList : ProcessList[j] = ProcessList[k] => j = k
        /\ i \in 1..Len(ProcessList)
    BY <1>3 DEF Inv, Table
  <2> QED BY <1>3, <2>1, RemoveAtDistinct DEF Listed, left
<1>d. Listed(left) = {p \in DOMAIN f : f[p].state # "DEAD"}
  BY <1>3, <1>4, <1>6, <1>7, <1>b DEF Inv, Table
<1>e. \A p \in DOMAIN f : f[p].state = "SUSPENDED" => f[p].last_state \in {"READY", "SLEEPING"}
  BY <1>4, <1>6, <1>7 DEF Inv, Table
<1>f. Table(f, left)
  BY <1>6, <1>8, <1>b, <1>d, <1>e DEF Table
<1>g. OnlyCurrentRuns(f)
  BY <1>4, <1>6, <1>7 DEF Inv, OnlyCurrentRuns
<1>h. last \in {0} \cup DOMAIN f /\ (left = <<>> \/ last \in Listed(left))
  <2>1. CASE i > 1
    <3>1. i - 1 \in 1..(n - 1) /\ i - 1 < i
      BY <1>3, <2>1
    <3>2. left[i - 1] = ProcessList[i - 1]
      BY <1>8, <3>1
    <3>3. last = left[i - 1] /\ last \in Listed(left)
      BY <2>1, <3>1, <3>2, <1>9 DEF Listed, ToSet, LeftBehind
    <3> HIDE DEF last
    <3> QED BY <3>3, <1>d
  <2>2. CASE ~(i > 1) /\ left # <<>>
    <3>1. 1 \in DOMAIN left
      BY <2>2, <1>8, <1>9, <1>3, EmptySeq
    <3>2. last = left[1] /\ last \in Listed(left)
      BY <2>2, <3>1 DEF Listed, ToSet, LeftBehind, left
    <3> HIDE DEF last
    <3> QED BY <3>2, <1>d
  <2>3. CASE ~(i > 1) /\ left = <<>>
    BY <2>3 DEF LeftBehind, left
  <2> QED BY <2>1, <2>2, <2>3
<1> HIDE DEF last
<1>i. f[c] = [PD[c] EXCEPT !.state = "DEAD"] /\ \A p \in DOMAIN PD : p # c => f[p] = PD[p]
  BY <1>3, <1>7 DEF q
<1> QED BY <1>5, <1>6, <1>f, <1>g, <1>h, <1>i DEF left, last

\* Task_Terminate keeps the invariant.
LEMMA TerminateKeepsInv ==
    ASSUME Inv, Task_Terminate
    PROVE  Inv'
<1>1. Running /\ err' \in Errors
  BY DEF Task_Terminate, Errors
<1>2. PICK i \in DOMAIN ProcessList :
        /\ ProcessList[i] = Current_Process
        /\ ProcessList' = RemoveAt(ProcessList, i)
        /\ Kernel_Dispatch_Next_Task([PD EXCEPT ![Current_Process].state = "DEAD"],
               RemoveAt(ProcessList, i), LeftBehind(ProcessList, i), Tick_Count)
  BY DEF Task_Terminate
<1> DEFINE f    == [PD EXCEPT ![Current_Process].state = "DEAD"]
           last == LeftBehind(ProcessList, i)
<1>3. Kernel_Dispatch_Next_Task(f, ProcessList', last, Tick_Count)
  BY <1>2
<1>4. /\ Table(f, ProcessList') /\ OnlyCurrentRuns(f)
      /\ DOMAIN f = DOMAIN PD /\ Len(f) = Len(PD)
      /\ last \in {0} \cup DOMAIN f /\ (ProcessList' = <<>> \/ last \in Listed(ProcessList'))
  BY <1>1, <1>2, LeavingKeepsTable
<1> HIDE DEF f, last
<1>5. Len(f) <= MaxPid /\ Current_Process \in {0} \cup DOMAIN f /\ Tick_Count \in UInts
      /\ Ticks_Since_Last_Cswitch \in Nat
  BY <1>1, <1>4, CallFacts
<1> QED BY <1>1, <1>3, <1>4, <1>5, DispatchEstablishesInv

-----------------------------------------------------------------------------
(* The start, the timer interrupt and the idle loop.                       *)

\* The start ends in a dispatch from a process of the list, whatever the first of its
\* two dispatches selected.
LEMMA StartDispatches ==
    ASSUME Inv, OS_Start
    PROVE  /\ mode = "boot" /\ ProcessList' = ProcessList /\ err' \in Errors
           /\ Table(PD, ProcessList) /\ OnlyCurrentRuns(PD) /\ Tick_Count \in UInts
           /\ \E last \in Listed(ProcessList) :
                 Kernel_Dispatch_Next_Task(PD, ProcessList, last, Tick_Count)
<1>1. /\ mode = "boot" /\ ProcessList' = ProcessList /\ Len(ProcessList) > 0
      /\ err' \in {"NO_ERR", err}
      /\ \/ \E p \in FirstSelected : Kernel_Dispatch_Next_Task(PD, ProcessList, p, Tick_Count)
         \/ Kernel_Dispatch_Next_Task(PD, ProcessList, Last(ProcessList), Tick_Count)
  BY DEF OS_Start, Task_Count
<1>2. Len(ProcessList) \in 1..Len(ProcessList) /\ DOMAIN ProcessList = 1..Len(ProcessList)
  BY <1>1, LenProperties DEF Inv, Table
<1>3. Last(ProcessList) \in Listed(ProcessList)
  BY <1>2 DEF Last, Listed, ToSet
<1>4. \A p \in FirstSelected : p \in Listed(ProcessList)
  <2>1. ProcessList \in Seq(DOMAIN PD)
    BY DEF Inv, Table
  <2> QED BY <1>3, <2>1, SelectedIsReady DEF FirstSelected
<1>5. \E last \in Listed(ProcessList) :
         Kernel_Dispatch_Next_Task(PD, ProcessList, last, Tick_Count)
  BY <1>1, <1>3, <1>4
<1> QED BY <1>1, <1>5 DEF Inv, VarTypes, Errors

\* No process is RUNNING before the start.
LEMMA StartKeepsInv ==
    ASSUME Inv, OS_Start
    PROVE  Inv'
<1>1. /\ ProcessList' = ProcessList /\ err' \in Errors
      /\ Table(PD, ProcessList) /\ OnlyCurrentRuns(PD) /\ Tick_Count \in UInts
  BY StartDispatches
<1>2. PICK last \in Listed(ProcessList) :
        Kernel_Dispatch_Next_Task(PD, ProcessList, last, Tick_Count)
  BY StartDispatches
<1>3. last \in {0} \cup DOMAIN PD
  BY <1>1, <1>2 DEF Table
<1>4. /\ Len(PD) <= MaxPid /\ Ticks_Since_Last_Cswitch \in Nat
      /\ Current_Process \in {0} \cup DOMAIN PD
  BY DEF Inv, VarTypes
<1>5. /\ Table(PD, ProcessList') /\ last \in Listed(ProcessList')
      /\ Kernel_Dispatch_Next_Task(PD, ProcessList', last, Tick_Count)
  BY <1>1, <1>2
<1> QED BY <1>1, <1>3, <1>4, <1>5, DispatchEstablishesInv

\* A tick that only counts: the counter grows by one at most, and stays in step
\* with the age of the time slice.
LEMMA TickOnlyKeepsInv ==
    ASSUME Inv, TickOnly
    PROVE  Inv'
<1>1. Tick_Count \in Nat /\ Tick_Count' \in UInts /\ Tick_Count' <= Tick_Count + 1
  <2>1. Tick_Count \in Nat
    BY ConfigAssumption DEF Inv, VarTypes, UInts
  <2>2. Tick_Count + 1 \in Nat /\ Tick_Count' = (Tick_Count + 1) % UINT
    BY <2>1 DEF TickOnly
  <2> QED BY <2>1, <2>2, ModBounded
<1>2. Table(PD, ProcessList)' /\ OnlyCurrentRuns(PD)'
  BY DEF Inv, TickOnly, OnlyCurrentRuns
<1>3. mode' \in {"boot", "idle"} => NoneRuns(PD)'
  BY DEF Inv, TickOnly, NoneRuns
<1>4. VarTypes' /\ ScanStart' /\ CallerRuns'
  BY <1>1, ConfigAssumption
  DEF Inv, TickOnly, VarTypes, ScanStart, CallerRuns, CurrentIsRunning
<1>5. TicksAreCharged'
  <2>1. CASE mode = "task"
    BY <2>1, <1>1, ConfigAssumption, EnvironmentAssumption
    DEF Inv, VarTypes, TickOnly, SliceUsedUp, TicksAreCharged
  <2>2. CASE mode = "idle"
    BY <2>2, <1>1, ConfigAssumption, EnvironmentAssumption
    DEF Inv, VarTypes, TickOnly, TicksAreCharged, UInts
  <2> QED BY <2>1, <2>2 DEF TickOnly
<1> QED BY <1>2, <1>3, <1>4, <1>5 DEF Inv

\* A tick that ends the time slice.
LEMMA PreemptKeepsInv ==
    ASSUME Inv, Preempt
    PROVE  Inv'
<1>1. Running /\ err' \in Errors /\ ProcessList' = ProcessList
  BY DEF Preempt, Running, Errors
<1>2. (Tick_Count + 1) % UINT \in UInts
  <2>1. Tick_Count + 1 \in Int
    BY <1>1, CallFacts DEF UInts
  <2> QED BY <2>1, ModIsUInt
<1> DEFINE ticks == (Tick_Count + 1) % UINT
<1>3. Kernel_Dispatch_Next_Task(PD, ProcessList', Last_Dispatched, ticks)
  BY <1>1 DEF Preempt
<1> HIDE DEF ticks
<1>4. Table(PD, ProcessList') /\ Last_Dispatched \in {0} \cup DOMAIN PD
      /\ Last_Dispatched \in Listed(ProcessList') /\ ticks \in UInts
  BY <1>1, <1>2, CallFacts DEF ticks
<1> QED BY <1>1, <1>3, <1>4, CallFacts, DispatchEstablishesInv

\* The idle loop charges ticks ...
LEMMA IdlePollKeepsInv ==
    ASSUME Inv, IdlePoll
    PROVE  Inv'
<1>1. Table(PD, ProcessList) /\ NoneRuns(PD) /\ Tick_Count \in UInts
  BY DEF Inv, IdlePoll, VarTypes
<1>2. Table(PD', ProcessList) /\ NoneRuns(PD)' /\ DOMAIN PD' = DOMAIN PD /\ Len(PD') = Len(PD)
  <2> DEFINE pd == Kernel_Tick_Handler(PD, ProcessList, Tick_Count)
  <2>1. Table(pd, ProcessList) /\ NoneRuns(pd) /\ DOMAIN pd = DOMAIN PD /\ Len(pd) = Len(PD)
    BY <1>1, TickHandlerFacts
  <2>2. PD' = pd
    BY DEF IdlePoll
  <2> HIDE DEF pd
  <2> QED BY <2>1, <2>2 DEF NoneRuns
<1>3. OnlyCurrentRuns(PD)'
  BY <1>2 DEF OnlyCurrentRuns, NoneRuns
<1>4. VarTypes' /\ ScanStart' /\ CallerRuns' /\ TicksAreCharged'
  BY <1>2, ConfigAssumption, EnvironmentAssumption
  DEF Inv, IdlePoll, VarTypes, ScanStart, CallerRuns, CurrentIsRunning, TicksAreCharged, UInts
<1>5. ProcessList' = ProcessList
  BY DEF IdlePoll
<1> QED BY <1>2, <1>3, <1>4, <1>5 DEF Inv

\* ... and dispatches what became READY.
LEMMA IdleDispatchKeepsInv ==
    ASSUME Inv, IdleDispatch
    PROVE  Inv'
<1> DEFINE next == Kernel_Select_Next_Task(PD, ProcessList, Last_Dispatched)
<1>1. mode = "idle" /\ ProcessList' = ProcessList /\ Tick_Count' = Tick_Count /\ err' = err
  BY DEF IdleDispatch
<1>2. CASE \E p \in next : Run(PD, p)
  <2>1. PICK p \in next : Run(PD, p)
    BY <1>2
  <2>2. p \in Listed(ProcessList) /\ PD[p].state = "READY"
    <3>1. ProcessList \in Seq(DOMAIN PD) /\ Last_Dispatched \in Listed(ProcessList)
      BY <1>1 DEF Inv, Table, ScanStart
    <3> QED BY <2>1, <3>1, SelectedIsReady
  <2>3. /\ Table(PD, ProcessList') /\ NoneRuns(PD) /\ Len(PD) <= MaxPid
        /\ Tick_Count' \in UInts /\ Tick_Count' <= IdleLag /\ err' \in Errors
    BY <1>1 DEF Inv, VarTypes, TicksAreCharged
  <2>4. p \in Listed(ProcessList')
    BY <1>1, <2>2
  <2> QED BY <2>1, <2>2, <2>3, <2>4, RunEstablishesInv
<1>3. CASE mode' = "halted" /\ UNCHANGED <<PD, Current_Process, Last_Dispatched,
                                            Ticks_Since_Last_Cswitch>>
  BY <1>1, <1>3, HaltKeepsInv DEF sched
<1> QED BY <1>2, <1>3 DEF IdleDispatch

-----------------------------------------------------------------------------
(* The theorems.                                                           *)

\* The state after a reset satisfies the invariant.
LEMMA InitEstablishesInv == Init => Inv
<1> SUFFICES ASSUME Init PROVE Inv
  OBVIOUS
<1>1. Table(PD, ProcessList)
  BY DEF Init, Table, Listed, ToSet
<1> QED BY <1>1, ConfigAssumption, EnvironmentAssumption
        DEF Init, Inv, OnlyCurrentRuns, NoneRuns, VarTypes, ScanStart, CallerRuns,
            CurrentIsRunning, TicksAreCharged, UInts, Modes, Errors

\* Every action preserves the invariant.
LEMMA NextKeepsInv == Inv /\ [Next]_vars => Inv'
<1> SUFFICES ASSUME Inv, [Next]_vars PROVE Inv'
  OBVIOUS
<1>1. CASE CreateAtBoot
  <2>1. err \in Errors /\ mode \in {"boot", "task"} /\ Kernel_Create_Task_Direct(err)
    BY <1>1 DEF CreateAtBoot, Inv, VarTypes
  <2> QED BY <2>1, CreateKeepsInv
<1>2. CASE CallTooEarly
  BY <1>2, RefusalKeepsInv DEF CallTooEarly, Errors
<1>a. CASE OS_Start
  BY <1>a, StartKeepsInv
<1>3. CASE Task_Create
  <2>1. "NO_ERR" \in Errors /\ mode \in {"boot", "task"} /\ Kernel_Create_Task_Direct("NO_ERR")
    BY <1>3 DEF Task_Create, Running, Errors
  <2> QED BY <2>1, CreateKeepsInv
<1>4. CASE \E p \in 0..MaxPid : Task_Suspend(p) \/ Task_Resume(p)
  BY <1>4, EnvironmentAssumption, SuspendKeepsInv, ResumeKeepsInv
<1>5. CASE \E t \in SleepTicks : Task_Sleep(t)
  BY <1>5, SleepKeepsInv
<1>6. CASE Task_Yield
  BY <1>6, YieldKeepsInv
<1>7. CASE Task_Terminate
  BY <1>7, TerminateKeepsInv
<1>8. CASE TickOnly \/ Preempt
  BY <1>8, TickOnlyKeepsInv, PreemptKeepsInv
<1>9. CASE IdlePoll \/ IdleDispatch
  BY <1>9, IdlePollKeepsInv, IdleDispatchKeepsInv
<1>10. CASE UNCHANGED vars
  BY <1>10 DEF vars, sched, Inv, Table, OnlyCurrentRuns, NoneRuns, VarTypes, ScanStart,
               CallerRuns, CurrentIsRunning, TicksAreCharged
<1> QED BY <1>1, <1>2, <1>a, <1>3, <1>4, <1>5, <1>6, <1>7, <1>8, <1>9, <1>10
        DEF Next, SysCall, Kernel_Tick_ISR

\* The invariant holds in every reachable state.
THEOREM Invariance == Spec => []Inv
  BY InitEstablishesInv, NextKeepsInv, PTL DEF Spec

\* Every variable keeps its type, whatever the configuration, the tasks and
\* the outcome of malloc: the scheduler never refers to a process that does not
\* exist.
THEOREM TypeCorrect == Spec => []TypeOK
  BY Invariance, InvImplies, PTL

\* At most one process is RUNNING, and only while the processor executes it: no
\* path through the main loop dispatches a second one beside it.
THEOREM OneRunning == Spec => []AtMostOneRunning
  BY Invariance, InvImplies, PTL

\* The process list holds the live processes, each once, and the circular scan
\* always starts from one of them, also after Task_Terminate removed the entry
\* Last_Dispatched points to.
THEOREM ListCorrect == Spec => []ListIsLive
  BY Invariance, InvImplies, PTL

\* No more ticks are ever pending than a time slice and the lag of the idle loop
\* allow, so Tick_Count does not wrap when UINT is larger.
THEOREM TicksCharged == Spec => []TicksAreCharged
<1>1. Inv => TicksAreCharged
  BY DEF Inv
<1> QED BY <1>1, Invariance, PTL

\* As long as nobody suspends itself, whoever makes a system call is RUNNING.
THEOREM CallerIsRunning ==
    ASSUME ~SelfSuspend
    PROVE  Spec => []CurrentIsRunning
<1>1. Inv => CurrentIsRunning
  BY DEF Inv, CallerRuns
<1> QED BY <1>1, Invariance, PTL

-----------------------------------------------------------------------------
(* The scan.                                                               *)

\* The minimum principle for the natural numbers.
LEMMA LeastElement ==
    ASSUME NEW T, T \subseteq Nat, T # {}
    PROVE  \E n \in T : \A m \in T : n <= m
<1>1. PICK n \in T : \A m \in T : ~(<<m, n>> \in OpToRel(<, Nat))
  BY WFMin, NatLessThanWellFounded
<1>2. \A m \in T : m \in Nat /\ n \in Nat
  OBVIOUS
<1>3. ASSUME NEW m \in T PROVE n <= m
  <2>1. CASE m < n
    <3>1. <<m, n>> \in Nat \X Nat /\ <<m, n>>[1] < <<m, n>>[2]
      BY <1>2, <2>1
    <3>2. <<m, n>> \in OpToRel(<, Nat)
      BY <3>1 DEF OpToRel
    <3> QED BY <1>1, <3>2
  <2> QED BY <1>2, <2>1
<1> QED BY <1>3

\* Once around a circle of n places.
LEMMA CircleWraps ==
    ASSUME NEW n \in Nat \ {0}, NEW x \in Nat, x < 2 * n
    PROVE  x % n = IF x < n THEN x ELSE x - n
  OBVIOUS

\* The circular scan leaves nobody out, wherever it starts.
LEMMA ScanReachesAll ==
    ASSUME NEW S, NEW list \in Seq(S), NEW last \in Listed(list), NEW q \in Listed(list)
    PROVE  \E k \in 1..Len(list) : ScanOrder(list, last)[k] = q
<1> DEFINE n == Len(list)
           i == CHOOSE i \in 1..n : list[i] = last
<1>1. n \in Nat /\ DOMAIN list = 1..n
  BY LenProperties
<1>2. i \in 1..n
  BY <1>1 DEF Listed, ToSet
<1>3. PICK j \in 1..n : list[j] = q
  BY <1>1 DEF Listed, ToSet
<1>4. \A k \in 1..n : ScanOrder(list, last)[k] = list[((i + k - 1) % n) + 1]
  BY DEF ScanOrder
<1> HIDE DEF n, i
<1> DEFINE k == IF j > i THEN j - i ELSE j - i + n
<1>5. k \in 1..n
  BY <1>1, <1>2
<1>6. (i + k - 1) % n = j - 1
  <2> DEFINE x == i + k - 1
  <2>1. n \in Nat \ {0} /\ x \in Nat /\ x < 2 * n
    BY <1>1, <1>2, <1>5
  <2>2. (IF x < n THEN x ELSE x - n) = j - 1
    BY <1>1, <1>2
  <2> HIDE DEF x
  <2>3. x % n = j - 1
    BY <2>1, <2>2, CircleWraps
  <2> QED BY <2>3 DEF x
<1>7. ScanOrder(list, last)[k] = list[j]
  <2> HIDE DEF k
  <2> QED BY <1>1, <1>4, <1>5, <1>6
<1> QED BY <1>3, <1>5, <1>7 DEF n

\* Whoever is selected is starving, or nobody READY on the list has a higher
\* priority (a lower number).
LEMMA SelectedIsBest ==
    ASSUME NEW pd, NEW list, Table(pd, list), NEW last, list = <<>> \/ last \in Listed(list),
           NEW p \in Kernel_Select_Next_Task(pd, list, last)
    PROVE  \/ CountsAsStarving(pd[p])
           \/ \A q \in Listed(list) : pd[q].state = "READY" => pd[q].pri >= pd[p].pri
<1> DEFINE scan      == ScanOrder(list, last)
           improving == {k \in DOMAIN scan : Improves(pd, scan, k)}
           starving  == {k \in DOMAIN scan \ improving : CountsAsStarving(pd[scan[k]])}
<1>1. PICK k \in DOMAIN scan :
        /\ p = scan[k]
        /\ k \in IF starving # {} THEN {j \in starving : \A i \in starving : Keeps(pd, scan, j, i)}
                                  ELSE {j \in improving : \A i \in improving : i <= j}
  BY DEF Kernel_Select_Next_Task
<1>2. CASE starving # {}
  BY <1>1, <1>2
<1>3. CASE starving = {}
  <2>1. k \in improving /\ \A i \in improving : i <= k
    BY <1>1, <1>3
  <2>2. DOMAIN scan = 1..Len(list) /\ Len(list) \in Nat
    BY LenProperties DEF ScanOrder, Table
  <2>3. list # <<>> /\ last \in Listed(list) /\ list \in Seq(DOMAIN pd)
    BY <2>2, EmptySeq DEF Table
  <2>4. /\ \A i \in DOMAIN scan : scan[i] \in Listed(list)
        /\ \A q \in Listed(list) : \E i \in DOMAIN scan : scan[i] = q
    <3>1. \A i \in 1..Len(list) : ScanOrder(list, last)[i] \in Listed(list)
      BY <2>3, ScanListed
    <3>2. \A q \in Listed(list) : \E i \in 1..Len(list) : ScanOrder(list, last)[i] = q
      BY <2>3, ScanReachesAll
    <3> QED BY <2>2, <3>1, <3>2
  <2>5. \A q \in Listed(list) : pd[q].pri \in Nat
    <3>1. \A q \in DOMAIN pd : pd[q] \in Process
      BY ElementOfSeq, LenProperties DEF Table
    <3>2. Listed(list) \subseteq DOMAIN pd
      BY DEF Table
    <3> QED BY <3>1, <3>2 DEF Process
  <2>6. /\ \A i \in DOMAIN scan : i \in improving <=> Improves(pd, scan, i)
        /\ improving \subseteq DOMAIN scan
    OBVIOUS
  <2> HIDE DEF scan, improving, starving
  <2> DEFINE better == {i \in DOMAIN scan : pd[scan[i]].state = "READY" /\ pd[scan[i]].pri < pd[p].pri}
  <2>7. better = {}
    <3> SUFFICES ASSUME better # {} PROVE FALSE
      OBVIOUS
    <3>1. PICK i \in better : \A j \in better : i <= j
      <4>1. better \subseteq Nat
        BY <2>2
      <4> HIDE DEF better
      <4> QED BY <4>1, LeastElement
    <3>2. i \in DOMAIN scan /\ pd[scan[i]].state = "READY" /\ pd[scan[i]].pri < pd[p].pri
      BY <3>1
    <3>3. /\ pd[p].pri <= LOWEST_PRIORITY
          /\ \A j \in 1..(k - 1) : pd[scan[j]].state = "READY" => pd[scan[j]].pri > pd[p].pri
      BY <1>1, <2>1, <2>6 DEF Improves
    <3>4. pd[p].pri \in Nat /\ \A j \in DOMAIN scan : pd[scan[j]].pri \in Nat
      BY <1>1, <2>4, <2>5
    <3>5. i > k
      <4>1. i \in Nat /\ k \in Nat /\ i >= 1 /\ k >= 1
        BY <2>2, <3>2
      <4>2. i \notin 1..(k - 1)
        BY <3>2, <3>3, <3>4
      <4>3. i # k
        BY <1>1, <3>2, <3>4
      <4> QED BY <4>1, <4>2, <4>3
    <3>6. ASSUME NEW j \in 1..(i - 1), pd[scan[j]].state = "READY"
          PROVE  pd[scan[j]].pri > pd[scan[i]].pri
      <4>1. j \in DOMAIN scan /\ ~(i <= j)
        BY <2>2, <3>2
      <4>2. ~(pd[scan[j]].pri < pd[p].pri)
        BY <3>1, <3>6, <4>1
      <4> QED BY <3>2, <3>4, <4>1, <4>2
    <3>7. pd[scan[i]].pri <= LOWEST_PRIORITY
      BY <3>2, <3>3, <3>4, ConfigAssumption
    <3>8. i \in improving
      BY <2>6, <3>2, <3>6, <3>7 DEF Improves
    <3>9. i <= k /\ i \in Nat /\ k \in Nat
      BY <2>1, <2>2, <3>2, <3>8
    <3> QED BY <3>5, <3>9
  <2>8. ASSUME NEW q \in Listed(list), pd[q].state = "READY"
        PROVE  pd[q].pri >= pd[p].pri
    <3>1. PICK i \in DOMAIN scan : scan[i] = q
      BY <2>4
    <3>2. i \notin better
      BY <2>7
    <3>3. ~(pd[q].pri < pd[p].pri)
      BY <2>8, <3>1, <3>2
    <3>4. pd[q].pri \in Nat /\ pd[p].pri \in Nat
      BY <1>1, <2>4, <2>5
    <3> QED BY <3>3, <3>4
  <2> QED BY <2>8
<1> QED BY <1>2, <1>3

-----------------------------------------------------------------------------
(* The dispatch.                                                           *)

\* What a dispatch owes, when the counters were those of pd and ticks pending.
Justified(pd, ticks) ==
    LET next == Current_Process'
    IN \/ \A p \in Listed(ProcessList') : PD'[p].state = "READY" => PD'[p].pri >= PD'[next].pri
       \/ PREVENT_STARVATION /\ pd[next].starvation_ticks + ticks >= STARVATION_MAX

\* Running the selected process.
LEMMA RunIsJustified ==
    ASSUME NEW pd, Table(pd, ProcessList'), NEW last,
           ProcessList' = <<>> \/ last \in Listed(ProcessList'),
           NEW p \in Kernel_Select_Next_Task(pd, ProcessList', last), Run(pd, p)
    PROVE  Justified(pd, 0) /\ Current_Process' = p /\ p \in DOMAIN pd
<1>1. p \in Listed(ProcessList') /\ p \in DOMAIN pd /\ pd[p] \in Process
  <2>1. ProcessList' \in Seq(DOMAIN pd)
    BY DEF Table
  <2>2. p \in Listed(ProcessList')
    BY <2>1, SelectedIsReady
  <2> QED BY <2>2, ElementOfSeq, LenProperties DEF Table
<1>2. /\ Current_Process' = p
      /\ PD'[p].state = "RUNNING" /\ PD'[p].pri = pd[p].pri
      /\ \A q \in DOMAIN pd : q # p => PD'[q] = pd[q]
  BY <1>1 DEF Run, Process
<1>3. CASE CountsAsStarving(pd[p])
  <2>1. PREVENT_STARVATION /\ pd[p].starvation_ticks >= STARVATION_MAX
    BY <1>3 DEF CountsAsStarving
  <2>2. pd[p].starvation_ticks \in Nat
    BY <1>1, ConfigAssumption DEF Process, UInts
  <2>3. pd[p].starvation_ticks + 0 = pd[p].starvation_ticks
    BY <2>2
  <2> QED BY <1>1, <1>2, <2>1, <2>3 DEF Justified
<1>4. CASE \A q \in Listed(ProcessList') : pd[q].state = "READY" => pd[q].pri >= pd[p].pri
  <2>1. \A q \in Listed(ProcessList') : q \in DOMAIN pd
    BY DEF Table
  <2> QED BY <1>1, <1>2, <1>4, <2>1 DEF Justified
<1> QED BY <1>3, <1>4, SelectedIsBest

\* Charging ticks leaves the priority, and lets nobody starve for longer.
LEMMA ChargeTicksStarves ==
    ASSUME NEW p \in Process, NEW ticks \in UInts
    PROVE  LET q == ChargeTicks(p, ticks)
           IN q.pri = p.pri /\ q.starvation_ticks \in Nat /\ q.starvation_ticks <= p.starvation_ticks + ticks
<1> DEFINE starved == IF PREVENT_STARVATION /\ p.state = "READY"
                      THEN (p.starvation_ticks + ticks) % UINT
                      ELSE p.starvation_ticks
           left    == IF p.request_timeout = 0 THEN 0 ELSE TimeLeft(p, ticks)
           charged == [p EXCEPT !.starvation_ticks = starved, !.request_timeout = left]
<1>1. starved \in Nat /\ starved <= p.starvation_ticks + ticks
  <2>1. p.starvation_ticks \in Nat /\ ticks \in Nat /\ p.starvation_ticks + ticks \in Nat
    BY ConfigAssumption DEF Process, UInts
  <2>2. /\ (p.starvation_ticks + ticks) % UINT \in Nat
        /\ (p.starvation_ticks + ticks) % UINT <= p.starvation_ticks + ticks
    BY <2>1, ModBounded DEF UInts
  <2> QED BY <2>1, <2>2
<1>2. ChargeTicks(p, ticks) = charged \/ ChargeTicks(p, ticks) = Expired(charged)
  BY DEF ChargeTicks
<1> HIDE DEF starved, left
<1>3. charged.pri = p.pri /\ charged.starvation_ticks = starved
  BY DEF Process
<1>4. Expired(charged).pri = p.pri /\ Expired(charged).starvation_ticks = starved
  BY DEF Process, Expired
<1> HIDE DEF charged
<1> QED BY <1>1, <1>2, <1>3, <1>4

\* A dispatch, whoever asked for it.
LEMMA DispatchIsJustified ==
    ASSUME NEW pd, Table(pd, ProcessList'), OnlyCurrentRuns(pd), NEW last,
           ProcessList' = <<>> \/ last \in Listed(ProcessList'), NEW ticks \in UInts,
           Kernel_Dispatch_Next_Task(pd, ProcessList', last, ticks), mode' = "task"
    PROVE  Justified(pd, ticks) /\ Current_Process' \in DOMAIN pd
<1> DEFINE charged == Kernel_Tick_Handler(Demote(pd), ProcessList', ticks)
           next    == Kernel_Select_Next_Task(charged, ProcessList', last)
<1>1. /\ Table(Demote(pd), ProcessList') /\ NoneRuns(Demote(pd))
      /\ DOMAIN Demote(pd) = DOMAIN pd
  BY DemoteFacts
<1>2. Table(charged, ProcessList') /\ DOMAIN charged = DOMAIN pd
  BY <1>1, TickHandlerFacts
<1>3. PICK p \in next : Run(charged, p)
  BY DEF Kernel_Dispatch_Next_Task
<1>4. ASSUME NEW q \in DOMAIN pd
      PROVE  /\ charged[q].starvation_ticks \in Nat /\ ticks \in Nat
             /\ pd[q].starvation_ticks \in Nat
             /\ charged[q].starvation_ticks <= pd[q].starvation_ticks + ticks
  <2> DEFINE d == Demote(pd)[q]
  <2>1. pd[q] \in Process /\ d \in Process
    BY <1>1, ElementOfSeq, LenProperties DEF Table
  <2>2. d.starvation_ticks = pd[q].starvation_ticks
    BY <2>1 DEF Demote, Process
  <2>3. charged[q] = d \/ charged[q] = ChargeTicks(d, ticks)
    BY <1>1 DEF Kernel_Tick_Handler
  <2>4. ticks \in Nat /\ d.starvation_ticks \in Nat
    BY <2>1, ConfigAssumption DEF Process, UInts
  <2> HIDE DEF d, charged
  <2> QED BY <2>1, <2>2, <2>3, <2>4, ChargeTicksStarves
<1> HIDE DEF charged
<1>5. Justified(charged, 0) /\ Current_Process' = p /\ p \in DOMAIN pd
  BY <1>2, <1>3, RunIsJustified
<1>6. CASE charged[p].starvation_ticks + 0 >= STARVATION_MAX /\ PREVENT_STARVATION
  <2>1. pd[p].starvation_ticks + ticks >= STARVATION_MAX
    BY <1>4, <1>5, <1>6, ConfigAssumption
  <2> QED BY <1>5, <1>6, <2>1 DEF Justified
<1> QED BY <1>5, <1>6 DEF Justified

-----------------------------------------------------------------------------
(* Every step.                                                             *)

ByPriority ==
    LET next == Current_Process'
    IN \/ \A p \in Listed(ProcessList') : PD'[p].state = "READY" => PD'[p].pri >= PD'[next].pri
       \/ PREVENT_STARVATION /\ PD[next].starvation_ticks + Tick_Count + 1 >= STARVATION_MAX

\* The counters are those before the step, and one tick may come with it.
LEMMA JustifiedIsByPriority ==
    ASSUME Inv, NEW pd, NEW ticks \in Nat, ticks <= Tick_Count + 1,
           Current_Process' \in DOMAIN PD,
           pd[Current_Process'].starvation_ticks = PD[Current_Process'].starvation_ticks,
           Justified(pd, ticks)
    PROVE  ByPriority
<1>1. /\ Tick_Count \in Nat /\ PD[Current_Process'].starvation_ticks \in Nat
      /\ STARVATION_MAX \in Nat
  <2>1. PD[Current_Process'] \in Process
    BY ElementOfSeq, LenProperties DEF Inv, Table
  <2> QED BY <2>1, ConfigAssumption DEF Inv, VarTypes, Process, UInts
<1> QED BY <1>1 DEF Justified, ByPriority

\* A call that switches from pd, which differs from PD in what the caller asked for.
LEMMA SwitchIsByPriority ==
    ASSUME Inv, mode' = "task",
           NEW pd, Table(pd, ProcessList'), OnlyCurrentRuns(pd), DOMAIN pd = DOMAIN PD,
           \A p \in DOMAIN PD : pd[p].starvation_ticks = PD[p].starvation_ticks,
           NEW last, ProcessList' = <<>> \/ last \in Listed(ProcessList'),
           NEW ticks \in UInts, ticks <= Tick_Count + 1,
           Kernel_Dispatch_Next_Task(pd, ProcessList', last, ticks)
    PROVE  ByPriority
<1>1. Justified(pd, ticks) /\ Current_Process' \in DOMAIN PD
  BY DispatchIsJustified
<1>2. ticks \in Nat
  BY ConfigAssumption DEF UInts
<1> QED BY <1>1, <1>2, JustifiedIsByPriority

\* A step that leaves the scheduler variables alone dispatches nobody.
LEMMA NoDispatch ==
    ASSUME UNCHANGED <<sched, mode>>
    PROVE  ~Dispatched
  BY DEF Dispatched, sched

\* A creation does not switch.
LEMMA CreateDispatchesNobody ==
    ASSUME NEW noErr, Kernel_Create_Task_Direct(noErr)
    PROVE  ~Dispatched
<1>1. CASE WriteThroughNull
  BY <1>1 DEF WriteThroughNull, Dispatched
<1>2. CASE ~WriteThroughNull
  BY <1>2, NoDispatch DEF Kernel_Create_Task_Direct, Return
<1> QED BY <1>1, <1>2

LEMMA StepIsByPriority ==
    ASSUME Inv, [Next]_vars, Dispatched
    PROVE  ByPriority
<1>0. /\ mode' = "task" /\ Table(PD, ProcessList) /\ Tick_Count \in UInts /\ Tick_Count \in Nat
      /\ OnlyCurrentRuns(PD)
  BY ConfigAssumption DEF Inv, VarTypes, Dispatched, UInts
<1>1. CASE CreateAtBoot \/ CallTooEarly \/ Task_Create
  BY <1>1, NoDispatch, CreateDispatchesNobody DEF CreateAtBoot, CallTooEarly, Task_Create, Return
<1>2. CASE \E p \in 0..MaxPid : Task_Suspend(p) \/ Task_Resume(p)
  BY <1>2, NoDispatch DEF Task_Suspend, Task_Resume, Return
<1>3. CASE OS_Start
  <2>1. UNCHANGED ProcessList
    BY <1>3, StartDispatches
  <2>2. PICK last \in Listed(ProcessList) :
          Kernel_Dispatch_Next_Task(PD, ProcessList, last, Tick_Count)
    BY <1>3, StartDispatches
  <2>3. /\ Kernel_Dispatch_Next_Task(PD, ProcessList', last, Tick_Count)
        /\ last \in Listed(ProcessList') /\ Tick_Count <= Tick_Count + 1
    BY <1>0, <2>1, <2>2
  <2> QED BY <1>0, <2>1, <2>3, SwitchIsByPriority
<1>4. ASSUME NEW t \in SleepTicks, Task_Sleep(t)
      PROVE  ByPriority
  <2> DEFINE c == Current_Process
             q == [PD[c] EXCEPT !.request_timeout = t, !.state = "SLEEPING"]
             f == [PD EXCEPT ![c] = q]
  <2>1. /\ Running /\ UNCHANGED ProcessList
        /\ c \in DOMAIN PD /\ PD[c] \in Process /\ PD[c].state # "DEAD"
        /\ Last_Dispatched \in Listed(ProcessList)
    <3>1. Running /\ UNCHANGED ProcessList
      BY <1>4 DEF Task_Sleep
    <3> QED BY <3>1, CallFacts, ElementOfSeq DEF Table
  <2>2. q \in Process /\ q.state = "SLEEPING" /\ q.starvation_ticks = PD[c].starvation_ticks
    <3>1. t \in UInts
      BY EnvironmentAssumption DEF UInts
    <3> QED BY <2>1, <3>1 DEF Process, States
  <2>3. Kernel_Dispatch_Next_Task(f, ProcessList', Last_Dispatched, Tick_Count)
    BY <1>4, <2>1 DEF Task_Sleep, Switch, Process
  <2> HIDE DEF q
  <2>4. Table(f, ProcessList) /\ DOMAIN f = DOMAIN PD
    BY <1>0, <2>1, <2>2, UpdateKeepsTable
  <2>5. \A r \in DOMAIN PD : f[r] = IF r = c THEN q ELSE PD[r]
    OBVIOUS
  <2> HIDE DEF f
  <2>6. OnlyCurrentRuns(f) /\ \A r \in DOMAIN PD : f[r].starvation_ticks = PD[r].starvation_ticks
    BY <1>0, <2>2, <2>4, <2>5 DEF OnlyCurrentRuns
  <2> QED BY <1>0, <2>1, <2>3, <2>4, <2>6, SwitchIsByPriority
<1>5. CASE Task_Yield
  <2>1. Running /\ UNCHANGED ProcessList /\ Last_Dispatched \in Listed(ProcessList)
    BY <1>5, CallFacts DEF Task_Yield
  <2> QED BY <1>0, <1>5, <2>1, SwitchIsByPriority DEF Task_Yield, Switch
<1>6. CASE Task_Terminate
  <2> DEFINE f == [PD EXCEPT ![Current_Process].state = "DEAD"]
  <2>1. PICK i \in DOMAIN ProcessList :
          /\ ProcessList[i] = Current_Process
          /\ ProcessList' = RemoveAt(ProcessList, i)
          /\ Kernel_Dispatch_Next_Task(f, ProcessList', LeftBehind(ProcessList, i), Tick_Count)
    BY <1>6 DEF Task_Terminate
  <2>2. Running
    BY <1>6 DEF Task_Terminate
  <2>3. /\ Table(f, ProcessList') /\ OnlyCurrentRuns(f) /\ DOMAIN f = DOMAIN PD
        /\ ProcessList' = <<>> \/ LeftBehind(ProcessList, i) \in Listed(ProcessList')
    BY <2>1, <2>2, LeavingKeepsTable
  <2>4. \A p \in DOMAIN PD : f[p].starvation_ticks = PD[p].starvation_ticks
    <3>1. \A p \in DOMAIN PD : PD[p] \in Process
      BY <1>0, ElementOfSeq, LenProperties DEF Table
    <3> QED BY <3>1 DEF Process
  <2> DEFINE last == LeftBehind(ProcessList, i)
  <2>5. Tick_Count <= Tick_Count + 1
    BY <1>0
  <2>6. /\ Kernel_Dispatch_Next_Task(f, ProcessList', last, Tick_Count)
        /\ ProcessList' = <<>> \/ last \in Listed(ProcessList')
    BY <2>1, <2>3
  <2> HIDE DEF f, last
  <2> QED BY <1>0, <2>3, <2>4, <2>5, <2>6, SwitchIsByPriority
<1>7. CASE TickOnly
  BY <1>7, <1>0 DEF TickOnly, Dispatched, Inv, VarTypes
<1>8. CASE Preempt
  <2> DEFINE ticks == (Tick_Count + 1) % UINT
  <2>1. Running /\ UNCHANGED ProcessList /\ Last_Dispatched \in Listed(ProcessList)
    BY <1>8, CallFacts DEF Preempt, Running
  <2>2. ticks \in UInts /\ ticks <= Tick_Count + 1
    BY <1>0, ModBounded
  <2>3. Kernel_Dispatch_Next_Task(PD, ProcessList', Last_Dispatched, ticks)
    BY <1>8, <2>1 DEF Preempt
  <2> HIDE DEF ticks
  <2> QED BY <1>0, <2>1, <2>2, <2>3, SwitchIsByPriority
<1>9. CASE IdlePoll
  BY <1>9 DEF IdlePoll, Dispatched
<1>10. CASE IdleDispatch
  <2>1. PICK p \in Kernel_Select_Next_Task(PD, ProcessList', Last_Dispatched) : Run(PD, p)
    BY <1>0, <1>10 DEF IdleDispatch
  <2>2. Table(PD, ProcessList') /\ Last_Dispatched \in Listed(ProcessList')
    BY <1>0, <1>10 DEF IdleDispatch, Inv, ScanStart
  <2>3. Justified(PD, 0) /\ Current_Process' \in DOMAIN PD
    BY <2>1, <2>2, RunIsJustified
  <2>4. 0 \in Nat /\ 0 <= Tick_Count + 1
    BY <1>0
  <2> QED BY <2>3, <2>4, JustifiedIsByPriority
<1>11. CASE UNCHANGED vars
  BY <1>11, NoDispatch DEF vars
<1> QED BY <1>1, <1>2, <1>3, <1>4, <1>5, <1>6, <1>7, <1>8, <1>9, <1>10, <1>11
        DEF Next, SysCall, Kernel_Tick_ISR

\* A READY process never waits behind one of lower priority, unless that one has
\* starved for STARVATION_MAX ticks: for any number of tasks, in whatever state the
\* interrupt, a call or the idle loop finds them, and wherever the scan starts.
THEOREM PriorityRespected == Spec => PriorityUnlessStarving
<1>1. Inv /\ [Next]_vars => [Dispatched => ByPriority]_vars
  BY StepIsByPriority
<1> QED BY <1>1, Invariance, PTL DEF Spec, PriorityUnlessStarving, ByPriority

-----------------------------------------------------------------------------
(* When the dispatcher finds nobody.                                       *)

\* Kernel_Select_Next_Task returns NULL only when no READY process of the list has a
\* priority in range or is starving: one of them is first in the scan, and one of the
\* starving has the least count.
LEMMA SomebodyIsSelected ==
    ASSUME NEW pd, NEW list, Table(pd, list), NEW last \in Listed(list),
           Kernel_Select_Next_Task(pd, list, last) = {},
           NEW q \in Listed(list), pd[q].state = "READY"
    PROVE  pd[q].pri > LOWEST_PRIORITY /\ ~CountsAsStarving(pd[q])
<1> DEFINE scan      == ScanOrder(list, last)
           improving == {k \in DOMAIN scan : Improves(pd, scan, k)}
           starving  == {k \in DOMAIN scan \ improving : CountsAsStarving(pd[scan[k]])}
           count(k)  == pd[scan[k]].starvation_ticks
<1>1. IF starving # {} THEN {k \in starving : \A j \in starving : Keeps(pd, scan, k, j)} = {}
                       ELSE {k \in improving : \A j \in improving : j <= k} = {}
  BY DEF Kernel_Select_Next_Task
<1>2. list \in Seq(DOMAIN pd) /\ Listed(list) \subseteq DOMAIN pd /\ Len(list) \in Nat
  BY LenProperties DEF Table
<1>3. /\ DOMAIN scan = 1..Len(list)
      /\ \A k \in 1..Len(list) : scan[k] \in Listed(list)
  BY <1>2, ScanListed
<1>4. PICK i \in 1..Len(list) : scan[i] = q
  BY <1>2, ScanReachesAll
<1>5. \A k \in 1..Len(list) : pd[scan[k]].pri \in Nat /\ count(k) \in Nat
  <2>1. \A p \in DOMAIN pd : pd[p].pri \in Nat /\ pd[p].starvation_ticks \in Nat
    <3>1. \A p \in DOMAIN pd : pd[p] \in Process
      BY ElementOfSeq, LenProperties DEF Table
    <3> QED BY <3>1, ConfigAssumption DEF Process, UInts
  <2> HIDE DEF scan
  <2> QED BY <1>2, <1>3, <2>1
<1>6. /\ \A k \in 1..Len(list) : k \in improving <=> Improves(pd, scan, k)
      /\ \A k \in 1..Len(list) :
            k \in starving <=> k \notin improving /\ CountsAsStarving(pd[scan[k]])
      /\ improving \subseteq 1..Len(list) /\ starving \subseteq 1..Len(list)
  BY <1>3
<1> HIDE DEF scan, improving, starving, count
<1>7. starving = {}
  <2> SUFFICES ASSUME starving # {} PROVE FALSE
    OBVIOUS
  <2> DEFINE counts == {count(k) : k \in starving}
  <2>1. PICK c \in counts : \A d \in counts : c <= d
    <3>1. counts \subseteq Nat /\ counts # {}
      BY <1>5, <1>6
    <3> HIDE DEF counts
    <3> QED BY <3>1, LeastElement
  <2> DEFINE tied == {k \in starving : count(k) = c}
  <2>2. PICK k \in tied : \A j \in tied : k <= j
    <3>1. tied \subseteq Nat /\ tied # {}
      BY <1>2, <1>6, <2>1
    <3> HIDE DEF tied
    <3> QED BY <3>1, LeastElement
  <2>3. k \in starving /\ count(k) = c /\ k \in Nat
    BY <1>2, <1>6, <2>2
  <2>4. ASSUME NEW j \in starving
        PROVE  Keeps(pd, scan, k, j)
    <3>1. c <= count(j) /\ count(j) \in Nat /\ c \in Nat /\ j \in Nat
      BY <1>2, <1>5, <1>6, <2>1, <2>3, <2>4
    <3>2. CASE j < k
      <4>1. count(j) # c
        BY <2>2, <2>3, <2>4, <3>1, <3>2
      <4>2. count(j) > count(k)
        BY <2>3, <3>1, <4>1
      <4> QED BY <3>2, <4>2 DEF Keeps, count
    <3>3. CASE ~(j < k)
      <4>1. count(j) >= count(k)
        BY <2>3, <3>1
      <4> QED BY <3>3, <4>1 DEF Keeps, count
    <3> QED BY <3>2, <3>3
  <2> QED BY <1>1, <2>3, <2>4
<1>8. improving = {}
  <2> SUFFICES ASSUME improving # {} PROVE FALSE
    OBVIOUS
  <2> DEFINE rest == {Len(list) - k : k \in improving}
  <2>1. PICK m \in rest : \A n \in rest : m <= n
    <3>1. \A k \in improving : Len(list) - k \in Nat
      BY <1>2, <1>6
    <3>2. rest \subseteq Nat /\ rest # {}
      BY <3>1
    <3> HIDE DEF rest
    <3> QED BY <3>2, LeastElement
  <2>2. PICK k \in improving : m = Len(list) - k
    BY <2>1
  <2>3. \A j \in improving : j <= k
    <3> SUFFICES ASSUME NEW j \in improving PROVE j <= k
      OBVIOUS
    <3>1. Len(list) - k <= Len(list) - j
      BY <2>1, <2>2
    <3>2. j \in Nat /\ k \in Nat
      BY <1>2, <1>6
    <3> QED BY <1>2, <3>1, <3>2
  <2> QED BY <1>1, <1>7, <2>3
<1>9. ~CountsAsStarving(pd[q])
  BY <1>4, <1>6, <1>7, <1>8
<1>10. pd[q].pri > LOWEST_PRIORITY
  <2> SUFFICES ASSUME ~(pd[q].pri > LOWEST_PRIORITY) PROVE FALSE
    OBVIOUS
  <2> DEFINE inRange == {k \in 1..Len(list) : pd[scan[k]].state = "READY"
                                              /\ pd[scan[k]].pri <= LOWEST_PRIORITY}
  <2>1. PICK k \in inRange : \A j \in inRange : k <= j
    <3>1. i \in inRange
      BY <1>4, <1>5, ConfigAssumption
    <3>2. inRange \subseteq Nat
      BY <1>2
    <3> HIDE DEF inRange
    <3> QED BY <3>1, <3>2, LeastElement
  <2>2. k \in 1..Len(list) /\ pd[scan[k]].state = "READY" /\ pd[scan[k]].pri <= LOWEST_PRIORITY
    BY <2>1
  <2>3. ASSUME NEW j \in 1..(k - 1), pd[scan[j]].state = "READY"
        PROVE  pd[scan[j]].pri > pd[scan[k]].pri
    <3>1. j \in 1..Len(list) /\ ~(k <= j)
      BY <1>2, <2>2
    <3>2. ~(pd[scan[j]].pri <= LOWEST_PRIORITY)
      BY <2>1, <2>3, <3>1
    <3> QED BY <1>5, <2>2, <3>1, <3>2, ConfigAssumption
  <2> QED BY <1>6, <1>8, <2>2, <2>3 DEF Improves
<1> QED BY <1>9, <1>10

\* Every process that was created has a stack.
AllStacks(pd) == \A p \in DOMAIN pd : pd[p].stack

\* A charge leaves the stack where it is.
LEMMA ChargeTicksKeepsStack ==
    ASSUME NEW p \in Process, NEW ticks
    PROVE  ChargeTicks(p, ticks).stack = p.stack
<1> DEFINE starved == IF PREVENT_STARVATION /\ p.state = "READY"
                      THEN (p.starvation_ticks + ticks) % UINT
                      ELSE p.starvation_ticks
           left    == IF p.request_timeout = 0 THEN 0 ELSE TimeLeft(p, ticks)
           charged == [p EXCEPT !.starvation_ticks = starved, !.request_timeout = left]
<1>1. ChargeTicks(p, ticks) = charged \/ ChargeTicks(p, ticks) = Expired(charged)
  BY DEF ChargeTicks
<1> HIDE DEF starved, left
<1>2. charged.stack = p.stack /\ Expired(charged).stack = p.stack
  BY DEF Process, Expired
<1> HIDE DEF charged
<1> QED BY <1>1, <1>2

LEMMA TickHandlerKeepsStacks ==
    ASSUME NEW pd, NEW list, Table(pd, list), AllStacks(pd), NEW ticks
    PROVE  AllStacks(Kernel_Tick_Handler(pd, list, ticks))
<1>1. \A p \in DOMAIN pd : pd[p] \in Process
  BY ElementOfSeq, LenProperties DEF Table
<1> QED BY <1>1, ChargeTicksKeepsStack DEF AllStacks, Kernel_Tick_Handler

\* With every stack in place, a dispatch jumps to a task or idles, unless the list
\* is empty.
LEMMA DispatchFindsStack ==
    ASSUME NEW pd, Table(pd, ProcessList'), OnlyCurrentRuns(pd), AllStacks(pd), NEW last,
           ProcessList' = <<>> \/ last \in Listed(ProcessList'), NEW ticks \in UInts,
           Kernel_Dispatch_Next_Task(pd, ProcessList', last, ticks)
    PROVE  AllStacks(PD)' /\ (mode' = "halted" => ProcessList' = <<>>)
<1> DEFINE demoted == Demote(pd)
           charged == Kernel_Tick_Handler(demoted, ProcessList', ticks)
           next    == Kernel_Select_Next_Task(charged, ProcessList', last)
<1>1. \/ \E p \in next : Run(charged, p)
      \/ PD' = charged /\ mode' = IF ProcessList' = <<>> THEN "halted" ELSE "idle"
  BY DEF Kernel_Dispatch_Next_Task
<1>2. Table(demoted, ProcessList') /\ NoneRuns(demoted)
  BY DemoteFacts
<1>3. AllStacks(demoted)
  <2>1. \A p \in DOMAIN pd : pd[p] \in Process
    BY ElementOfSeq, LenProperties DEF Table
  <2> QED BY <2>1 DEF AllStacks, Demote, Process
<1> HIDE DEF demoted
<1>4. Table(charged, ProcessList') /\ AllStacks(charged)
  BY <1>2, <1>3, TickHandlerFacts, TickHandlerKeepsStacks
<1> HIDE DEF charged
<1>5. ASSUME NEW p \in next, Run(charged, p)
      PROVE  AllStacks(PD') /\ mode' = "task"
  <2>1. p \in DOMAIN charged
    <3>1. ProcessList' \in Seq(DOMAIN charged)
      BY <1>4 DEF Table
    <3>2. p \in Listed(ProcessList')
      BY <1>5, <3>1, SelectedIsReady
    <3> QED BY <1>4, <3>2 DEF Table
  <2>2. \A r \in DOMAIN charged : charged[r] \in Process
    BY <1>4, ElementOfSeq, LenProperties DEF Table
  <2> QED BY <1>4, <1>5, <2>1, <2>2 DEF AllStacks, Run, Process
<1> HIDE DEF next
<1> QED BY <1>1, <1>4, <1>5 DEF AllStacks

StacksAndStops == ~MallocMayFail => AllStacks(PD) /\ NullOnlyWithoutTasks

\* A step that does not stop the kernel keeps the property.
LEMMA StepKeepsStacks ==
    ASSUME Inv, ~MallocMayFail, AllStacks(PD), NullOnlyWithoutTasks, [Next]_vars
    PROVE  AllStacks(PD)' /\ NullOnlyWithoutTasks'
<1>0. /\ Table(PD, ProcessList) /\ OnlyCurrentRuns(PD) /\ Tick_Count \in UInts
      /\ \A p \in DOMAIN PD : PD[p] \in Process
  BY ElementOfSeq, LenProperties DEF Inv, Table, VarTypes
<1>1. ASSUME NEW pd, Table(pd, ProcessList'), OnlyCurrentRuns(pd), AllStacks(pd), NEW last,
             ProcessList' = <<>> \/ last \in Listed(ProcessList'), NEW ticks \in UInts,
             Kernel_Dispatch_Next_Task(pd, ProcessList', last, ticks)
      PROVE  AllStacks(PD)' /\ NullOnlyWithoutTasks'
  BY <1>1, DispatchFindsStack DEF NullOnlyWithoutTasks
<1>2. ASSUME mode \in {"boot", "task", "idle"}, mode' = mode,
             \A p \in DOMAIN PD' : PD'[p].stack
      PROVE  AllStacks(PD)' /\ NullOnlyWithoutTasks'
  BY <1>2 DEF AllStacks, NullOnlyWithoutTasks
<1>3. CASE CreateAtBoot \/ Task_Create
  <2>1. mode \in {"boot", "task", "idle"} /\ \E noErr : Kernel_Create_Task_Direct(noErr)
    BY <1>3 DEF CreateAtBoot, Task_Create, Running
  <2>2. /\ mode' = mode
        /\ \/ PD' = PD
           \/ \E timeout : PD' = Append(PD, NewTask(Last_PID + 1, timeout, TRUE))
    BY <2>1 DEF Kernel_Create_Task_Direct, Return, WriteThroughNull
  <2>3. ASSUME NEW timeout, PD' = Append(PD, NewTask(Last_PID + 1, timeout, TRUE))
        PROVE  \A p \in DOMAIN PD' : PD'[p].stack
    <3> DEFINE new == NewTask(Last_PID + 1, timeout, TRUE)
    <3>1. new.stack /\ PD' = Append(PD, new)
      BY <2>3 DEF NewTask
    <3> HIDE DEF new
    <3>2. \A p \in DOMAIN PD' : PD'[p] = new \/ (p \in DOMAIN PD /\ PD'[p] = PD[p])
      <4>1. PD \in Seq(Process) /\ Len(PD) \in Nat /\ DOMAIN PD = 1..Len(PD)
        BY <1>0, LenProperties DEF Table
      <4> QED BY <3>1, <4>1
    <3> QED BY <3>1, <3>2 DEF AllStacks
  <2> QED BY <1>2, <2>1, <2>2, <2>3 DEF AllStacks
<1>4. CASE CallTooEarly
  BY <1>2, <1>4 DEF CallTooEarly, Return, AllStacks
<1>5. ASSUME NEW p \in 0..MaxPid, Task_Suspend(p) \/ Task_Resume(p)
      PROVE  AllStacks(PD)' /\ NullOnlyWithoutTasks'
  <2>1. mode = "task" /\ mode' = mode
    BY <1>5 DEF Task_Suspend, Task_Resume, Running, Return
  <2>2. DOMAIN PD' = DOMAIN PD /\ \A q \in DOMAIN PD : PD'[q].stack = PD[q].stack
    BY <1>0, <1>5 DEF Task_Suspend, Task_Resume, Return, Process
  <2> QED BY <1>2, <2>1, <2>2 DEF AllStacks
<1>6. CASE OS_Start
  <2>1. PICK last \in Listed(ProcessList) :
          Kernel_Dispatch_Next_Task(PD, ProcessList, last, Tick_Count)
    BY <1>6, StartDispatches
  <2>2. ProcessList' = ProcessList
    BY <1>6, StartDispatches
  <2> QED BY <1>0, <1>1, <2>1, <2>2
<1>7. ASSUME NEW t \in SleepTicks, Task_Sleep(t)
      PROVE  AllStacks(PD)' /\ NullOnlyWithoutTasks'
  <2> DEFINE c == Current_Process
             q == [PD[c] EXCEPT !.request_timeout = t, !.state = "SLEEPING"]
             f == [PD EXCEPT ![c] = q]
  <2>1. /\ Running /\ UNCHANGED ProcessList
        /\ c \in DOMAIN PD /\ PD[c].state # "DEAD" /\ Last_Dispatched \in Listed(ProcessList)
    <3>1. Running /\ UNCHANGED ProcessList
      BY <1>7 DEF Task_Sleep
    <3> QED BY <3>1, CallFacts DEF Table
  <2>2. q \in Process /\ q.state = "SLEEPING" /\ q.stack = PD[c].stack
    <3>1. t \in UInts
      BY EnvironmentAssumption DEF UInts
    <3> QED BY <1>0, <2>1, <3>1 DEF Process, States
  <2>3. Kernel_Dispatch_Next_Task(f, ProcessList', Last_Dispatched, Tick_Count)
    BY <1>7, <2>1 DEF Task_Sleep, Switch, Process
  <2> HIDE DEF q
  <2>4. Table(f, ProcessList') /\ DOMAIN f = DOMAIN PD
    BY <1>0, <2>1, <2>2, UpdateKeepsTable
  <2>5. \A r \in DOMAIN PD : f[r] = IF r = c THEN q ELSE PD[r]
    OBVIOUS
  <2> HIDE DEF f
  <2>6. OnlyCurrentRuns(f) /\ AllStacks(f)
    BY <1>0, <2>1, <2>2, <2>4, <2>5 DEF OnlyCurrentRuns, AllStacks
  <2> QED BY <1>0, <1>1, <2>1, <2>3, <2>4, <2>6
<1>8. CASE Task_Yield
  <2>1. UNCHANGED ProcessList /\ Last_Dispatched \in Listed(ProcessList)
    BY <1>8, CallFacts DEF Task_Yield
  <2>2. Kernel_Dispatch_Next_Task(PD, ProcessList', Last_Dispatched, Tick_Count)
    BY <1>8, <2>1 DEF Task_Yield, Switch
  <2> QED BY <1>0, <1>1, <2>1, <2>2
<1>9. CASE Task_Terminate
  <2> DEFINE f == [PD EXCEPT ![Current_Process].state = "DEAD"]
  <2>1. PICK i \in DOMAIN ProcessList :
          /\ ProcessList[i] = Current_Process
          /\ ProcessList' = RemoveAt(ProcessList, i)
          /\ Kernel_Dispatch_Next_Task(f, ProcessList', LeftBehind(ProcessList, i), Tick_Count)
    BY <1>9 DEF Task_Terminate
  <2>2. Running
    BY <1>9 DEF Task_Terminate
  <2> DEFINE last == LeftBehind(ProcessList, i)
  <2>3. /\ Table(f, ProcessList') /\ OnlyCurrentRuns(f) /\ DOMAIN f = DOMAIN PD
        /\ ProcessList' = <<>> \/ last \in Listed(ProcessList')
    BY <2>1, <2>2, LeavingKeepsTable
  <2>4. AllStacks(f)
    BY <1>0 DEF AllStacks, Process
  <2>5. Kernel_Dispatch_Next_Task(f, ProcessList', last, Tick_Count)
    BY <2>1
  <2> HIDE DEF f, last
  <2> QED BY <1>0, <1>1, <2>3, <2>4, <2>5
<1>10. CASE TickOnly
  BY <1>2, <1>10 DEF TickOnly, AllStacks
<1>11. CASE Preempt
  <2> DEFINE ticks == (Tick_Count + 1) % UINT
  <2>1. Running /\ UNCHANGED ProcessList /\ Last_Dispatched \in Listed(ProcessList)
    BY <1>11, CallFacts DEF Preempt, Running
  <2>2. ticks \in UInts
    BY <1>0, ModIsUInt DEF UInts
  <2>3. Kernel_Dispatch_Next_Task(PD, ProcessList', Last_Dispatched, ticks)
    BY <1>11, <2>1 DEF Preempt
  <2> HIDE DEF ticks
  <2> QED BY <1>0, <1>1, <2>1, <2>2, <2>3
<1>12. CASE IdlePoll
  <2>1. AllStacks(Kernel_Tick_Handler(PD, ProcessList, Tick_Count))
    BY <1>0, TickHandlerKeepsStacks
  <2> QED BY <1>2, <1>12, <2>1 DEF IdlePoll, AllStacks
<1>13. CASE IdleDispatch
  <2> DEFINE next == Kernel_Select_Next_Task(PD, ProcessList, Last_Dispatched)
  <2>0. /\ UNCHANGED ProcessList /\ SomeReady /\ Last_Dispatched \in Listed(ProcessList)
        /\ \/ \E p \in next : Run(PD, p)
           \/ next = {} /\ UNCHANGED PD
    BY <1>13 DEF IdleDispatch, Inv, ScanStart
  <2>1. ASSUME NEW p \in next, Run(PD, p)
        PROVE  AllStacks(PD)' /\ NullOnlyWithoutTasks'
    <3>1. p \in DOMAIN PD
      <4>1. ProcessList \in Seq(DOMAIN PD)
        BY <1>0 DEF Table
      <4>2. p \in Listed(ProcessList)
        BY <2>0, <2>1, <4>1, SelectedIsReady
      <4> QED BY <1>0, <4>2 DEF Table
    <3> HIDE DEF next
    <3> QED BY <1>0, <2>1, <3>1 DEF AllStacks, NullOnlyWithoutTasks, Run, Process
  <2>2. CASE next = {} /\ UNCHANGED PD
    <3>1. \A p \in Listed(ProcessList) : PD[p].state = "READY" =>
             PD[p].pri > LOWEST_PRIORITY /\ ~CountsAsStarving(PD[p])
      BY <1>0, <2>0, <2>2, SomebodyIsSelected
    <3> HIDE DEF next
    <3> QED BY <2>0, <2>2, <3>1 DEF AllStacks, NullOnlyWithoutTasks, SomeReady
  <2> QED BY <2>0, <2>1, <2>2
<1>14. CASE UNCHANGED vars
  BY <1>14 DEF vars, AllStacks, NullOnlyWithoutTasks
<1> QED BY <1>3, <1>4, <1>5, <1>6, <1>7, <1>8, <1>9, <1>10, <1>11, <1>12, <1>13, <1>14
        DEF Next, SysCall, Kernel_Tick_ISR

\* As long as memory suffices, the NULL of Kernel_Select_Next_Task stops the kernel only
\* when no task is left, or when all that are READY have a priority out of range (and
\* none of them starves): whatever the number of tasks and their priorities, and
\* wherever the last termination left the start of the scan.
THEOREM SelectionSucceeds == Spec => []NullOnlyWithoutTasks
<1>1. Init => StacksAndStops
  BY DEF Init, StacksAndStops, AllStacks, NullOnlyWithoutTasks
<1>2. Inv /\ StacksAndStops /\ [Next]_vars => StacksAndStops'
  BY StepKeepsStacks DEF StacksAndStops
<1>3. StacksAndStops => NullOnlyWithoutTasks
  BY DEF StacksAndStops, NullOnlyWithoutTasks
<1> QED BY <1>1, <1>2, <1>3, Invariance, PTL DEF Spec

=============================================================================
