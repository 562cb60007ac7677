------------------------------ MODULE EventGroup ------------------------------
(***************************************************************************)
(* The event groups of ezRTOS on top of the scheduler:                     *)
(* kernel/event/event_group.c and the event group section of os.c.  A task *)
(* waits for some or for all of a set of bits of a group, with or without  *)
(* a time limit.  There is no queue: whoever sets bits looks through the   *)
(* process list for tasks that wait, and reads what each of them waits for *)
(* from the arguments of its call.                                         *)
(***************************************************************************)
EXTENDS Kernel

CONSTANTS
    MAXEVENTGROUP,   \* event_group.h:7
    Bits,            \* the bits of a group, event_group.h:8
    MaxGroupID,      \* bound: groups created in one behaviour
    GroupArgs,       \* the ids that calls name
    BitArgs,         \* the sets of bits that calls name
    Timeouts         \* time limits of Event_Group_Wait_Bits, 0 for none

ASSUME EventGroupAssumption ==
    /\ MAXEVENTGROUP \in Nat \ {0}
    /\ MaxGroupID \in Nat
    /\ GroupArgs \subseteq Nat
    /\ BitArgs \subseteq SUBSET Bits
    /\ Timeouts \subseteq UInts

VARIABLES
    EventGroupList,  \* the ids on the list of event groups, in order
    events,          \* events[g]: the bits that are set, in order of id
    request          \* request[p]: what task p waits for in WAIT_EVENTG

groupVars == <<EventGroupList, events, request>>

Last_Event_Group_ID == Len(events)
Event_Group_Count   == Len(EventGroupList)

Request   == [id: Nat, bits: SUBSET Bits, all: BOOLEAN, timed: BOOLEAN]
NoRequest == [id |-> 0, bits |-> {}, all |-> FALSE, timed |-> FALSE]

IsGroup(g) == g \in ToSet(EventGroupList)

\* The arguments of a call are looked at by others only while the caller waits.
Arguments(args) ==
    request' = [p \in 1..MaxPid |->
                   IF InState(p, {"WAIT_EVENTG"})' THEN args[p] ELSE NoRequest]

-----------------------------------------------------------------------------
\* noErr is what err holds when nothing fails.
Kernel_Create_Event_Group(noErr) ==
    \/ /\ Event_Group_Count >= MAXEVENTGROUP
       /\ Return("MAX_OBJECT_ERR", PD)
       /\ UNCHANGED <<ProcessList, groupVars>>
    \/ /\ Event_Group_Count < MAXEVENTGROUP
       /\ WriteThroughNull
       /\ UNCHANGED groupVars
    \/ /\ Event_Group_Count < MAXEVENTGROUP
       /\ Last_Event_Group_ID < MaxGroupID
       /\ Return(noErr, PD)
       /\ events' = Append(events, {})
       /\ EventGroupList' = Append(EventGroupList, Last_Event_Group_ID + 1)
       /\ UNCHANGED <<ProcessList, request>>

Event_Group_Create ==
    \/ mode = "boot" /\ Kernel_Create_Event_Group(err)
    \/ Running /\ Kernel_Create_Event_Group("NO_ERR")

\* The waiters of a destroyed group are left as they are.  When no group has
\* the id, the last one is freed but stays on the list, whose tail is then
\* linked to what is found at address 2.
Event_Group_Destroy(g) ==
    /\ Running
    /\ \/ /\ EventGroupList = <<>>
          /\ Return("OBJECT_NOT_FOUND_ERR", PD)
          /\ UNCHANGED groupVars
       \/ /\ Return("NO_ERR", PD)
          /\ \E i \in DOMAIN EventGroupList :
                EventGroupList[i] = g /\ EventGroupList' = RemoveAt(EventGroupList, i)
          /\ events' = [events EXCEPT ![g] = {}]
          /\ UNCHANGED request
       \/ /\ EventGroupList # <<>> /\ ~IsGroup(g)
          /\ err' = "NO_ERR"
          /\ mode' = "halted"
          /\ UNCHANGED <<PD, sched, groupVars>>
    /\ UNCHANGED ProcessList

NoSuchGroup(g) ==
    /\ ~IsGroup(g)
    /\ Return("OBJECT_NOT_FOUND_ERR", PD)
    /\ UNCHANGED <<ProcessList, groupVars>>

-----------------------------------------------------------------------------
\* Mutant: for some of the bits, all of them must be set.  (NobodyWaitsForSetBits)
AllOfThem(set, wanted, all) == wanted \subseteq set

\* Is a wait for some, or for all, of the wanted bits over?
Satisfied(set, wanted, all) ==
    \/ ~all /\ set \cap wanted # {}
    \/ wanted \subseteq set

\* Every task that waits for the group and has what it waits for becomes READY.
\* Nobody is dispatched, and the timer of a task that is served runs on.
Event_Group_Set_Bits(g, bits) ==
    /\ Running
    /\ \/ NoSuchGroup(g)
       \/ /\ IsGroup(g)
          /\ events' = [events EXCEPT ![g] = @ \cup bits]
          /\ LET Served(p) == /\ p \in Listed(ProcessList)
                              /\ PD[p].state = "WAIT_EVENTG"
                              /\ request[p].id = g
                              /\ Satisfied(events'[g], request[p].bits, request[p].all)
             IN Return("NO_ERR", [p \in DOMAIN PD |->
                                     IF Served(p) THEN [PD[p] EXCEPT !.state = "READY"] ELSE PD[p]])
          /\ Arguments(request)
          /\ UNCHANGED <<ProcessList, EventGroupList>>

Event_Group_Clear_Bits(g, bits) ==
    /\ Running
    /\ \/ NoSuchGroup(g)
       \/ /\ IsGroup(g)
          /\ events' = [events EXCEPT ![g] = @ \ bits]
          /\ Return("NO_ERR", PD)
          /\ UNCHANGED <<ProcessList, EventGroupList, request>>

\* Mutant: without a time limit the timer is left alone.  (WaitersWaitForBits)
TimedOnly(t) == IF t = 0 THEN PD ELSE [PD EXCEPT ![Current_Process].request_timeout = t]

\* The caller's timer is set first, whether or not it will have to wait.
Armed(t) == [PD EXCEPT ![Current_Process].request_timeout = t]

\* An unknown group is no error here: the call returns as if it were satisfied.
Event_Group_Wait_Bits(g, bits, all, t) ==
    /\ Running
    /\ UNCHANGED <<ProcessList, EventGroupList, events>>
    /\ \/ /\ IsGroup(g) => Satisfied(events[g], bits, all)
          /\ Return("NO_ERR", Armed(t))
          /\ UNCHANGED request
       \/ /\ IsGroup(g)
          /\ ~Satisfied(events[g], bits, all)
          /\ Switch("NO_ERR", [Armed(t) EXCEPT ![Current_Process].state = "WAIT_EVENTG"])
          /\ Arguments([request EXCEPT ![Current_Process] =
                           [id |-> g, bits |-> bits, all |-> all, timed |-> t > 0]])

\* The id is not passed on: the group looked for is the one an earlier call of
\* the task has named.
Event_Group_Get_Bits ==
    /\ Running
    /\ \/ EventGroupList # <<>> /\ Return("NO_ERR", PD)
       \/ Return("OBJECT_NOT_FOUND_ERR", PD)
    /\ UNCHANGED <<ProcessList, groupVars>>

-----------------------------------------------------------------------------
GroupInit == EventGroupList = <<>> /\ events = <<>> /\ request = [p \in 1..MaxPid |-> NoRequest]

GroupCall ==
    \/ Event_Group_Create
    \/ \E g \in GroupArgs : Event_Group_Destroy(g)
    \/ \E g \in GroupArgs, bits \in BitArgs :
          Event_Group_Set_Bits(g, bits) \/ Event_Group_Clear_Bits(g, bits)
    \/ Event_Group_Get_Bits

=============================================================================
