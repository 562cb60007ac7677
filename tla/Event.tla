-------------------------------- MODULE Event --------------------------------
(***************************************************************************)
(* The events of ezRTOS on top of the scheduler: kernel/event/event.c and  *)
(* the event section of os.c.  An event is used once: the wait that meets  *)
(* a signal, or the signal that meets a wait, destroys it.  Signals that   *)
(* come before the wait are counted; one task at a time waits, the owner.  *)
(***************************************************************************)
EXTENDS Kernel

CONSTANTS
    MAXEVENT,            \* event.h:7
    MAX_EVENT_SIG_MISS,  \* event.h:8, 0 for unlimited
    MaxEventID,          \* bound: events created in one behaviour
    FreshCounts,         \* what malloc leaves in count
    EventArgs            \* the ids that calls name

ASSUME EventAssumption ==
    /\ MAXEVENT \in Nat \ {0}
    /\ MAX_EVENT_SIG_MISS \in Nat
    /\ MaxEventID \in Nat
    /\ FreshCounts \subseteq UInts
    /\ EventArgs \subseteq Nat

VARIABLES
    EventList,           \* the ids on the event list, in order
    event                \* the event objects, in order of id

eventVars == <<EventList, event>>

Last_EventID == Len(event)
Event_Count  == Len(EventList)

EventType == [owner: Nat, count: UInts]

IsEvent(e) == e \in ToSet(EventList)

\* findEventByEventID fails.  With an empty list it compares the id with the
\* word at address 0 and, should they match, returns NULL without an error.
NoSuchEvent(e) ==
    /\ ~IsEvent(e)
    /\ \E error \in (CASE e = 0 -> {"INVALID_ARG_ERR"}
                       [] e # 0 /\ EventList = <<>> -> {"OBJECT_NOT_FOUND_ERR", "NO_ERR"}
                       [] OTHER -> {"OBJECT_NOT_FOUND_ERR"}) : Return(error, PD)
    /\ UNCHANGED eventVars

-----------------------------------------------------------------------------
\* noErr is what err holds when nothing fails.  The count is not initialised.
Kernel_Create_Event(noErr) ==
    \/ /\ Event_Count >= MAXEVENT
       /\ Return("MAX_OBJECT_ERR", PD)
       /\ UNCHANGED <<ProcessList, eventVars>>
    \/ /\ Event_Count < MAXEVENT
       /\ WriteThroughNull
       /\ UNCHANGED eventVars
    \/ /\ Event_Count < MAXEVENT
       /\ Last_EventID < MaxEventID
       /\ Return(noErr, PD)
       /\ \E count \in FreshCounts : event' = Append(event, [owner |-> 0, count |-> count])
       /\ EventList' = Append(EventList, Last_EventID + 1)
       /\ UNCHANGED ProcessList

Event_Create ==
    \/ mode = "boot" /\ Kernel_Create_Event(err)
    \/ Running /\ Kernel_Create_Event("NO_ERR")

Kernel_Destroy_Event_Internal(e) ==
    /\ event' = [event EXCEPT ![e] = [owner |-> 0, count |-> 0]]
    /\ \E i \in DOMAIN EventList :
          EventList[i] = e /\ EventList' = RemoveAt(EventList, i)

-----------------------------------------------------------------------------
\* Mutant: a signal that has been counted is not looked at.  (ImplementsOneShotEvents)
WaitAnyway(e) ==
    /\ event' = [event EXCEPT ![e].owner = Current_Process]
    /\ Switch("NO_ERR", [PD EXCEPT ![Current_Process].state = "WAIT_EVENT"])
    /\ UNCHANGED EventList

\* The caller becomes the owner and waits.
WaitForSignal(e) ==
    /\ event[e].count = 0
    /\ event' = [event EXCEPT ![e].owner = Current_Process]
    /\ Switch("NO_ERR", [PD EXCEPT ![Current_Process].state = "WAIT_EVENT"])
    /\ UNCHANGED EventList

Event_Wait(e) ==
    /\ Running
    /\ UNCHANGED ProcessList
    /\ \/ NoSuchEvent(e)
       \/ /\ IsEvent(e)                       \* somebody else waits for it
          /\ event[e].owner \notin {0, Current_Process}
          /\ Return("OBJECT_NOT_FOUND_ERR", PD)
          /\ UNCHANGED eventVars
       \/ /\ IsEvent(e)
          /\ event[e].owner \in {0, Current_Process}
          /\ \/ /\ event[e].count > 0         \* it has been signaled already
                /\ Kernel_Destroy_Event_Internal(e)
                /\ Return("NO_ERR", PD)
             \/ WaitForSignal(e)

\* Mutant: the limit on missed signals is off by one.  (EventsTypeOK)
CountedOnceMore(count) ==
    IF MAX_EVENT_SIG_MISS = 0 \/ count <= MAX_EVENT_SIG_MISS THEN (count + 1) % UINT ELSE count

\* The count of an event after one more signal.
Counted(count) ==
    IF MAX_EVENT_SIG_MISS = 0 \/ count < MAX_EVENT_SIG_MISS THEN (count + 1) % UINT ELSE count

\* Mutant: the owner is woken, the event stays.  (OwnersWait)
WakeOnly(e) ==
    /\ event[e].owner \in Listed(ProcessList)
    /\ Switch("NO_ERR", [PD EXCEPT ![event[e].owner].state = "READY"])
    /\ UNCHANGED eventVars

\* The owner becomes READY, whatever state it is in.
WakeOwner(e) ==
    /\ event[e].owner \in Listed(ProcessList)
    /\ Switch("NO_ERR", [PD EXCEPT ![event[e].owner].state = "READY"])
    /\ Kernel_Destroy_Event_Internal(e)

Event_Signal(e) ==
    /\ Running
    /\ UNCHANGED ProcessList
    /\ \/ NoSuchEvent(e)
       \/ /\ IsEvent(e)
          /\ event[e].owner = 0
          /\ event' = [event EXCEPT ![e].count = Counted(@)]
          /\ Return("NO_ERR", PD)
          /\ UNCHANGED EventList
       \/ IsEvent(e) /\ event[e].owner # 0 /\ WakeOwner(e)
       \/ /\ IsEvent(e)                       \* the owner has terminated
          /\ event[e].owner \notin {0} \cup Listed(ProcessList)
          /\ err' = "NO_ERR"
          /\ mode' = "halted"
          /\ UNCHANGED <<PD, sched, eventVars>>

EventInit == EventList = <<>> /\ event = <<>>

=============================================================================
