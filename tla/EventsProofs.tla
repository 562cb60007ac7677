----------------------------- MODULE EventsProofs -----------------------------
(***************************************************************************)
(* Theorems about Events, for every value of its constants.                *)
(***************************************************************************)
EXTENDS Events, TimerProofs

-----------------------------------------------------------------------------
(* The objects.                                                            *)

Distinct(list) == \A i, j \in DOMAIN list : list[i] = list[j] => i = j

\* One event, when the processes are those of tasks.
EventOK(x, tasks) ==
    /\ x \in EventType
    /\ x.owner \in {0} \cup tasks
    /\ x.owner = 0 \/ x.count = 0
    /\ MAX_EVENT_SIG_MISS > 0 => x.count \in FreshCounts \cup 0..MAX_EVENT_SIG_MISS

EventObjects ==
    /\ EventList \in Seq(DOMAIN event) /\ Distinct(EventList)
    /\ event \in Seq(EventType)
    /\ \A e \in DOMAIN event : EventOK(event[e], DOMAIN PD)

GroupObjects ==
    /\ EventGroupList \in Seq(DOMAIN events)
    /\ events \in Seq(SUBSET Bits)
    /\ request \in [1..MaxPid -> Request]

\* Whoever waits for bits waits for bits of a group that was created, which are
\* not set, and has a timer only if it has asked for one.  (A task that suspends
\* itself may set its timer in a state other than RUNNING.)
GroupWaits ==
    \A p \in DOMAIN PD : PD[p].state = "WAIT_EVENTG" =>
        /\ request[p].id \in DOMAIN events
        /\ ~HasItsBits(p, events)
        /\ ~SelfSuspend /\ PD[p].request_timeout # 0 => request[p].timed

EventsInv == Inv /\ EventObjects /\ GroupObjects /\ GroupWaits

\* The invariant is strong enough for the properties it is meant for.
LEMMA EventsInvImplies == EventsInv => EventsTypeOK /\ NobodyWaitsForSetBits
<1> SUFFICES ASSUME EventsInv PROVE EventsTypeOK /\ NobodyWaitsForSetBits
  OBVIOUS
<1>1. TypeOK
  BY InvImplies DEF EventsInv
<1>2. EventsTypeOK
  BY <1>1 DEF EventsInv, EventObjects, EventOK, GroupObjects, EventsTypeOK
<1>3. NobodyWaitsForSetBits
  BY DEF EventsInv, GroupWaits, NobodyWaitsForSetBits
<1> QED BY <1>2, <1>3

\* More processes do not disturb the events.
LEMMA EventsKept ==
    ASSUME EventObjects, DOMAIN PD \subseteq DOMAIN PD', UNCHANGED eventVars
    PROVE  EventObjects'
  BY DEF EventObjects, EventOK, eventVars, Distinct

\* One event is replaced.
LEMMA EventReplaced ==
    ASSUME EventObjects, DOMAIN PD \subseteq DOMAIN PD',
           EventList' \in Seq(DOMAIN event), Distinct(EventList'),
           NEW e \in DOMAIN event, NEW x, EventOK(x, DOMAIN PD'),
           event' = [event EXCEPT ![e] = x]
    PROVE  EventObjects'
<1>1. x \in EventType /\ event \in Seq(EventType)
  BY DEF EventObjects, EventOK
<1>2. event' \in Seq(EventType) /\ DOMAIN event' = DOMAIN event
  BY <1>1, ExceptSeq
<1>3. \A n \in DOMAIN event : event'[n] = IF n = e THEN x ELSE event[n]
  OBVIOUS
<1>4. \A n \in DOMAIN event : EventOK(event[n], DOMAIN PD')
  BY DEF EventObjects, EventOK
<1>5. \A n \in DOMAIN event' : EventOK(event'[n], DOMAIN PD')
  BY <1>2, <1>3, <1>4
<1> QED BY <1>2, <1>5 DEF EventObjects, Distinct

\* The id of an event on the list is that of an event.
LEMMA IsEventFacts ==
    ASSUME EventObjects, NEW e, IsEvent(e)
    PROVE  e \in DOMAIN event /\ event[e] \in EventType /\ EventOK(event[e], DOMAIN PD)
<1>1. e \in DOMAIN event
  BY ElementOfSeq, LenProperties DEF IsEvent, ToSet, EventObjects
<1> QED BY <1>1 DEF EventObjects, EventOK

-----------------------------------------------------------------------------
(* What a step can do to the events and to the tasks.                      *)

Gone(e) ==
    /\ event' = [event EXCEPT ![e] = [owner |-> 0, count |-> 0]]
    /\ ToSet(EventList') = ToSet(EventList) \ {e}

Changed(e, x) == event' = [event EXCEPT ![e] = x] /\ EventList' = EventList

\* The outcomes of Event_Wait and Event_Signal on an event that exists.
EventOutcome(e) ==
    LET c     == Current_Process
        owner == event[e].owner
    IN \/ owner = 0 /\ event[e].count > 0 /\ PD' = PD /\ Gone(e)
       \/ /\ owner \in {0, c} /\ event[e].count = 0
          /\ Changed(e, [owner |-> c, count |-> 0])
          /\ Moved(c, "WAIT_EVENT") /\ OthersAge({c})
       \/ /\ owner = 0 /\ PD' = PD
          /\ Changed(e, [owner |-> 0, count |-> Counted(event[e].count)])
       \/ /\ owner \in DOMAIN PD /\ Gone(e)
          /\ Moved(owner, "READY") /\ OthersAge({owner})

\* A new event.
Opened ==
    /\ PD' = PD
    /\ \E count \in FreshCounts : event' = Append(event, [owner |-> 0, count |-> count])
    /\ ToSet(EventList') = ToSet(EventList) \cup {Len(event) + 1}

\* Tasks that wait for bits get them.
Served ==
    /\ UNCHANGED eventVars
    /\ DOMAIN PD' = DOMAIN PD
    /\ \A p \in DOMAIN PD :
          \/ PD'[p] = PD[p]
          \/ /\ PD[p].state = "WAIT_EVENTG" /\ PD'[p].state = "READY"
             /\ PD'[p].last_state = PD[p].last_state
             /\ PD'[p].request_timeout = PD[p].request_timeout
             /\ IsGroup(request[p].id) /\ HasItsBits(p, events')

\* The caller asks for bits, with a time limit if it is a timed task.
AskedForBits ==
    /\ UNCHANGED eventVars
    /\ Running /\ OthersAge({Current_Process})
    /\ \E t \in Timeouts, a \in Process :
          /\ t > 0 => Current_Process \in TimedTasks
          /\ a.request_timeout = t /\ a.last_state = PD[Current_Process].last_state
          /\ a.state \in {PD[Current_Process].state, "WAIT_EVENTG"}
          /\ Aged(a, PD'[Current_Process])

\* The outcomes of a call on an event, or of a step of the scheduler ...
EventFates ==
    \/ Fates /\ UNCHANGED eventVars
    \/ Opened
    \/ Running /\ \E e \in DOMAIN event : IsEvent(e) /\ EventOutcome(e)

\* ... and of any step.
EventsFates == EventFates \/ Served \/ AskedForBits

-----------------------------------------------------------------------------
(* The calls on events, one lemma each.                                    *)

\* A call that is refused, or stops, before it has changed an event.
LEMMA RefusalKeepsEvents ==
    ASSUME Inv, EventObjects, mode \in {"boot", "task"}, NEW error \in Errors,
           Return(error, PD), UNCHANGED <<ProcessList, eventVars>>
    PROVE  Inv' /\ EventObjects' /\ EventFates /\ PD' = PD
<1>1. Inv' /\ PD' = PD /\ Fates
  BY RefusalKeepsInv, NothingIsFate DEF Return
<1> QED BY <1>1, EventsKept DEF EventFates

LEMMA StopKeepsEvents ==
    ASSUME Inv, EventObjects, mode' = "halted", err' \in Errors,
           UNCHANGED <<PD, ProcessList, sched, eventVars>>
    PROVE  Inv' /\ EventObjects' /\ EventFates /\ PD' = PD
<1>1. Inv' /\ Fates
  BY StopKeepsInv, NothingIsFate
<1> QED BY <1>1, EventsKept DEF EventFates

LEMMA ThroughNullKeepsEvents ==
    ASSUME Inv, EventObjects, WriteThroughNull, UNCHANGED eventVars
    PROVE  Inv' /\ EventObjects' /\ EventFates /\ PD' = PD
<1>1. err' \in Errors
  BY DEF WriteThroughNull, Inv, VarTypes
<1> QED BY <1>1, StopKeepsEvents DEF WriteThroughNull

LEMMA CreateKeepsEvents ==
    ASSUME Inv, EventObjects, mode \in {"boot", "task"}, NEW noErr \in Errors,
           Kernel_Create_Event(noErr)
    PROVE  Inv' /\ EventObjects' /\ EventFates /\ PD' = PD
<1>1. CASE Return("MAX_OBJECT_ERR", PD) /\ UNCHANGED <<ProcessList, eventVars>>
  BY <1>1, RefusalKeepsEvents DEF Errors
<1>2. CASE WriteThroughNull /\ UNCHANGED eventVars
  BY <1>2, ThroughNullKeepsEvents
<1>3. ASSUME Return(noErr, PD), UNCHANGED ProcessList,
             NEW count \in FreshCounts, event' = Append(event, [owner |-> 0, count |-> count]),
             EventList' = Append(EventList, Last_EventID + 1)
      PROVE  Inv' /\ EventObjects' /\ EventFates /\ PD' = PD
  <2> DEFINE n == Len(event)
             x == [owner |-> 0, count |-> count]
  <2>1. Inv' /\ PD' = PD
    BY <1>3, RefusalKeepsInv DEF Return
  <2>2. /\ event \in Seq(EventType) /\ EventList \in Seq(DOMAIN event) /\ Distinct(EventList)
        /\ n \in Nat /\ DOMAIN event = 1..n
    BY LenProperties DEF EventObjects
  <2>3. x \in EventType /\ \A tasks : EventOK(x, tasks)
    BY EventAssumption DEF EventType, EventOK
  <2> HIDE DEF x
  <2>4. /\ event' \in Seq(EventType) /\ DOMAIN event' = 1..(n + 1)
        /\ event'[n + 1] = x /\ \A e \in 1..n : event'[e] = event[e]
    <3>1. event' = Append(event, x)
      BY <1>3 DEF x
    <3> HIDE DEF n
    <3>2. n = Len(event)
      BY DEF n
    <3> QED BY <2>2, <2>3, <3>1, <3>2, AppendProperties, LenProperties
  <2>5. EventList' = Append(EventList, n + 1)
    BY <1>3 DEF Last_EventID
  <2> HIDE DEF n
  <2>6. /\ EventList' \in Seq(DOMAIN event') /\ Len(EventList) \in Nat
        /\ DOMAIN EventList = 1..Len(EventList)
        /\ DOMAIN EventList' = 1..(Len(EventList) + 1)
        /\ EventList'[Len(EventList) + 1] = n + 1
        /\ \A i \in 1..Len(EventList) : EventList'[i] = EventList[i]
    <3>1. EventList \in Seq(DOMAIN event')
      BY <2>2, <2>4, SeqMonotonic
    <3>2. n + 1 \in DOMAIN event'
      BY <2>2, <2>4
    <3> QED BY <2>5, <3>1, <3>2, AppendProperties, LenProperties
  <2>7. \A i \in 1..Len(EventList) : EventList[i] \in 1..n
    BY <2>2, <2>6, ElementOfSeq
  <2>8. Distinct(EventList')
    <3>1. \A i \in DOMAIN EventList' : i = Len(EventList) + 1 \/ i \in 1..Len(EventList)
      BY <2>6
    <3>2. \A i \in 1..Len(EventList) : EventList'[i] # n + 1
      BY <2>2, <2>6, <2>7
    <3>3. \A i, j \in 1..Len(EventList) : EventList'[i] = EventList'[j] => i = j
      BY <2>2, <2>6 DEF Distinct
    <3> QED BY <2>6, <3>1, <3>2, <3>3 DEF Distinct
  <2>9. ToSet(EventList') = ToSet(EventList) \cup {n + 1}
    BY <2>6 DEF ToSet
  <2>10. \A e \in DOMAIN event' : EventOK(event'[e], DOMAIN PD)
    <3> SUFFICES ASSUME NEW e \in DOMAIN event' PROVE EventOK(event'[e], DOMAIN PD)
      OBVIOUS
    <3>1. CASE e = n + 1
      BY <3>1, <2>3, <2>4
    <3>2. CASE e # n + 1
      BY <3>2, <2>2, <2>4 DEF EventObjects
    <3> QED BY <3>1, <3>2
  <2>11. Opened
    BY <1>3, <2>1, <2>9 DEF Opened, n
  <2> QED BY <2>1, <2>4, <2>6, <2>8, <2>10, <2>11 DEF EventObjects, EventFates, Distinct
<1> QED BY <1>1, <1>2, <1>3 DEF Kernel_Create_Event

\* Nothing is left of a destroyed event, and the others stay.
LEMMA DestroyEventFacts ==
    ASSUME EventObjects, NEW e \in DOMAIN event, Kernel_Destroy_Event_Internal(e)
    PROVE  Gone(e) /\ EventList' \in Seq(DOMAIN event) /\ Distinct(EventList')
<1>1. PICK i \in 1..Len(EventList) : EventList[i] = e /\ EventList' = RemoveAt(EventList, i)
  BY LenProperties DEF Kernel_Destroy_Event_Internal, EventObjects
<1>2. EventList \in Seq(DOMAIN event)
      /\ \A j, k \in DOMAIN EventList : EventList[j] = EventList[k] => j = k
  BY DEF EventObjects, Distinct
<1>3. EventList' \in Seq(DOMAIN event)
  BY <1>1, <1>2, RemoveAtFacts
<1>4. /\ \A j, k \in DOMAIN EventList' : EventList'[j] = EventList'[k] => j = k
      /\ ToSet(EventList') = ToSet(EventList) \ {e}
  BY <1>1, <1>2, RemoveAtDistinct
<1> QED BY <1>3, <1>4 DEF Gone, Distinct, Kernel_Destroy_Event_Internal

LEMMA NoSuchEventKeepsEvents ==
    ASSUME Inv, EventObjects, Running, UNCHANGED ProcessList, NEW e, NoSuchEvent(e)
    PROVE  Inv' /\ EventObjects' /\ EventFates
<1>1. PICK error \in Errors : Return(error, PD)
  BY DEF NoSuchEvent, Errors
<1> QED BY <1>1, RefusalKeepsEvents DEF NoSuchEvent, Running

LEMMA WaitKeepsEvents ==
    ASSUME Inv, EventObjects, NEW e, Event_Wait(e)
    PROVE  Inv' /\ EventObjects' /\ EventFates
<1> DEFINE c == Current_Process
<1>0. Running /\ UNCHANGED ProcessList /\ mode \in {"boot", "task"}
      /\ "NO_ERR" \in Errors /\ "OBJECT_NOT_FOUND_ERR" \in Errors
  BY DEF Event_Wait, Running, Errors
<1>1. CASE NoSuchEvent(e)
  BY <1>0, <1>1, NoSuchEventKeepsEvents
<1>2. CASE Return("OBJECT_NOT_FOUND_ERR", PD) /\ UNCHANGED eventVars
  BY <1>0, <1>2, RefusalKeepsEvents
<1>3. CASE IsEvent(e) /\ event[e].count > 0 /\ Kernel_Destroy_Event_Internal(e)
           /\ Return("NO_ERR", PD)
  <2>1. e \in DOMAIN event /\ EventOK(event[e], DOMAIN PD)
    BY <1>3, IsEventFacts
  <2>2. event[e].owner = 0
    BY <1>3, <2>1 DEF EventOK
  <2>3. Gone(e) /\ EventList' \in Seq(DOMAIN event) /\ Distinct(EventList')
    BY <1>3, <2>1, DestroyEventFacts
  <2>4. Inv' /\ PD' = PD
    BY <1>0, <1>3, RefusalKeepsInv DEF Return
  <2>5. EventOK([owner |-> 0, count |-> 0], DOMAIN PD')
    BY ConfigAssumption, EventAssumption DEF EventOK, EventType, UInts
  <2>6. EventObjects'
    BY <2>1, <2>3, <2>4, <2>5, EventReplaced DEF Gone
  <2> QED BY <1>0, <1>3, <2>1, <2>2, <2>3, <2>4, <2>6 DEF EventFates, EventOutcome
<1>4. CASE IsEvent(e) /\ event[e].owner \in {0, c} /\ WaitForSignal(e)
  <2> DEFINE q == [PD[c] EXCEPT !.state = "WAIT_EVENT"]
             x == [owner |-> c, count |-> 0]
  <2>1. /\ e \in DOMAIN event /\ event[e] \in EventType /\ EventOK(event[e], DOMAIN PD)
        /\ event[e].count = 0
    BY <1>4, IsEventFacts DEF WaitForSignal
  <2>2. /\ c \in DOMAIN PD /\ c \in Nat /\ PD[c] \in Process /\ PD[c].state # "DEAD"
    BY <1>0, CallFacts, ElementOfSeq DEF Table
  <2>3. q \in Process /\ q.state = "WAIT_EVENT" /\ q.request_timeout = PD[c].request_timeout
    BY <2>2 DEF Process, States
  <2>4. Switch("NO_ERR", [PD EXCEPT ![c] = q])
    BY <1>4, <2>2 DEF WaitForSignal, Process
  <2> HIDE DEF q
  <2>5. Inv' /\ Aged(q, PD'[c]) /\ OthersAge({c})
    BY <1>0, <2>2, <2>3, <2>4, SwitchMoves
  <2>6. Moved(c, "WAIT_EVENT")
    BY <2>3, <2>5 DEF Moved
  <2>7. Changed(e, x)
    <3>1. [event[e] EXCEPT !.owner = c] = x
      BY <2>1 DEF EventType
    <3>2. event' = [event EXCEPT ![e] = [event[e] EXCEPT !.owner = c]] /\ EventList' = EventList
      BY <1>4 DEF WaitForSignal
    <3> QED BY <3>1, <3>2 DEF Changed
  <2>8. EventOK(x, DOMAIN PD')
    BY <2>2, <2>5, ConfigAssumption, EventAssumption DEF EventOK, EventType, UInts, OthersAge
  <2>9. EventList' \in Seq(DOMAIN event) /\ Distinct(EventList')
    BY <2>7 DEF Changed, EventObjects, Distinct
  <2>10. EventObjects'
    BY <2>1, <2>5, <2>7, <2>8, <2>9, EventReplaced DEF Changed, OthersAge
  <2> QED BY <1>0, <1>4, <2>1, <2>5, <2>6, <2>7, <2>10 DEF EventFates, EventOutcome
<1> QED BY <1>1, <1>2, <1>3, <1>4 DEF Event_Wait

LEMMA SignalKeepsEvents ==
    ASSUME Inv, EventObjects, NEW e, Event_Signal(e)
    PROVE  Inv' /\ EventObjects' /\ EventFates
<1>0. Running /\ UNCHANGED ProcessList /\ mode \in {"boot", "task"} /\ "NO_ERR" \in Errors
  BY DEF Event_Signal, Running, Errors
<1>1. CASE NoSuchEvent(e)
  BY <1>0, <1>1, NoSuchEventKeepsEvents
<1>2. CASE /\ IsEvent(e) /\ event[e].owner = 0
           /\ event' = [event EXCEPT ![e].count = Counted(@)]
           /\ Return("NO_ERR", PD)
           /\ UNCHANGED EventList
  <2> DEFINE count == event[e].count
             x     == [owner |-> 0, count |-> Counted(count)]
  <2>1. e \in DOMAIN event /\ event[e] \in EventType /\ EventOK(event[e], DOMAIN PD)
    BY <1>2, IsEventFacts
  <2>2. Changed(e, x)
    <3>1. [event[e] EXCEPT !.count = Counted(count)] = x
      BY <1>2, <2>1 DEF EventType
    <3>2. event' = [event EXCEPT ![e] = [event[e] EXCEPT !.count = Counted(count)]]
          /\ EventList' = EventList
      BY <1>2
    <3> QED BY <3>1, <3>2 DEF Changed
  <2>3. count \in UInts /\ count \in Nat /\ count + 1 \in Nat
    BY <2>1, ConfigAssumption DEF EventType, UInts
  <2>4. (count + 1) % UINT \in UInts /\ (count + 1) % UINT <= count + 1
        /\ (count + 1) % UINT \in Nat
    BY <2>3, ModBounded, ConfigAssumption DEF UInts
  <2>5. Counted(count) \in UInts
    BY <2>3, <2>4 DEF Counted
  <2>6. MAX_EVENT_SIG_MISS > 0 => Counted(count) \in FreshCounts \cup 0..MAX_EVENT_SIG_MISS
    BY <2>1, <2>3, <2>4, EventAssumption DEF Counted, EventOK
  <2>7. EventOK(x, DOMAIN PD')
    BY <2>5, <2>6 DEF EventOK, EventType
  <2>8. Inv' /\ PD' = PD
    BY <1>0, <1>2, RefusalKeepsInv DEF Return
  <2>9. EventList' \in Seq(DOMAIN event) /\ Distinct(EventList')
    BY <1>2 DEF EventObjects, Distinct
  <2>10. EventObjects'
    BY <2>1, <2>2, <2>7, <2>8, <2>9, EventReplaced DEF Changed
  <2> QED BY <1>0, <1>2, <2>1, <2>2, <2>8, <2>10 DEF EventFates, EventOutcome
<1>3. CASE IsEvent(e) /\ WakeOwner(e)
  <2> DEFINE owner == event[e].owner
             q     == [PD[owner] EXCEPT !.state = "READY"]
  <2>1. e \in DOMAIN event /\ owner \in Listed(ProcessList)
    BY <1>3, IsEventFacts DEF WakeOwner
  <2>2. owner \in DOMAIN PD /\ PD[owner] \in Process /\ PD[owner].state # "DEAD"
    BY <2>1, ElementOfSeq, LenProperties DEF Inv, Table
  <2>3. q \in Process /\ q.state = "READY" /\ q.request_timeout = PD[owner].request_timeout
    BY <2>2 DEF Process, States
  <2>4. Switch("NO_ERR", [PD EXCEPT ![owner] = q])
    BY <1>3, <2>2 DEF WakeOwner, Process
  <2> HIDE DEF q
  <2>5. Inv' /\ Aged(q, PD'[owner]) /\ OthersAge({owner})
    BY <1>0, <2>2, <2>3, <2>4, SwitchMoves
  <2>6. Moved(owner, "READY")
    BY <2>3, <2>5 DEF Moved
  <2>7. Gone(e) /\ EventList' \in Seq(DOMAIN event) /\ Distinct(EventList')
    BY <1>3, <2>1, DestroyEventFacts DEF WakeOwner
  <2>8. EventOK([owner |-> 0, count |-> 0], DOMAIN PD')
    BY ConfigAssumption, EventAssumption DEF EventOK, EventType, UInts
  <2>9. EventObjects'
    BY <2>1, <2>5, <2>7, <2>8, EventReplaced DEF Gone, OthersAge
  <2> QED BY <1>0, <1>3, <2>1, <2>2, <2>5, <2>6, <2>7, <2>9 DEF EventFates, EventOutcome
<1>4. CASE err' = "NO_ERR" /\ mode' = "halted" /\ UNCHANGED <<PD, sched, eventVars>>
  BY <1>0, <1>4, StopKeepsEvents
<1> QED BY <1>1, <1>2, <1>3, <1>4 DEF Event_Signal

-----------------------------------------------------------------------------
(* The event groups.                                                       *)

\* Nobody begins to wait for bits, and nobody who waits is given a timer.
NoNewWaits ==
    \A p \in DOMAIN PD' : PD'[p].state = "WAIT_EVENTG" =>
        /\ p \in DOMAIN PD /\ PD[p].state = "WAIT_EVENTG"
        /\ PD'[p].request_timeout # 0 => PD[p].request_timeout # 0

\* The arguments of those who wait are the ones given.
LEMMA ArgumentsFacts ==
    ASSUME Inv', NEW args \in [1..MaxPid -> Request], Arguments(args)
    PROVE  /\ request' \in [1..MaxPid -> Request]
           /\ \A p \in DOMAIN PD' : PD'[p].state = "WAIT_EVENTG" => request'[p] = args[p]
<1>1. NoRequest \in Request
  BY DEF NoRequest, Request
<1>2. \A p \in DOMAIN PD' : p \in 1..MaxPid
  <2>1. DOMAIN PD' = 1..Len(PD') /\ Len(PD') \in Nat /\ Len(PD') <= MaxPid
    BY LenProperties DEF Inv, Table, VarTypes
  <2> QED BY <2>1, EnvironmentAssumption
<1> QED BY <1>1, <1>2 DEF Arguments, InState

\* Whoever waited for bits and still does, waits for bits that are not set, when
\* no group has gained a bit that could end its wait.
LEMMA GroupsKept ==
    ASSUME GroupObjects, GroupWaits, NoNewWaits,
           EventGroupList' \in Seq(DOMAIN events'), events' \in Seq(SUBSET Bits),
           request' \in [1..MaxPid -> Request],
           \A p \in DOMAIN PD' : PD'[p].state = "WAIT_EVENTG" => request'[p] = request[p],
           DOMAIN events \subseteq DOMAIN events',
           \A g \in DOMAIN events : events'[g] \subseteq events[g]
    PROVE  GroupObjects' /\ GroupWaits'
<1> SUFFICES ASSUME NEW p \in DOMAIN PD', PD'[p].state = "WAIT_EVENTG"
             PROVE  /\ request'[p].id \in DOMAIN events'
                    /\ ~HasItsBits(p, events)'
                    /\ ~SelfSuspend /\ PD'[p].request_timeout # 0 => request'[p].timed
  BY DEF GroupObjects, GroupWaits
<1>1. /\ p \in DOMAIN PD /\ PD[p].state = "WAIT_EVENTG" /\ request'[p] = request[p]
      /\ PD'[p].request_timeout # 0 => PD[p].request_timeout # 0
  BY DEF NoNewWaits
<1>2. /\ request[p].id \in DOMAIN events /\ ~HasItsBits(p, events)
      /\ ~SelfSuspend /\ PD[p].request_timeout # 0 => request[p].timed
  BY <1>1 DEF GroupWaits
<1>3. events'[request[p].id] \subseteq events[request[p].id]
  BY <1>2
<1>4. ~HasItsBits(p, events)'
  BY <1>1, <1>2, <1>3 DEF HasItsBits
<1> QED BY <1>1, <1>2, <1>4

\* No step of the scheduler, and no call on an event, makes a task wait for bits.
LEMMA EventFatesStartNoWait ==
    ASSUME Inv, EventFates
    PROVE  NoNewWaits
<1>1. CASE Fates
  BY <1>1, FatesStartNoWait DEF NoNewWaits, Waiting
<1>2. ASSUME NEW mover, NEW state, state # "WAIT_EVENTG",
             Moved(mover, state), OthersAge({mover})
      PROVE  NoNewWaits
  <2>1. PICK a \in Process : a.state = state /\ Aged(a, PD'[mover])
    BY <1>2 DEF Moved
  <2>2. PD'[mover].state # "WAIT_EVENTG"
    BY <1>2, <2>1, AgedWaitsNotAnew DEF Waiting
  <2>3. \A p \in DOMAIN PD \ {mover} : Aged(PD[p], PD'[p])
    BY <1>2 DEF OthersAge
  <2>4. \A p \in DOMAIN PD \ {mover} : PD'[p].state = "WAIT_EVENTG" =>
          /\ PD[p].state = "WAIT_EVENTG"
          /\ PD'[p].request_timeout # 0 => PD[p].request_timeout # 0
    BY <2>3 DEF Aged, Active
  <2> QED BY <1>2, <2>2, <2>4 DEF NoNewWaits, OthersAge
<1>3. CASE PD' = PD
  BY <1>3 DEF NoNewWaits
<1> QED BY <1>1, <1>2, <1>3 DEF EventFates, Opened, EventOutcome

\* The groups are left alone.
LEMMA GroupsUntouched ==
    ASSUME Inv', GroupObjects, GroupWaits, NoNewWaits,
           Arguments(request) \/ UNCHANGED request, UNCHANGED <<EventGroupList, events>>
    PROVE  GroupObjects' /\ GroupWaits'
<1>1. request \in [1..MaxPid -> Request]
  BY DEF GroupObjects
<1>2. request' \in [1..MaxPid -> Request]
      /\ \A p \in DOMAIN PD' : PD'[p].state = "WAIT_EVENTG" => request'[p] = request[p]
  BY <1>1, ArgumentsFacts
<1> QED BY <1>2, GroupsKept DEF GroupObjects

-----------------------------------------------------------------------------
(* The calls on event groups, one lemma each.                              *)

\* A call that is refused, stops, or only looks at the groups.
LEMMA RefusalKeepsGroups ==
    ASSUME EventsInv, UNCHANGED eventVars, UNCHANGED <<ProcessList, groupVars>>,
           \/ mode \in {"boot", "task"} /\ \E error \in Errors : Return(error, PD)
           \/ mode' = "halted" /\ err' \in Errors /\ UNCHANGED <<PD, sched>>
           \/ WriteThroughNull
    PROVE  EventsInv' /\ EventsFates
<1>1. Inv' /\ EventObjects' /\ EventsFates /\ PD' = PD
  <2>1. CASE mode \in {"boot", "task"} /\ \E error \in Errors : Return(error, PD)
    BY <2>1, RefusalKeepsEvents DEF EventsInv, EventsFates
  <2>2. CASE mode' = "halted" /\ err' \in Errors /\ UNCHANGED <<PD, sched>>
    BY <2>2, StopKeepsEvents DEF EventsInv, EventsFates
  <2>3. CASE WriteThroughNull
    BY <2>3, ThroughNullKeepsEvents DEF EventsInv, EventsFates
  <2> QED BY <2>1, <2>2, <2>3
<1>2. NoNewWaits
  BY <1>1 DEF NoNewWaits
<1> QED BY <1>1, <1>2, GroupsUntouched DEF EventsInv, groupVars

\* A call that changes groups only, and adds no bit.
LEMMA FewerBitsKeepGroups ==
    ASSUME EventsInv, UNCHANGED eventVars, UNCHANGED <<ProcessList, request>>,
           mode \in {"boot", "task"}, NEW error \in Errors, Return(error, PD),
           EventGroupList' \in Seq(DOMAIN events'), events' \in Seq(SUBSET Bits),
           DOMAIN events \subseteq DOMAIN events',
           \A g \in DOMAIN events : events'[g] \subseteq events[g]
    PROVE  EventsInv' /\ EventsFates
<1>1. Inv' /\ EventObjects' /\ EventsFates /\ PD' = PD
  BY RefusalKeepsEvents DEF EventsInv, EventsFates
<1>2. NoNewWaits /\ request' = request /\ request \in [1..MaxPid -> Request]
  BY <1>1 DEF NoNewWaits, EventsInv, GroupObjects
<1>3. GroupObjects' /\ GroupWaits'
  BY <1>2, GroupsKept DEF EventsInv
<1> QED BY <1>1, <1>3 DEF EventsInv

LEMMA CreateGroupKeeps ==
    ASSUME EventsInv, UNCHANGED eventVars, mode \in {"boot", "task"}, NEW noErr \in Errors,
           Kernel_Create_Event_Group(noErr)
    PROVE  EventsInv' /\ EventsFates
<1>1. CASE Return("MAX_OBJECT_ERR", PD) /\ UNCHANGED <<ProcessList, groupVars>>
  BY <1>1, RefusalKeepsGroups DEF Errors
<1>2. CASE WriteThroughNull /\ UNCHANGED groupVars
  BY <1>2, RefusalKeepsGroups DEF WriteThroughNull
<1>3. CASE /\ Return(noErr, PD) /\ UNCHANGED <<ProcessList, request>>
           /\ events' = Append(events, {})
           /\ EventGroupList' = Append(EventGroupList, Last_Event_Group_ID + 1)
  <2> DEFINE n == Len(events)
  <2>1. /\ events \in Seq(SUBSET Bits) /\ EventGroupList \in Seq(DOMAIN events)
        /\ n \in Nat /\ DOMAIN events = 1..n /\ {} \in SUBSET Bits
    BY LenProperties DEF EventsInv, GroupObjects
  <2>2. /\ events' \in Seq(SUBSET Bits) /\ DOMAIN events' = 1..(n + 1)
        /\ \A g \in 1..n : events'[g] = events[g]
    <3> HIDE DEF n
    <3>1. n = Len(events)
      BY DEF n
    <3> QED BY <1>3, <2>1, <3>1, AppendProperties, LenProperties
  <2>3. EventGroupList' = Append(EventGroupList, n + 1)
    BY <1>3 DEF Last_Event_Group_ID
  <2> HIDE DEF n
  <2>4. EventGroupList \in Seq(DOMAIN events') /\ n + 1 \in DOMAIN events'
    BY <2>1, <2>2, SeqMonotonic
  <2>5. EventGroupList' \in Seq(DOMAIN events')
    BY <2>3, <2>4, AppendProperties
  <2> QED BY <1>3, <2>1, <2>2, <2>5, FewerBitsKeepGroups
<1> QED BY <1>1, <1>2, <1>3 DEF Kernel_Create_Event_Group

LEMMA DestroyGroupKeeps ==
    ASSUME EventsInv, UNCHANGED eventVars, NEW g, Event_Group_Destroy(g)
    PROVE  EventsInv' /\ EventsFates
<1>0. mode \in {"boot", "task"} /\ UNCHANGED ProcessList
      /\ "NO_ERR" \in Errors /\ "OBJECT_NOT_FOUND_ERR" \in Errors
  BY DEF Event_Group_Destroy, Running, Errors
<1>1. CASE Return("OBJECT_NOT_FOUND_ERR", PD) /\ UNCHANGED groupVars
  BY <1>0, <1>1, RefusalKeepsGroups
<1>2. ASSUME NEW i \in DOMAIN EventGroupList, EventGroupList[i] = g,
             EventGroupList' = RemoveAt(EventGroupList, i),
             events' = [events EXCEPT ![g] = {}], UNCHANGED request, Return("NO_ERR", PD)
      PROVE  EventsInv' /\ EventsFates
  <2>1. EventGroupList \in Seq(DOMAIN events) /\ events \in Seq(SUBSET Bits)
        /\ i \in 1..Len(EventGroupList)
    BY <1>2, LenProperties DEF EventsInv, GroupObjects
  <2>2. g \in DOMAIN events
    BY <1>2, <2>1, ElementOfSeq
  <2>3. EventGroupList' \in Seq(DOMAIN events)
    BY <1>2, <2>1, RemoveAtFacts
  <2>4. events' \in Seq(SUBSET Bits) /\ DOMAIN events' = DOMAIN events
    BY <1>2, <2>1, <2>2, ExceptSeq
  <2>5. \A h \in DOMAIN events : events'[h] \subseteq events[h]
    BY <1>2, <2>2
  <2> QED BY <1>0, <1>2, <2>3, <2>4, <2>5, FewerBitsKeepGroups
<1>3. CASE err' = "NO_ERR" /\ mode' = "halted" /\ UNCHANGED <<PD, sched, groupVars>>
  BY <1>0, <1>3, RefusalKeepsGroups
<1> QED BY <1>1, <1>2, <1>3 DEF Event_Group_Destroy

LEMMA ClearBitsKeeps ==
    ASSUME EventsInv, UNCHANGED eventVars, NEW g, NEW bits, Event_Group_Clear_Bits(g, bits)
    PROVE  EventsInv' /\ EventsFates
<1>0. mode \in {"boot", "task"} /\ "NO_ERR" \in Errors /\ "OBJECT_NOT_FOUND_ERR" \in Errors
  BY DEF Event_Group_Clear_Bits, Running, Errors
<1>1. CASE NoSuchGroup(g)
  BY <1>0, <1>1, RefusalKeepsGroups DEF NoSuchGroup
<1>2. CASE /\ IsGroup(g)
           /\ events' = [events EXCEPT ![g] = @ \ bits]
           /\ Return("NO_ERR", PD)
           /\ UNCHANGED <<ProcessList, EventGroupList, request>>
  <2>1. EventGroupList \in Seq(DOMAIN events) /\ events \in Seq(SUBSET Bits)
    BY DEF EventsInv, GroupObjects
  <2>2. g \in DOMAIN events
    BY <1>2, <2>1, ElementOfSeq, LenProperties DEF IsGroup, ToSet
  <2>3. events[g] \ bits \in SUBSET Bits
    BY <2>1, <2>2, ElementOfSeq, LenProperties
  <2>4. events' \in Seq(SUBSET Bits) /\ DOMAIN events' = DOMAIN events
    BY <1>2, <2>1, <2>2, <2>3, ExceptSeq
  <2>5. \A h \in DOMAIN events : events'[h] \subseteq events[h]
    BY <1>2, <2>2
  <2> QED BY <1>0, <1>2, <2>1, <2>4, <2>5, FewerBitsKeepGroups
<1> QED BY <1>1, <1>2 DEF Event_Group_Clear_Bits

\* A wait is over when, and only when, the task has its bits.
LEMMA SatisfiedMeansBits ==
    ASSUME NEW set, NEW wanted, NEW all \in BOOLEAN
    PROVE  Satisfied(set, wanted, all) <=>
             IF all THEN wanted \subseteq set ELSE wanted = {} \/ wanted \cap set # {}
  BY DEF Satisfied

\* Whoever has its bits now is READY, nobody else is disturbed.
LEMMA SetBitsKeeps ==
    ASSUME EventsInv, UNCHANGED eventVars, NEW g, NEW bits \in SUBSET Bits,
           Event_Group_Set_Bits(g, bits)
    PROVE  EventsInv' /\ EventsFates
<1>0. Running /\ mode \in {"boot", "task"} /\ mode # "boot"
      /\ "NO_ERR" \in Errors /\ "OBJECT_NOT_FOUND_ERR" \in Errors
  BY DEF Event_Group_Set_Bits, Running, Errors
<1>1. CASE NoSuchGroup(g)
  BY <1>0, <1>1, RefusalKeepsGroups DEF NoSuchGroup
<1> DEFINE Served1(p) == /\ p \in Listed(ProcessList)
                         /\ PD[p].state = "WAIT_EVENTG"
                         /\ request[p].id = g
                         /\ Satisfied(events'[g], request[p].bits, request[p].all)
           ready(p) == [PD[p] EXCEPT !.state = "READY"]
           f == [p \in DOMAIN PD |-> IF Served1(p) THEN ready(p) ELSE PD[p]]
<1>2. CASE /\ IsGroup(g)
           /\ events' = [events EXCEPT ![g] = @ \cup bits]
           /\ Return("NO_ERR", f)
           /\ Arguments(request)
           /\ UNCHANGED <<ProcessList, EventGroupList>>
  <2>1. EventGroupList \in Seq(DOMAIN events) /\ events \in Seq(SUBSET Bits)
        /\ request \in [1..MaxPid -> Request] /\ Inv
    BY DEF EventsInv, GroupObjects
  <2>2. g \in DOMAIN events
    BY <1>2, <2>1, ElementOfSeq, LenProperties DEF IsGroup, ToSet
  <2>3. events[g] \cup bits \in SUBSET Bits
    BY <2>1, <2>2, ElementOfSeq, LenProperties
  <2>4. /\ events' \in Seq(SUBSET Bits) /\ DOMAIN events' = DOMAIN events
        /\ \A h \in DOMAIN events : h # g => events'[h] = events[h]
    BY <1>2, <2>1, <2>2, <2>3, ExceptSeq
  <2>5. /\ Table(PD, ProcessList) /\ OnlyCurrentRuns(PD) /\ Len(PD) <= MaxPid /\ CallerRuns
        /\ \A p \in DOMAIN PD : PD[p] \in Process
        /\ \A p \in DOMAIN PD : PD[p].state = "SUSPENDED" => PD[p].last_state \in {"READY", "SLEEPING"}
        /\ \A p \in DOMAIN PD : p \in 1..MaxPid
        /\ \A p \in DOMAIN PD : PD[p].state # "DEAD" => p \in Listed(ProcessList)
    <3>1. PD \in Seq(Process) /\ DOMAIN PD = 1..Len(PD) /\ Len(PD) \in Nat /\ Len(PD) <= MaxPid
      BY <2>1, LenProperties DEF Inv, Table, VarTypes
    <3>2. \A p \in DOMAIN PD : PD[p] \in Process
      BY <3>1, ElementOfSeq
    <3> QED BY <2>1, <3>1, <3>2, EnvironmentAssumption DEF Inv, Table
  <2>6. \A p \in DOMAIN PD :
          /\ ready(p) \in Process /\ ready(p).state = "READY"
          /\ ready(p).last_state = PD[p].last_state
          /\ ready(p).request_timeout = PD[p].request_timeout
    BY <2>5 DEF Process, States
  <2> HIDE DEF ready
  <2>7. \A p \in DOMAIN PD : f[p] = IF Served1(p) THEN ready(p) ELSE PD[p]
    OBVIOUS
  <2>8. f = [p \in DOMAIN PD |-> f[p]]
    OBVIOUS
  <2>9. \A p \in DOMAIN PD : Served1(p) => PD[p].state = "WAIT_EVENTG"
    OBVIOUS
  <2> HIDE DEF f, Served1
  <2>10. Table(f, ProcessList) /\ DOMAIN f = DOMAIN PD /\ Len(f) = Len(PD)
    <3>1. \A p \in DOMAIN PD :
            /\ f[p] \in Process
            /\ f[p].state = "DEAD" <=> PD[p].state = "DEAD"
            /\ f[p].state = "SUSPENDED" => f[p].last_state \in {"READY", "SLEEPING"}
      BY <2>5, <2>6, <2>7, <2>9
    <3> QED BY <2>5, <2>8, <3>1, TableKept
  <2>11. OnlyCurrentRuns(f)
    BY <2>5, <2>6, <2>7, <2>10 DEF OnlyCurrentRuns
  <2>12. CallerRuns => (~SelfSuspend /\ mode = "task" => f[Current_Process].state = "RUNNING")
    <3>1. Current_Process \in DOMAIN PD
      BY <1>0, <2>1, CallFacts
    <3> QED BY <2>7, <2>9, <3>1 DEF CallerRuns, CurrentIsRunning
  <2>13. Inv'
    BY <1>0, <1>2, <2>1, <2>5, <2>10, <2>11, <2>12, ReturnKeepsInv
  <2>14. PD' = f /\ DOMAIN PD' = DOMAIN PD
    BY <1>2, <2>10 DEF Return
  <2>15. EventObjects'
    BY <2>14, EventsKept DEF EventsInv
  <2>16. ASSUME NEW p \in DOMAIN PD, PD[p].state = "WAIT_EVENTG", request[p].id = g
         PROVE  Served1(p) <=> HasItsBits(p, events')
    <3>1. request[p].all \in BOOLEAN /\ p \in Listed(ProcessList)
      BY <2>1, <2>5, <2>16 DEF Request
    <3> QED BY <2>16, <3>1, SatisfiedMeansBits DEF HasItsBits, Served1
  <2>17. Served
    <3> SUFFICES ASSUME NEW p \in DOMAIN PD, PD'[p] # PD[p]
                 PROVE  /\ PD[p].state = "WAIT_EVENTG" /\ PD'[p].state = "READY"
                        /\ PD'[p].last_state = PD[p].last_state
                        /\ PD'[p].request_timeout = PD[p].request_timeout
                        /\ IsGroup(request[p].id) /\ HasItsBits(p, events')
      BY <2>14 DEF Served
    <3>1. Served1(p) /\ PD'[p] = ready(p)
      BY <2>7, <2>14
    <3>2. PD[p].state = "WAIT_EVENTG" /\ request[p].id = g
      BY <3>1 DEF Served1
    <3> QED BY <1>2, <2>6, <2>16, <3>1, <3>2
  <2>18. ASSUME NEW p \in DOMAIN PD', PD'[p].state = "WAIT_EVENTG"
         PROVE  /\ request'[p].id \in DOMAIN events'
                /\ ~HasItsBits(p, events)'
                /\ ~SelfSuspend /\ PD'[p].request_timeout # 0 => request'[p].timed
    <3>1. PD'[p] = PD[p] /\ p \in DOMAIN PD /\ ~Served1(p)
      BY <2>6, <2>7, <2>14, <2>18
    <3>2. request'[p] = request[p]
      BY <1>2, <2>1, <2>13, <2>18, ArgumentsFacts
    <3>3. /\ request[p].id \in DOMAIN events /\ ~HasItsBits(p, events)
          /\ ~SelfSuspend /\ PD[p].request_timeout # 0 => request[p].timed
      BY <2>18, <3>1 DEF EventsInv, GroupWaits
    <3>4. ~HasItsBits(p, events')
      <4>1. CASE request[p].id = g
        BY <2>16, <2>18, <3>1, <4>1
      <4>2. CASE request[p].id # g
        BY <2>4, <3>3, <4>2 DEF HasItsBits
      <4> QED BY <4>1, <4>2
    <3>5. ~HasItsBits(p, events)'
      BY <3>2, <3>4 DEF HasItsBits
    <3> QED BY <2>4, <3>1, <3>2, <3>3, <3>5
  <2>19. GroupObjects' /\ GroupWaits'
    <3>1. request' \in [1..MaxPid -> Request]
      BY <1>2, <2>1, <2>13, ArgumentsFacts
    <3> QED BY <1>2, <2>1, <2>4, <2>18, <3>1 DEF GroupObjects, GroupWaits
  <2> QED BY <2>13, <2>15, <2>17, <2>19 DEF EventsInv, EventsFates
<1> QED BY <1>1, <1>2 DEF Event_Group_Set_Bits

LEMMA GetBitsKeeps ==
    ASSUME EventsInv, UNCHANGED eventVars, Event_Group_Get_Bits
    PROVE  EventsInv' /\ EventsFates
  BY RefusalKeepsGroups DEF Event_Group_Get_Bits, Running, Errors

\* The caller goes on, with its timer set ...
LEMMA ArmedKeeps ==
    ASSUME EventsInv, UNCHANGED eventVars, UNCHANGED <<ProcessList, groupVars>>,
           Running, NEW t \in Timeouts, t > 0 => Current_Process \in TimedTasks,
           Return("NO_ERR", Armed(t))
    PROVE  EventsInv' /\ EventsFates
<1> DEFINE c == Current_Process
           q == [PD[c] EXCEPT !.request_timeout = t]
           f == [PD EXCEPT ![c] = q]
<1>0. Inv /\ mode \in {"boot", "task"} /\ mode # "boot" /\ "NO_ERR" \in Errors
  BY DEF EventsInv, Running, Errors
<1>1. /\ c \in DOMAIN PD /\ PD[c] \in Process /\ PD[c].state # "DEAD"
      /\ PD[c].state = "SUSPENDED" => PD[c].last_state \in {"READY", "SLEEPING"}
  BY <1>0, CallFacts, ElementOfSeq DEF Table
<1>2. /\ q \in Process /\ q.state = PD[c].state
      /\ q.last_state = PD[c].last_state /\ q.request_timeout = t
  BY <1>1, EventGroupAssumption DEF Process
<1>3. Return("NO_ERR", f)
  BY <1>1 DEF Armed, Process
<1> HIDE DEF q
<1>4. \A p \in DOMAIN PD : f[p] = IF p = c THEN q ELSE PD[p]
  OBVIOUS
<1>5. Table(f, ProcessList) /\ DOMAIN f = DOMAIN PD /\ Len(f) = Len(PD)
  BY <1>0, <1>1, <1>2, CallFacts, UpdateKeepsTable
<1> HIDE DEF f
<1>6. OnlyCurrentRuns(f)
      /\ (CallerRuns => (~SelfSuspend /\ mode = "task" => f[c].state = "RUNNING"))
  BY <1>0, <1>1, <1>2, <1>4, <1>5 DEF Inv, OnlyCurrentRuns, CallerRuns, CurrentIsRunning
<1>7. Inv'
  BY <1>0, <1>3, <1>5, <1>6, CallFacts, ReturnKeepsInv
<1>8. PD' = f /\ PD'[c] = q
  BY <1>1, <1>3, <1>4 DEF Return
<1>9. EventObjects'
  BY <1>5, <1>8, EventsKept DEF EventsInv
<1>10. OthersAge({c})
  BY <1>4, <1>5, <1>8, AgedReflexive DEF OthersAge
<1>11. AskedForBits
  BY <1>2, <1>8, <1>10, AgedReflexive DEF AskedForBits
<1>12. ASSUME NEW p \in DOMAIN PD', PD'[p].state = "WAIT_EVENTG"
       PROVE  /\ request'[p].id \in DOMAIN events'
              /\ ~HasItsBits(p, events)'
              /\ ~SelfSuspend /\ PD'[p].request_timeout # 0 => request'[p].timed
  <2>1. p \in DOMAIN PD /\ PD[p].state = "WAIT_EVENTG"
    BY <1>2, <1>4, <1>5, <1>8, <1>12
  <2>2. request' = request /\ events' = events
    BY DEF groupVars
  <2>3. /\ request[p].id \in DOMAIN events /\ ~HasItsBits(p, events)
        /\ ~SelfSuspend /\ PD[p].request_timeout # 0 => request[p].timed
    BY <2>1 DEF EventsInv, GroupWaits
  <2>4. ~HasItsBits(p, events)'
    BY <2>2, <2>3 DEF HasItsBits
  <2>5. CASE p = c
    <3>1. SelfSuspend
      BY <1>0, <2>1, <2>5 DEF Inv, CallerRuns, CurrentIsRunning, Running
    <3> QED BY <2>2, <2>3, <2>4, <3>1
  <2>6. CASE p # c
    BY <1>4, <1>8, <2>1, <2>2, <2>3, <2>4, <2>6
  <2> QED BY <2>5, <2>6
<1>13. GroupObjects' /\ GroupWaits'
  <2>1. UNCHANGED <<EventGroupList, events, request>>
    BY DEF groupVars
  <2>2. GroupObjects'
    BY <2>1 DEF EventsInv, GroupObjects
  <2> QED BY <1>12, <2>2 DEF GroupWaits
<1> QED BY <1>7, <1>9, <1>11, <1>13 DEF EventsInv, EventsFates

\* ... or waits for bits that are not set.
LEMMA WaitForBitsKeeps ==
    ASSUME EventsInv, UNCHANGED eventVars, UNCHANGED <<ProcessList, EventGroupList, events>>,
           Running, NEW g, NEW bits \in SUBSET Bits, NEW all \in BOOLEAN,
           NEW t \in Timeouts, t > 0 => Current_Process \in TimedTasks,
           IsGroup(g), ~Satisfied(events[g], bits, all),
           Switch("NO_ERR", [Armed(t) EXCEPT ![Current_Process].state = "WAIT_EVENTG"]),
           Arguments([request EXCEPT ![Current_Process] =
                          [id |-> g, bits |-> bits, all |-> all, timed |-> t > 0]])
    PROVE  EventsInv' /\ EventsFates
<1> DEFINE c    == Current_Process
           q    == [PD[c] EXCEPT !.request_timeout = t, !.state = "WAIT_EVENTG"]
           r    == [id |-> g, bits |-> bits, all |-> all, timed |-> t > 0]
           args == [request EXCEPT ![c] = r]
<1>0. /\ Inv /\ EventGroupList \in Seq(DOMAIN events) /\ events \in Seq(SUBSET Bits)
      /\ request \in [1..MaxPid -> Request] /\ t \in UInts
  BY EventGroupAssumption DEF EventsInv, GroupObjects
<1>1. /\ c \in DOMAIN PD /\ PD[c] \in Process /\ PD[c].state # "DEAD" /\ c \in 1..MaxPid
  <2>1. c \in DOMAIN PD /\ PD \in Seq(Process) /\ c \in Listed(ProcessList)
        /\ DOMAIN PD = 1..Len(PD) /\ Len(PD) \in Nat /\ Len(PD) <= MaxPid
    BY <1>0, CallFacts DEF Table
  <2> QED BY <1>0, <2>1, ElementOfSeq, EnvironmentAssumption DEF Inv, Table
<1>2. /\ q \in Process /\ q.state = "WAIT_EVENTG"
      /\ q.last_state = PD[c].last_state /\ q.request_timeout = t
  BY <1>0, <1>1 DEF Process, States
<1>3. Switch("NO_ERR", [PD EXCEPT ![c] = q])
  BY <1>1 DEF Armed, Process
<1> HIDE DEF q
<1>4. Inv' /\ Aged(q, PD'[c]) /\ OthersAge({c})
  BY <1>0, <1>1, <1>2, <1>3, SwitchMoves
<1>5. DOMAIN PD' = DOMAIN PD
  BY <1>4 DEF OthersAge
<1>6. EventObjects'
  BY <1>5, EventsKept DEF EventsInv
<1>7. AskedForBits
  BY <1>2, <1>4 DEF AskedForBits
<1>8. g \in DOMAIN events
  BY <1>0, ElementOfSeq, LenProperties DEF IsGroup, ToSet
<1>9. r \in Request /\ r.id = g /\ r.bits = bits /\ r.all = all /\ r.timed = (t > 0)
  <2>1. g \in Nat
    BY <1>0, <1>8, LenProperties
  <2>2. (t > 0) \in BOOLEAN
    OBVIOUS
  <2>3. ASSUME NEW timed \in BOOLEAN
        PROVE  LET a == [id |-> g, bits |-> bits, all |-> all, timed |-> timed]
               IN a \in Request /\ a.id = g /\ a.bits = bits /\ a.all = all /\ a.timed = timed
    BY <2>1 DEF Request
  <2> QED BY <2>2, <2>3, Zenon
<1> HIDE DEF r
<1>10. /\ args \in [1..MaxPid -> Request] /\ args[c] = r
       /\ \A p \in 1..MaxPid : p # c => args[p] = request[p]
  BY <1>0, <1>1, <1>9
<1> HIDE DEF args
<1>11. /\ request' \in [1..MaxPid -> Request]
       /\ \A p \in DOMAIN PD' : PD'[p].state = "WAIT_EVENTG" => request'[p] = args[p]
  <2>1. Arguments(args)
    BY DEF args, r
  <2> QED BY <1>4, <1>10, <2>1, ArgumentsFacts
<1>12. ASSUME NEW p \in DOMAIN PD', PD'[p].state = "WAIT_EVENTG"
       PROVE  /\ request'[p].id \in DOMAIN events'
              /\ ~HasItsBits(p, events)'
              /\ ~SelfSuspend /\ PD'[p].request_timeout # 0 => request'[p].timed
  <2>1. request'[p] = args[p] /\ events' = events
    BY <1>11, <1>12
  <2>2. CASE p = c
    <3>1. request'[p] = r
      BY <1>10, <2>1, <2>2
    <3>2. ~HasItsBits(p, events)'
      BY <1>9, <2>1, <3>1, SatisfiedMeansBits DEF HasItsBits
    <3>3. PD'[p].request_timeout # 0 => t # 0
      BY <1>2, <1>4, <2>2 DEF Aged
    <3>4. t # 0 => t > 0
      BY <1>0, ConfigAssumption DEF UInts
    <3>5. t > 0 => request'[p].timed
      BY <1>9, <3>1, Zenon
    <3> QED BY <1>8, <1>9, <2>1, <3>1, <3>2, <3>3, <3>4, <3>5
  <2>3. CASE p # c
    <3>1. Aged(PD[p], PD'[p]) /\ p \in DOMAIN PD /\ p \in 1..MaxPid
      <4>1. DOMAIN PD = 1..Len(PD) /\ Len(PD) \in Nat /\ Len(PD) <= MaxPid
        BY <1>0, CallFacts
      <4> QED BY <1>4, <1>5, <1>12, <2>3, <4>1, EnvironmentAssumption DEF OthersAge
    <3>2. PD[p].state = "WAIT_EVENTG" /\ (PD'[p].request_timeout # 0 => PD[p].request_timeout # 0)
      BY <1>12, <3>1 DEF Aged, Active
    <3>3. request'[p] = request[p]
      BY <1>10, <2>1, <2>3, <3>1
    <3>4. /\ request[p].id \in DOMAIN events /\ ~HasItsBits(p, events)
          /\ ~SelfSuspend /\ PD[p].request_timeout # 0 => request[p].timed
      BY <3>1, <3>2 DEF EventsInv, GroupWaits
    <3>5. ~HasItsBits(p, events)'
      BY <2>1, <3>3, <3>4 DEF HasItsBits
    <3> QED BY <2>1, <3>2, <3>3, <3>4, <3>5
  <2> QED BY <2>2, <2>3
<1>13. GroupObjects' /\ GroupWaits'
  BY <1>0, <1>11, <1>12 DEF GroupObjects, GroupWaits
<1> QED BY <1>4, <1>6, <1>7, <1>13 DEF EventsInv, EventsFates

LEMMA WaitBitsKeeps ==
    ASSUME EventsInv, UNCHANGED eventVars, NEW g, NEW bits \in SUBSET Bits, NEW all \in BOOLEAN,
           NEW t \in Timeouts, t > 0 => Current_Process \in TimedTasks,
           Event_Group_Wait_Bits(g, bits, all, t)
    PROVE  EventsInv' /\ EventsFates
<1>1. CASE Return("NO_ERR", Armed(t)) /\ UNCHANGED request
  BY <1>1, ArmedKeeps DEF Event_Group_Wait_Bits, groupVars
<1>2. CASE /\ IsGroup(g)
           /\ ~Satisfied(events[g], bits, all)
           /\ Switch("NO_ERR", [Armed(t) EXCEPT ![Current_Process].state = "WAIT_EVENTG"])
           /\ Arguments([request EXCEPT ![Current_Process] =
                            [id |-> g, bits |-> bits, all |-> all, timed |-> t > 0]])
  BY <1>2, WaitForBitsKeeps DEF Event_Group_Wait_Bits
<1> QED BY <1>1, <1>2 DEF Event_Group_Wait_Bits

-----------------------------------------------------------------------------
(* The invariant.                                                          *)

LEMMA EventsInitEstablishes == EventsInit => EventsInv
<1> SUFFICES ASSUME EventsInit PROVE EventsInv
  OBVIOUS
<1>1. Inv /\ PD = <<>>
  BY InitEstablishesInv DEF EventsInit, Init
<1>2. EventObjects
  BY DEF EventsInit, EventInit, EventObjects, Distinct
<1>3. NoRequest \in Request
  BY DEF NoRequest, Request
<1>4. GroupObjects
  BY <1>3 DEF EventsInit, GroupInit, GroupObjects
<1>5. GroupWaits
  BY <1>1 DEF GroupWaits
<1> QED BY <1>1, <1>2, <1>4, <1>5 DEF EventsInv

LEMMA GroupCallKeeps ==
    ASSUME EventsInv, GroupCall, UNCHANGED eventVars
    PROVE  EventsInv' /\ EventsFates
<1>1. BitArgs \subseteq SUBSET Bits
  BY EventGroupAssumption
<1>2. CASE Event_Group_Create
  <2>1. err \in Errors /\ "NO_ERR" \in Errors
    BY DEF EventsInv, Inv, VarTypes, Errors
  <2> QED BY <1>2, <2>1, CreateGroupKeeps DEF Event_Group_Create, Running
<1>3. CASE \E g \in GroupArgs : Event_Group_Destroy(g)
  BY <1>3, DestroyGroupKeeps
<1>4. CASE \E g \in GroupArgs, bits \in BitArgs :
             Event_Group_Set_Bits(g, bits) \/ Event_Group_Clear_Bits(g, bits)
  BY <1>1, <1>4, SetBitsKeeps, ClearBitsKeeps
<1>5. CASE Event_Group_Get_Bits
  BY <1>5, GetBitsKeeps
<1> QED BY <1>2, <1>3, <1>4, <1>5 DEF GroupCall

LEMMA EventCallKeeps ==
    ASSUME Inv, EventObjects, EventCall
    PROVE  Inv' /\ EventObjects' /\ EventFates /\ NoNewWaits
<1>1. CASE Event_Create
  <2>1. err \in Errors /\ "NO_ERR" \in Errors
    BY DEF Inv, VarTypes, Errors
  <2>2. Inv' /\ EventObjects' /\ EventFates
    BY <1>1, <2>1, CreateKeepsEvents DEF Event_Create, Running
  <2> QED BY <2>2, EventFatesStartNoWait
<1>2. ASSUME NEW e, Event_Wait(e) \/ Event_Signal(e)
      PROVE  Inv' /\ EventObjects' /\ EventFates /\ NoNewWaits
  <2>1. Inv' /\ EventObjects' /\ EventFates
    BY <1>2, WaitKeepsEvents, SignalKeepsEvents
  <2> QED BY <2>1, EventFatesStartNoWait
<1> QED BY <1>1, <1>2 DEF EventCall

\* Every step keeps the invariant, and is one of the outcomes.
LEMMA EventsStep == EventsInv /\ [EventsNext]_allVars => EventsInv' /\ EventsFates
<1> SUFFICES ASSUME EventsInv, [EventsNext]_allVars PROVE EventsInv' /\ EventsFates
  OBVIOUS
<1>1. CASE GroupCall /\ UNCHANGED eventVars
  BY <1>1, GroupCallKeeps
<1>2. CASE WaitCall /\ UNCHANGED eventVars
  <2>1. PICK g \in GroupArgs, bits \in BitArgs, all \in BOOLEAN, t \in Timeouts :
          /\ t > 0 => Current_Process \in TimedTasks
          /\ Event_Group_Wait_Bits(g, bits, all, t)
    BY <1>2 DEF WaitCall
  <2>2. bits \in SUBSET Bits
    BY EventGroupAssumption
  <2> QED BY <1>2, <2>1, <2>2, WaitBitsKeeps
<1>3. ASSUME Inv', EventObjects', EventFates, NoNewWaits,
             Arguments(request) \/ UNCHANGED request, UNCHANGED <<EventGroupList, events>>
      PROVE  EventsInv' /\ EventsFates
  BY <1>3, GroupsUntouched DEF EventsInv, EventsFates
<1>4. CASE EventCall /\ Arguments(request) /\ UNCHANGED <<EventGroupList, events>>
  BY <1>3, <1>4, EventCallKeeps DEF EventsInv
<1>5. ASSUME [Next]_vars, UNCHANGED eventVars,
             Arguments(request) \/ UNCHANGED request, UNCHANGED <<EventGroupList, events>>
      PROVE  EventsInv' /\ EventsFates
  <2>1. Inv' /\ Fates
    BY <1>5, NextKeepsInv, NextFates DEF EventsInv
  <2>2. EventFates /\ EventObjects'
    BY <1>5, <2>1, EventsKept DEF EventFates, EventsInv, Fates
  <2>3. NoNewWaits
    BY <2>2, EventFatesStartNoWait DEF EventsInv
  <2> QED BY <1>3, <1>5, <2>1, <2>2, <2>3
<1>6. CASE Next /\ Arguments(request) /\ UNCHANGED <<eventVars, EventGroupList, events>>
  BY <1>5, <1>6 DEF eventVars
<1>7. CASE UNCHANGED allVars
  BY <1>5, <1>7 DEF allVars, groupVars
<1> QED BY <1>1, <1>2, <1>4, <1>6, <1>7 DEF EventsNext

\* The invariant of the scheduler, the events and the groups holds in every
\* reachable state.
THEOREM EventsInvariance == EventsSpec => []EventsInv
  BY EventsInitEstablishes, EventsStep, PTL DEF EventsSpec

\* Every variable keeps its type: an event has an owner or counted signals, never
\* both, and no more signals than the limit says.
THEOREM EventsTypeCorrect == EventsSpec => []EventsTypeOK
  BY EventsInvariance, EventsInvImplies, PTL

\* No wakeup is lost: however bits are set and cleared, groups are destroyed and
\* waits time out, no task waits for bits that are there.
THEOREM NoLostBits == EventsSpec => []NobodyWaitsForSetBits
  BY EventsInvariance, EventsInvImplies, PTL

\* A wait for bits ends with the bits or with the time limit of that very wait,
\* when no task suspends itself in the middle of a call and as long as the task
\* owns no event.
THEOREM BitWaitsEndWell ==
    ASSUME ~SelfSuspend
    PROVE  EventsSpec => WaitersWaitForBits
<1> DEFINE Ends(p) ==
        \/ IsGroup(request[p].id) /\ HasItsBits(p, events')
        \/ /\ request[p].timed
           /\ PD[p].request_timeout > 0
           /\ PD'[p].request_timeout = 0
<1>1. ASSUME EventsInv, EventsFates, NEW p \in DOMAIN PD, PD[p].state = "WAIT_EVENTG",
             Owned(p) = {}, PD'[p].state # "WAIT_EVENTG"
      PROVE  Ends(p)
  <2>1. Inv /\ (PD[p].request_timeout # 0 => request[p].timed)
    BY <1>1 DEF EventsInv, GroupWaits
  <2>2. Running => p # Current_Process
    BY <1>1, <2>1 DEF Inv, CallerRuns, CurrentIsRunning, Running
  <2>3. PD[p].request_timeout # 0 => PD[p].request_timeout > 0
    <3>1. PD[p] \in Process
      BY <2>1, ElementOfSeq, LenProperties DEF Inv, Table
    <3> QED BY <3>1, ConfigAssumption DEF Process, UInts
  <2>4. CASE Aged(PD[p], PD'[p])
    BY <1>1, <2>1, <2>3, <2>4 DEF Aged, Active
  <2>5. CASE Fates
    <3>1. Fate(p)
      BY <2>5 DEF Fates
    <3> QED BY <1>1, <2>2, <2>4, <3>1 DEF Fate, Suspended, Resumed, Running
  <2>6. CASE Served
    BY <1>1, <2>6 DEF Served
  <2>7. CASE AskedForBits
    BY <2>2, <2>4, <2>7 DEF AskedForBits, OthersAge
  <2>8. CASE Running /\ \E e \in DOMAIN event : IsEvent(e) /\ EventOutcome(e)
    <3>1. PICK e \in DOMAIN event : IsEvent(e) /\ EventOutcome(e)
      BY <2>8
    <3>2. event[e].owner # p
      BY <1>1, <3>1 DEF Owned, IsEvent
    <3>3. PD' = PD \/ Aged(PD[p], PD'[p])
      BY <2>2, <2>8, <3>1, <3>2 DEF EventOutcome, OthersAge
    <3> QED BY <1>1, <2>4, <3>3
  <2>9. CASE PD' = PD
    BY <1>1, <2>9
  <2> QED BY <1>1, <2>5, <2>6, <2>7, <2>8, <2>9 DEF EventsFates, EventFates, Opened
<1>2. EventsInv /\ [EventsNext]_allVars =>
        [\A p \in DOMAIN PD :
            (InState(p, {"WAIT_EVENTG"}) /\ Owned(p) = {} /\ PD'[p].state # "WAIT_EVENTG") =>
               Ends(p)]_allVars
  BY <1>1, EventsStep DEF InState
<1> QED BY <1>2, EventsInvariance, PTL DEF EventsSpec, WaitersWaitForBits

-----------------------------------------------------------------------------
(* The owners of events, when a new descriptor has no timer and no task       *)
(* suspends itself in the middle of a call.                                   *)

\* Process p is in WAIT_EVENT only if it owns an event; a task that gives no time
\* limit has no timer to throw it out of its waits, and is in WAIT_EVENT while it
\* owns an event, which is the only one.
OwnsOne(p) ==
    /\ PD[p].state = "WAIT_EVENT" => Owned(p) # {}
    /\ p \notin TimedTasks =>
          /\ Timely(PD[p])
          /\ Owned(p) # {} => /\ PD[p].state = "WAIT_EVENT"
                              /\ \A d, e \in Owned(p) : d = e

OwnInv == \A p \in DOMAIN PD : OwnsOne(p)

LEMMA OwnInvImplies == OwnInv => OwnersWait
  BY DEF OwnInv, OwnsOne, OwnersWait

\* Its events are the same and it waits as before, or has grown old.
LEMMA AgedOwns ==
    ASSUME NEW p \in DOMAIN PD, OwnsOne(p), Owned(p)' = Owned(p),
           \/ Aged(PD[p], PD'[p])
           \/ /\ PD'[p].state = "WAIT_EVENT" => PD[p].state = "WAIT_EVENT"
              /\ p \notin TimedTasks => Timely(PD'[p]) /\ WaitsAlike(PD[p], PD'[p])
    PROVE  OwnsOne(p)'
<1>1. PD'[p].state = "WAIT_EVENT" => PD[p].state = "WAIT_EVENT"
  BY AgedWaitsNotAnew DEF Waiting
<1>2. p \notin TimedTasks => Timely(PD'[p]) /\ WaitsAlike(PD[p], PD'[p])
  BY AgedWaitsAlike DEF OwnsOne
<1> QED BY <1>1, <1>2 DEF OwnsOne, WaitsAlike, Waiting

\* Calls on events change who owns what.
LEMMA OutcomeOwns ==
    ASSUME EventsInv, OwnInv, ~SelfSuspend, Running,
           NEW e \in DOMAIN event, IsEvent(e), EventOutcome(e)
    PROVE  OwnInv'
<1>0. PICK c, owner : c = Current_Process /\ owner = event[e].owner
  OBVIOUS
<1>1. /\ c \in DOMAIN PD /\ PD[c].state = "RUNNING" /\ c # 0 /\ ~(0 \in DOMAIN PD)
  <2>1. DOMAIN PD = 1..Len(PD) /\ Current_Process \in DOMAIN PD
    BY CallFacts DEF EventsInv
  <2> QED BY <1>0, <2>1 DEF EventsInv, Inv, CallerRuns, CurrentIsRunning, Running
<1>2. /\ \A d \in ToSet(EventList) : d \in DOMAIN event
      /\ e \in ToSet(EventList) /\ event[e] \in EventType
  <2>1. EventList \in Seq(DOMAIN event)
    BY DEF EventsInv, EventObjects
  <2> QED BY <2>1, ElementOfSeq, LenProperties DEF ToSet, IsEvent, EventsInv, EventObjects, EventOK
<1>3. \A p \in DOMAIN PD : OwnsOne(p)
  BY DEF OwnInv
<1>4. CASE owner = 0 /\ PD' = PD /\ Gone(e)
  <2>1. \A p \in DOMAIN PD : Owned(p)' = Owned(p)
    BY <1>0, <1>1, <1>2, <1>4 DEF Owned, Gone
  <2> QED BY <1>3, <1>4, <2>1, AgedReflexive, AgedOwns DEF OwnInv
<1>5. CASE /\ owner \in {0, c} /\ Changed(e, [owner |-> c, count |-> 0])
           /\ Moved(c, "WAIT_EVENT") /\ OthersAge({c})
  <2>1. \A p \in DOMAIN PD : Owned(p)' = IF p = c THEN Owned(p) \cup {e} ELSE Owned(p)
    BY <1>0, <1>1, <1>2, <1>5 DEF Owned, Changed
  <2>2. PICK a \in Process : a.state = "WAIT_EVENT" /\ a.request_timeout = PD[c].request_timeout
                             /\ Aged(a, PD'[c])
    BY <1>5 DEF Moved
  <2>3. ASSUME c \notin TimedTasks
        PROVE  Timely(PD'[c]) /\ PD'[c].state = "WAIT_EVENT" /\ Owned(c)' = {e}
    <3>1. Timely(PD[c]) /\ Owned(c) = {}
      BY <1>1, <1>3, <2>3 DEF OwnsOne
    <3>2. Timely(a)
      BY <1>1, <2>2, <3>1 DEF Timely
    <3> QED BY <1>1, <2>1, <2>2, <3>1, <3>2, AgedWaitsAlike DEF WaitsAlike, Waiting
  <2>4. OwnsOne(c)'
    BY <1>1, <2>1, <2>3 DEF OwnsOne
  <2>5. \A p \in DOMAIN PD \ {c} : OwnsOne(p)'
    BY <1>3, <1>5, <2>1, AgedOwns DEF OthersAge
  <2> QED BY <1>5, <2>4, <2>5 DEF OwnInv, OthersAge
<1>6. CASE owner = 0 /\ PD' = PD /\ Changed(e, [owner |-> 0, count |-> Counted(event[e].count)])
  <2>1. \A p \in DOMAIN PD : Owned(p)' = Owned(p)
    BY <1>0, <1>1, <1>2, <1>6 DEF Owned, Changed
  <2> QED BY <1>3, <1>6, <2>1, AgedReflexive, AgedOwns DEF OwnInv
<1>7. CASE owner \in DOMAIN PD /\ Gone(e) /\ Moved(owner, "READY") /\ OthersAge({owner})
  <2>1. /\ \A p \in DOMAIN PD : Owned(p)' = Owned(p) \ {e}
        /\ \A p \in DOMAIN PD \ {owner} : e \notin Owned(p)
        /\ e \in Owned(owner)
    BY <1>0, <1>1, <1>2, <1>7 DEF Owned, Gone
  <2>2. PICK a \in Process : a.state = "READY" /\ a.request_timeout = PD[owner].request_timeout
                             /\ Aged(a, PD'[owner])
    BY <1>7 DEF Moved
  <2>3. PD'[owner].state # "WAIT_EVENT"
    BY <2>2, AgedWaitsNotAnew DEF Waiting
  <2>4. ASSUME owner \notin TimedTasks
        PROVE  Timely(PD'[owner]) /\ Owned(owner)' = {}
    <3>1. /\ Timely(PD[owner]) /\ PD[owner].state = "WAIT_EVENT"
          /\ \A d \in Owned(owner) : d = e
      BY <1>3, <1>7, <2>1, <2>4 DEF OwnsOne
    <3>2. Timely(a)
      BY <2>2, <3>1 DEF Timely
    <3> QED BY <1>7, <2>1, <2>2, <3>1, <3>2, AgedWaitsAlike
  <2>5. OwnsOne(owner)'
    BY <2>3, <2>4 DEF OwnsOne
  <2>6. \A p \in DOMAIN PD \ {owner} : OwnsOne(p)'
    BY <1>3, <1>7, <2>1, AgedOwns DEF OthersAge
  <2> QED BY <1>7, <2>5, <2>6 DEF OwnInv, OthersAge
<1> QED BY <1>0, <1>4, <1>5, <1>6, <1>7 DEF EventOutcome

LEMMA StepKeepsOwnInv ==
    ASSUME ~SelfSuspend, FreshTimeouts \subseteq {0}, EventsInv, OwnInv, EventsInv', EventsFates
    PROVE  OwnInv'
<1>1. \A p \in DOMAIN PD : OwnsOne(p)
  BY DEF OwnInv
<1>2. Inv /\ ~(0 \in DOMAIN PD) /\ \A e \in DOMAIN event : event[e].owner \in {0} \cup DOMAIN PD
  <2>1. Inv /\ DOMAIN PD = 1..Len(PD)
    BY LenProperties DEF EventsInv, Inv, Table
  <2> QED BY <2>1 DEF EventsInv, EventObjects, EventOK
<1>3. \A e \in ToSet(EventList) : e \in DOMAIN event
  <2>1. EventList \in Seq(DOMAIN event)
    BY DEF EventsInv, EventObjects
  <2> QED BY <2>1, ElementOfSeq, LenProperties DEF ToSet
<1>4. UNCHANGED eventVars => \A p : Owned(p)' = Owned(p)
  BY DEF Owned, eventVars
<1>5. CASE Fates /\ UNCHANGED eventVars
  <2>1. ASSUME NEW p \in DOMAIN PD PROVE OwnsOne(p)'
    <3>1. Fate(p)
      BY <1>5 DEF Fates
    <3>2. PD'[p].state = "WAIT_EVENT" => PD[p].state = "WAIT_EVENT"
      BY <1>2, <1>5, FatesStartNoWait DEF Fates, Waiting
    <3>3. p \notin TimedTasks => Timely(PD'[p]) /\ WaitsAlike(PD[p], PD'[p])
      BY <1>1, <1>2, <3>1, FateWaitsAlike DEF OwnsOne
    <3> QED BY <1>1, <1>4, <1>5, <3>2, <3>3, AgedOwns
  <2>2. ASSUME NEW p \in DOMAIN PD' \ DOMAIN PD PROVE OwnsOne(p)'
    <3>1. p # 0
      <4>1. DOMAIN PD' = 1..Len(PD')
        BY LenProperties DEF EventsInv, Inv, Table
      <4> QED BY <4>1
    <3>2. Owned(p) = {}
      BY <1>2, <1>3, <3>1 DEF Owned
    <3>3. PD'[p].state = "READY" /\ Timely(PD'[p])
      BY <1>5 DEF Fates, Timely
    <3> QED BY <1>4, <1>5, <3>2, <3>3 DEF OwnsOne
  <2> QED BY <2>1, <2>2 DEF OwnInv
<1>6. CASE Served
  <2>1. ASSUME NEW p \in DOMAIN PD PROVE OwnsOne(p)'
    <3>1. CASE PD'[p] = PD[p]
      BY <1>1, <1>4, <1>6, <3>1, AgedReflexive, AgedOwns DEF Served
    <3>2. CASE /\ PD[p].state = "WAIT_EVENTG" /\ PD'[p].state = "READY"
               /\ PD'[p].request_timeout = PD[p].request_timeout
      <4>1. p \notin TimedTasks => Timely(PD'[p]) /\ Owned(p) = {}
        BY <1>1, <3>2 DEF OwnsOne, Timely
      <4> QED BY <1>4, <1>6, <3>2, <4>1 DEF OwnsOne, Served
    <3> QED BY <1>6, <3>1, <3>2 DEF Served
  <2> QED BY <1>6, <2>1 DEF OwnInv, Served
<1>7. CASE AskedForBits
  <2>0. PICK c : c = Current_Process
    OBVIOUS
  <2>1. c \in DOMAIN PD /\ PD[c].state = "RUNNING"
    BY <1>2, <1>7, <2>0, CallFacts DEF AskedForBits, Inv, CallerRuns, CurrentIsRunning, Running
  <2>2. PICK t \in Timeouts, a \in Process :
          /\ t > 0 => c \in TimedTasks
          /\ a.request_timeout = t /\ a.state \in {"RUNNING", "WAIT_EVENTG"} /\ Aged(a, PD'[c])
    BY <1>7, <2>0, <2>1 DEF AskedForBits
  <2>3. c \notin TimedTasks => t = 0
    BY <2>2, EventGroupAssumption, ConfigAssumption DEF UInts
  <2>4. PD'[c].state # "WAIT_EVENT"
    BY <2>2, AgedWaitsNotAnew DEF Waiting
  <2>5. c \notin TimedTasks => Timely(PD'[c]) /\ Owned(c) = {}
    BY <1>1, <2>1, <2>2, <2>3, AgedWaitsAlike DEF OwnsOne, Timely
  <2>6. OwnsOne(c)'
    BY <1>4, <1>7, <2>4, <2>5 DEF OwnsOne, AskedForBits
  <2>7. \A p \in DOMAIN PD \ {c} : OwnsOne(p)'
    BY <1>1, <1>4, <1>7, <2>0, AgedOwns DEF AskedForBits, OthersAge
  <2> QED BY <1>7, <2>6, <2>7 DEF OwnInv, AskedForBits, OthersAge
<1>8. CASE Opened
  <2> DEFINE n == Len(event)
  <2>1. PICK count \in FreshCounts : event' = Append(event, [owner |-> 0, count |-> count])
    BY <1>8 DEF Opened
  <2>2. event \in Seq(EventType) /\ [owner |-> 0, count |-> count] \in EventType
    BY EventAssumption DEF EventType, EventsInv, EventObjects
  <2>3. n \in Nat /\ DOMAIN event = 1..n /\ event'[n + 1].owner = 0
        /\ \A e \in 1..n : event'[e] = event[e]
    BY <2>1, <2>2, AppendProperties, LenProperties
  <2>4. PD' = PD /\ ToSet(EventList') = ToSet(EventList) \cup {n + 1}
    BY <1>8 DEF Opened
  <2> HIDE DEF n
  <2>5. \A p \in DOMAIN PD : Owned(p)' = Owned(p)
    BY <1>2, <1>3, <2>3, <2>4 DEF Owned
  <2> QED BY <1>1, <2>4, <2>5, AgedReflexive, AgedOwns DEF OwnInv
<1>9. CASE Running /\ \E e \in DOMAIN event : IsEvent(e) /\ EventOutcome(e)
  BY <1>9, OutcomeOwns
<1> QED BY <1>5, <1>6, <1>7, <1>8, <1>9 DEF EventsFates, EventFates

LEMMA InitEstablishesOwnInv == EventsInit => OwnInv
  BY DEF EventsInit, Init, OwnInv

\* A task that gives no time limits is in WAIT_EVENT exactly as long as it owns an
\* event, and owns one at a time: Event_Wait returns to it with the signal only.
THEOREM EventOwnersWait ==
    ASSUME ~SelfSuspend, FreshTimeouts \subseteq {0}
    PROVE  EventsSpec => []OwnersWait
<1>1. EventsInit => EventsInv /\ OwnInv
  BY EventsInitEstablishes, InitEstablishesOwnInv
<1>2. EventsInv /\ OwnInv /\ [EventsNext]_allVars => (EventsInv /\ OwnInv)'
  BY EventsStep, StepKeepsOwnInv
<1> QED BY <1>1, <1>2, OwnInvImplies, PTL DEF EventsSpec

-----------------------------------------------------------------------------
(* The refinement: the one-shot events.                                    *)

Blocked == {p \in DOMAIN PD : PD[p].state = "WAIT_EVENT"}

Latch(e) == [raised |-> event[e].count > 0, waiter |-> event[e].owner, over |-> ~IsEvent(e)]

Latches == [e \in DOMAIN event |-> Latch(e)]

\* Nobody but these is blocked next, and of these only the impatient may not be.
LEMMA BlockedBecomes ==
    ASSUME NEW B, Blocked' \subseteq B, B \ Blocked' \subseteq TimedTasks
    PROVE  \E gone \in SUBSET TimedTasks : Blocked' = B \ gone
<1>1. Blocked' = B \ (B \ Blocked')
  OBVIOUS
<1> QED BY <1>1

\* A process that ages does not begin to wait; one without time limits does not stop.
LEMMA AgedStaysBlocked ==
    ASSUME OwnInv, NEW p \in DOMAIN PD, p \in DOMAIN PD', Aged(PD[p], PD'[p])
    PROVE  /\ p \in Blocked' => p \in Blocked
           /\ p \in Blocked /\ p \notin TimedTasks => p \in Blocked'
<1>1. p \in Blocked' => p \in Blocked
  BY AgedWaitsNotAnew DEF Blocked, Waiting
<1>2. p \notin TimedTasks => WaitsAlike(PD[p], PD'[p])
  BY AgedWaitsAlike DEF OwnInv, OwnsOne
<1> QED BY <1>1, <1>2 DEF Blocked, WaitsAlike, Waiting

\* The others, when one process is moved.
LEMMA OthersStayBlocked ==
    ASSUME OwnInv, NEW mover \in DOMAIN PD, OthersAge({mover})
    PROVE  /\ Blocked' \subseteq Blocked \cup {mover}
           /\ Blocked \ Blocked' \subseteq TimedTasks \cup {mover}
<1>1. \A p \in DOMAIN PD \ {mover} : Aged(PD[p], PD'[p]) /\ p \in DOMAIN PD'
  BY DEF OthersAge
<1>2. \A p \in DOMAIN PD \ {mover} :
        /\ p \in Blocked' => p \in Blocked
        /\ p \in Blocked /\ p \notin TimedTasks => p \in Blocked'
  BY <1>1, AgedStaysBlocked
<1> QED BY <1>2 DEF Blocked, OthersAge

\* When no event changes, tasks can only leave.
LEMMA LeaveStep ==
    ASSUME UNCHANGED eventVars, Blocked' \subseteq Blocked, Blocked \ Blocked' \subseteq TimedTasks
    PROVE  Events1!EventsNext
<1>1. Latches' = Latches
  BY DEF Latches, Latch, IsEvent, eventVars
<1>2. \E gone \in SUBSET TimedTasks : Blocked' = Blocked \ gone
  BY BlockedBecomes
<1>3. Events1!Leave
  BY <1>1, <1>2 DEF Events1!Leave, Events1!Blocked, Blocked, Latches, Latch
<1> QED BY <1>3 DEF Events1!EventsNext

\* The events that are not touched.
LEMMA LatchesBecome ==
    ASSUME EventsInv, NEW e \in DOMAIN event, NEW x, event' = [event EXCEPT ![e] = x],
           \A d \in DOMAIN event \ {e} : IsEvent(d)' <=> IsEvent(d)
    PROVE  /\ Latches' = [Latches EXCEPT ![e] = Latch(e)']
           /\ event'[e] = x
<1>1. DOMAIN event' = DOMAIN event /\ event'[e] = x
      /\ \A d \in DOMAIN event \ {e} : event'[d] = event[d]
  OBVIOUS
<1>2. \A d \in DOMAIN event \ {e} : Latch(d)' = Latch(d)
  BY <1>1 DEF Latch
<1>3. \A d \in DOMAIN event : Latches'[d] = IF d = e THEN Latch(e)' ELSE Latches[d]
  BY <1>1, <1>2 DEF Latches
<1>4. Latches' = [d \in DOMAIN event |-> Latches'[d]] /\ DOMAIN Latches = DOMAIN event
  BY <1>1 DEF Latches
<1> QED BY <1>1, <1>3, <1>4

\* An event that is destroyed is over.
LEMMA GoneIsOver ==
    ASSUME EventsInv, NEW e \in DOMAIN event, Gone(e)
    PROVE  Latches' = [Latches EXCEPT ![e] = Events1!Over]
<1>1. \A d \in DOMAIN event \ {e} : IsEvent(d)' <=> IsEvent(d)
  BY DEF Gone, IsEvent
<1>2. ~IsEvent(e)'
  BY DEF Gone, IsEvent
<1>3. /\ Latches' = [Latches EXCEPT ![e] = Latch(e)']
      /\ event'[e] = [owner |-> 0, count |-> 0]
  BY <1>1, LatchesBecome DEF Gone
<1>4. Latch(e)' = Events1!Over
  <2>1. event'[e].owner = 0 /\ (event'[e].count > 0) = FALSE
    BY <1>3
  <2>2. (~IsEvent(e)') = TRUE
    BY <1>2
  <2> QED BY <2>1, <2>2, Zenon DEF Latch, Events1!Over
<1> QED BY <1>3, <1>4

LEMMA LatchFacts ==
    ASSUME NEW e \in DOMAIN event
    PROVE  /\ DOMAIN Latches = DOMAIN event /\ Latches[e] = Latch(e)
           /\ Latches[e].raised <=> event[e].count > 0
           /\ Latches[e].waiter = event[e].owner
           /\ Latches[e].over <=> ~IsEvent(e)
<1>1. DOMAIN Latches = DOMAIN event /\ Latches[e] = Latch(e)
  BY DEF Latches
<1>2. Latch(e).raised = (event[e].count > 0) /\ Latch(e).waiter = event[e].owner
      /\ Latch(e).over = (~IsEvent(e))
  BY DEF Latch
<1> QED BY <1>1, <1>2

\* Another signal is counted: one more is never none, when they are limited.
LEMMA CountedIsPositive ==
    ASSUME MAX_EVENT_SIG_MISS \in 1..(UINT - 1), NEW count \in UInts
    PROVE  Counted(count) > 0
<1>1. UINT \in Nat \ {0} /\ count \in Nat /\ count + 1 \in Nat
  BY ConfigAssumption DEF UInts
<1>2. CASE count < MAX_EVENT_SIG_MISS
  <2>1. count + 1 \in 0..(UINT - 1)
    BY <1>1, <1>2
  <2>2. (count + 1) % UINT = count + 1
    BY <1>1, <2>1
  <2> QED BY <1>1, <1>2, <2>2 DEF Counted
<1>3. CASE ~(count < MAX_EVENT_SIG_MISS)
  BY <1>1, <1>3 DEF Counted
<1> QED BY <1>2, <1>3

\* A new event is opened.
LEMMA OpenStep ==
    ASSUME EventsInv, EventsInv', Opened
    PROVE  Events1!EventsNext
<1> DEFINE n == Len(event)
<1>1. PICK count \in FreshCounts : event' = Append(event, [owner |-> 0, count |-> count])
  BY DEF Opened
<1>2. PICK raised \in BOOLEAN : raised <=> count > 0
  OBVIOUS
<1> DEFINE x == [owner |-> 0, count |-> count]
           y == [raised |-> raised, waiter |-> 0, over |-> FALSE]
<1>3. event \in Seq(EventType) /\ x \in EventType /\ EventList \in Seq(DOMAIN event)
  BY EventAssumption DEF EventType, EventsInv, EventObjects
<1>4. /\ n \in Nat /\ DOMAIN event = 1..n /\ DOMAIN event' = 1..(n + 1)
      /\ event'[n + 1] = x /\ \A e \in 1..n : event'[e] = event[e]
  BY <1>1, <1>3, AppendProperties, LenProperties
<1>5. \A e \in 1..(n + 1) : IsEvent(e)' <=> e = n + 1 \/ IsEvent(e)
  <2>1. ToSet(EventList') = ToSet(EventList) \cup {n + 1}
    BY DEF Opened
  <2> QED BY <2>1 DEF IsEvent
<1> HIDE DEF n
<1>6. ~IsEvent(n + 1)
  BY <1>3, <1>4, ElementOfSeq, LenProperties DEF IsEvent, ToSet
<1>7. /\ DOMAIN Latches = 1..n /\ DOMAIN Latches' = 1..(n + 1)
      /\ \A e \in 1..n : Latches'[e] = Latches[e]
  <2>1. \A e \in 1..n : Latch(e)' = Latch(e)
    BY <1>4, <1>5 DEF Latch
  <2> QED BY <1>4, <2>1 DEF Latches
<1>8. Latches'[n + 1] = y
  <2>1. \A m \in 1..(n + 1) : Latches'[m] = Latch(m)'
    BY <1>4 DEF Latches
  <2>2. \A m \in 1..(n + 1) : m = n + 1 =>
          event'[m].owner = 0 /\ (event'[m].count > 0) = raised /\ (~IsEvent(m)') = FALSE
    BY <1>2, <1>4, <1>5
  <2>3. \A m \in 1..(n + 1) : m = n + 1 => Latch(m)' = y
    BY <2>2, Zenon DEF Latch
  <2>4. n + 1 \in 1..(n + 1)
    BY <1>4
  <2> QED BY <2>1, <2>3, <2>4, Zenon
<1> HIDE DEF x, y
<1>9. PICK S : S = {Latches[e] : e \in DOMAIN event} \cup {y}
  OBVIOUS
<1>10. Latches' = Append(Latches, y)
  <2>1. Latches \in [1..n -> S] /\ Latches' \in [1..(n + 1) -> S] /\ y \in S
    <3>1. /\ Latches = [e \in 1..n |-> Latches[e]]
          /\ Latches' = [e \in 1..(n + 1) |-> Latches'[e]]
      BY <1>7 DEF Latches
    <3>2. \A e \in 1..n : Latches[e] \in S
      BY <1>4, <1>9
    <3>3. y \in S
      BY <1>9
    <3>4. \A e \in 1..(n + 1) : e \in 1..n \/ e = n + 1
      BY <1>4
    <3>5. \A e \in 1..(n + 1) : Latches'[e] \in S
      BY <1>7, <1>8, <3>2, <3>3, <3>4
    <3> QED BY <3>1, <3>2, <3>3, <3>5
  <2>2. Latches \in Seq(S) /\ Len(Latches) = n
    BY <1>4, <2>1, SegmentIsSeq
  <2>3. n + 1 \in Nat
    BY <1>4
  <2>4. Latches' \in Seq(S) /\ Len(Latches') = n + 1
    BY <2>1, <2>3, SegmentIsSeq
  <2>5. PICK L : L = Latches
    OBVIOUS
  <2>6. /\ Append(L, y) \in Seq(S) /\ Len(Append(L, y)) = n + 1
        /\ \A e \in 1..n : Append(L, y)[e] = L[e]
        /\ Append(L, y)[n + 1] = y
    BY <2>1, <2>2, <2>5, AppendProperties
  <2>7. \A e \in 1..(n + 1) : Latches'[e] = Append(L, y)[e]
    BY <1>4, <1>7, <1>8, <2>5, <2>6
  <2> QED BY <2>4, <2>5, <2>6, <2>7, SeqEqual
<1>11. raised \in (IF FreshCounts # {0} THEN BOOLEAN ELSE {FALSE})
  <2>1. CASE FreshCounts # {0}
    BY <1>2, <2>1, Zenon
  <2>2. CASE FreshCounts = {0}
    <3>1. ~(count > 0)
      BY <2>2
    <3>2. raised = FALSE
      BY <1>2, <3>1
    <3> QED BY <2>2, <3>2, Zenon
  <2> QED BY <2>1, <2>2
<1>12. \E gone \in SUBSET TimedTasks : Blocked' = Blocked \ gone
  BY BlockedBecomes DEF Opened, Blocked
<1>13. Events1!Open
  BY <1>10, <1>11, <1>12 DEF Events1!Open, Events1!Blocked, Blocked, Latches, Latch, y
<1> QED BY <1>13 DEF Events1!EventsNext

\* A call on an event is a step of Await or of Raise.
LEMMA OutcomeStep ==
    ASSUME MAX_EVENT_SIG_MISS \in 1..(UINT - 1), EventsInv, OwnInv, OwnInv', ~SelfSuspend, Running,
           NEW e \in DOMAIN event, IsEvent(e), EventOutcome(e)
    PROVE  Events1!EventsNext
<1>0. PICK c, owner : c = Current_Process /\ owner = event[e].owner
  OBVIOUS
<1>1. c \in DOMAIN PD /\ PD[c].state = "RUNNING" /\ c \in 1..MaxPid /\ ~(0 \in DOMAIN PD)
  <2>1. /\ DOMAIN PD = 1..Len(PD) /\ Current_Process \in DOMAIN PD
        /\ Len(PD) \in Nat /\ Len(PD) <= MaxPid
    BY CallFacts DEF EventsInv
  <2> QED BY <1>0, <2>1, EnvironmentAssumption
          DEF EventsInv, Inv, CallerRuns, CurrentIsRunning, Running
<1>2. /\ DOMAIN Latches = DOMAIN event /\ ~Latches[e].over /\ Latches[e].waiter = owner
      /\ Latches[e].raised <=> event[e].count > 0
  BY <1>0, LatchFacts
<1>3. event[e].count \in UInts
  BY DEF EventsInv, EventObjects, EventOK, EventType
<1>4. c \notin Blocked
  BY <1>1 DEF Blocked
<1>5. CASE owner = 0 /\ event[e].count > 0 /\ PD' = PD /\ Gone(e)
  <2>1. \E gone \in SUBSET TimedTasks : Blocked' = Blocked \ gone
    BY <1>5, BlockedBecomes DEF Blocked
  <2>2. Latches' = [Latches EXCEPT ![e] = Events1!Over]
    BY <1>5, GoneIsOver
  <2>3. Events1!Await(e, c)
    BY <1>2, <1>4, <1>5, <2>1, <2>2
       DEF Events1!Await, Events1!Blocked, Blocked, Latches, Latch
  <2> QED BY <1>1, <1>2, <2>3 DEF Events1!EventsNext, Latches, Latch
<1>6. CASE /\ owner \in {0, c} /\ event[e].count = 0 /\ Changed(e, [owner |-> c, count |-> 0])
           /\ Moved(c, "WAIT_EVENT") /\ OthersAge({c})
  <2>1. c \in Blocked' \/ c \in TimedTasks
    <3>1. PICK a \in Process : a.state = "WAIT_EVENT" /\ a.request_timeout = PD[c].request_timeout
                               /\ Aged(a, PD'[c])
      BY <1>6 DEF Moved
    <3>2. c \notin TimedTasks => Timely(a)
      BY <1>1, <3>1 DEF OwnInv, OwnsOne, Timely
    <3>3. c \notin TimedTasks => PD'[c].state = "WAIT_EVENT"
      BY <3>1, <3>2, AgedWaitsAlike DEF WaitsAlike, Waiting
    <3> QED BY <1>1, <1>6, <3>3 DEF Blocked, OthersAge
  <2>2. \E gone \in SUBSET TimedTasks : Blocked' = (Blocked \cup {c}) \ gone
    <3>1. /\ Blocked' \subseteq Blocked \cup {c}
          /\ Blocked \ Blocked' \subseteq TimedTasks \cup {c}
      BY <1>1, <1>6, OthersStayBlocked
    <3>2. PICK B : B = Blocked \cup {c}
      OBVIOUS
    <3>3. Blocked' \subseteq B /\ B \ Blocked' \subseteq TimedTasks
      BY <2>1, <3>1, <3>2
    <3> QED BY <3>2, <3>3, BlockedBecomes
  <2>3. Latches' = [Latches EXCEPT ![e].waiter = c]
    <3>1. \A d \in DOMAIN event \ {e} : IsEvent(d)' <=> IsEvent(d)
      BY <1>6 DEF Changed, IsEvent
    <3>2. /\ Latches' = [Latches EXCEPT ![e] = Latch(e)']
          /\ event'[e] = [owner |-> c, count |-> 0]
      BY <1>6, <3>1, LatchesBecome DEF Changed
    <3>3. /\ (event'[e].count > 0) = (event[e].count > 0)
          /\ (~IsEvent(e)') = (~IsEvent(e)) /\ event'[e].owner = c
      BY <1>6, <3>2 DEF Changed, IsEvent
    <3>4. Latch(e)' = [raised |-> event[e].count > 0, waiter |-> c, over |-> ~IsEvent(e)]
      BY <3>3, Zenon DEF Latch
    <3>5. [Latches[e] EXCEPT !.waiter = c]
            = [raised |-> event[e].count > 0, waiter |-> c, over |-> ~IsEvent(e)]
      BY DEF Latches, Latch
    <3> QED BY <3>2, <3>4, <3>5
  <2>4. Events1!Await(e, c)
    <3>1. /\ ~Latches[e].over /\ c \notin Blocked /\ Latches[e].waiter \in {0, c}
          /\ ~Latches[e].raised
          /\ Latches' = [Latches EXCEPT ![e].waiter = c]
          /\ \E gone \in SUBSET TimedTasks : Blocked' = (Blocked \cup {c}) \ gone
      BY <1>2, <1>4, <1>6, <2>2, <2>3
    <3> QED BY <3>1 DEF Events1!Await, Events1!Blocked, Blocked, Latches, Latch
  <2> QED BY <1>1, <1>2, <2>4 DEF Events1!EventsNext, Latches, Latch
<1>7. CASE owner = 0 /\ PD' = PD /\ Changed(e, [owner |-> 0, count |-> Counted(event[e].count)])
  <2>1. \E gone \in SUBSET TimedTasks : Blocked' = Blocked \ gone
    BY <1>7, BlockedBecomes DEF Blocked
  <2>2. Latches' = [Latches EXCEPT ![e].raised = TRUE]
    <3>1. \A d \in DOMAIN event \ {e} : IsEvent(d)' <=> IsEvent(d)
      BY <1>7 DEF Changed, IsEvent
    <3>2. /\ Latches' = [Latches EXCEPT ![e] = Latch(e)']
          /\ event'[e] = [owner |-> 0, count |-> Counted(event[e].count)]
      BY <1>7, <3>1, LatchesBecome DEF Changed
    <3>3. Counted(event[e].count) > 0
      BY <1>3, CountedIsPositive
    <3>4. /\ (event'[e].count > 0) = TRUE
          /\ (~IsEvent(e)') = (~IsEvent(e)) /\ event'[e].owner = event[e].owner
      BY <1>0, <1>7, <3>2, <3>3 DEF Changed, IsEvent
    <3>5. Latch(e)' = [raised |-> TRUE, waiter |-> event[e].owner, over |-> ~IsEvent(e)]
      BY <3>4, Zenon DEF Latch
    <3>6. [Latches[e] EXCEPT !.raised = TRUE]
            = [raised |-> TRUE, waiter |-> event[e].owner, over |-> ~IsEvent(e)]
      <4>1. PICK a, b, d : Latches[e] = [raised |-> a, waiter |-> b, over |-> d]
                           /\ a = (event[e].count > 0) /\ b = event[e].owner /\ d = (~IsEvent(e))
        BY Zenon, LatchFacts DEF Latch
      <4>2. ASSUME NEW x
            PROVE  [[raised |-> a, waiter |-> b, over |-> d] EXCEPT !.raised = x]
                     = [raised |-> x, waiter |-> b, over |-> d]
        OBVIOUS
      <4> QED BY <4>1, <4>2, Zenon
    <3> QED BY <3>2, <3>5, <3>6
  <2>3. Events1!Raise(e)
    BY <1>2, <1>7, <2>1, <2>2
       DEF Events1!Raise, Events1!Blocked, Blocked, Latches, Latch
  <2> QED BY <1>2, <2>3 DEF Events1!EventsNext, Latches, Latch
<1>8. CASE owner \in DOMAIN PD /\ Gone(e) /\ Moved(owner, "READY") /\ OthersAge({owner})
  <2>1. owner \notin Blocked' /\ owner # 0
    <3>1. PICK a \in Process : a.state = "READY" /\ Aged(a, PD'[owner])
      BY <1>8 DEF Moved
    <3> QED BY <1>1, <1>8, <3>1, AgedWaitsNotAnew DEF Blocked, Waiting
  <2>2. \E gone \in SUBSET TimedTasks : Blocked' = (Blocked \ {owner}) \ gone
    <3>1. /\ Blocked' \subseteq Blocked \cup {owner}
          /\ Blocked \ Blocked' \subseteq TimedTasks \cup {owner}
      BY <1>8, OthersStayBlocked
    <3>2. PICK B : B = Blocked \ {owner}
      OBVIOUS
    <3>3. Blocked' \subseteq B /\ B \ Blocked' \subseteq TimedTasks
      BY <2>1, <3>1, <3>2
    <3> QED BY <3>2, <3>3, BlockedBecomes
  <2>3. Latches' = [Latches EXCEPT ![e] = Events1!Over]
    BY <1>8, GoneIsOver
  <2>4. Events1!Raise(e)
    BY <1>2, <2>1, <2>2, <2>3
       DEF Events1!Raise, Events1!Blocked, Blocked, Latches, Latch
  <2> QED BY <1>2, <2>4 DEF Events1!EventsNext, Latches, Latch
<1> QED BY <1>0, <1>5, <1>6, <1>7, <1>8 DEF EventOutcome

\* Every step is one of the one-shot events, or none.
LEMMA StepIsOneShotStep ==
    ASSUME MAX_EVENT_SIG_MISS \in 1..(UINT - 1), ~SelfSuspend, EventsInv, EventsInv',
           OwnInv, OwnInv', EventsFates
    PROVE  Events1!EventsNext
<1>1. CASE Fates /\ UNCHANGED eventVars
  <2>1. Blocked' \subseteq Blocked
    BY <1>1, FatesStartNoWait DEF Blocked, EventsInv, Waiting
  <2>2. ASSUME NEW p \in Blocked, p \notin TimedTasks PROVE p \in Blocked'
    <3>1. p \in DOMAIN PD /\ PD[p].state = "WAIT_EVENT" /\ p \in DOMAIN PD' /\ Fate(p)
      BY <1>1 DEF Blocked, Fates
    <3>2. WaitsAlike(PD[p], PD'[p])
      BY <2>2, <3>1, FateWaitsAlike DEF OwnInv, OwnsOne, EventsInv
    <3> QED BY <3>1, <3>2 DEF Blocked, WaitsAlike, Waiting
  <2> QED BY <1>1, <2>1, <2>2, LeaveStep
<1>2. CASE Served
  <2>1. Blocked' = Blocked
    BY <1>2 DEF Served, Blocked
  <2> QED BY <1>2, <2>1, LeaveStep DEF Served
<1>3. CASE AskedForBits
  <2>1. PICK c : c = Current_Process
    OBVIOUS
  <2>2. c \in DOMAIN PD /\ PD[c].state = "RUNNING" /\ OthersAge({c})
    BY <1>3, <2>1, CallFacts
       DEF AskedForBits, EventsInv, Inv, CallerRuns, CurrentIsRunning, Running
  <2>3. PICK a \in Process : a.state \in {"RUNNING", "WAIT_EVENTG"} /\ Aged(a, PD'[c])
    BY <1>3, <2>1, <2>2 DEF AskedForBits
  <2>4. c \notin Blocked /\ c \notin Blocked'
    BY <2>2, <2>3, AgedWaitsNotAnew DEF Blocked, Waiting
  <2>5. Blocked' \subseteq Blocked \cup {c} /\ Blocked \ Blocked' \subseteq TimedTasks \cup {c}
    BY <2>2, OthersStayBlocked
  <2> QED BY <1>3, <2>4, <2>5, LeaveStep DEF AskedForBits
<1>4. CASE Opened
  BY <1>4, OpenStep
<1>5. CASE Running /\ \E e \in DOMAIN event : IsEvent(e) /\ EventOutcome(e)
  BY <1>5, OutcomeStep
<1> QED BY <1>1, <1>2, <1>3, <1>4, <1>5 DEF EventsFates, EventFates

\* The events of the code implement the one-shot events, whoever waits, signals,
\* sleeps, is suspended or terminates, as long as the signals that are counted are
\* limited: an unlimited count (event.h:8) wraps around to none.
THEOREM EventsImplementOneShot ==
    ASSUME ~SelfSuspend, FreshTimeouts \subseteq {0}, MAX_EVENT_SIG_MISS \in 1..(UINT - 1)
    PROVE  EventsSpec => ImplementsOneShotEvents
<1>1. EventsInit => Events1!EventsInit
  BY DEF EventsInit, Init, EventInit, Events1!EventsInit
<1>2. EventsInit => EventsInv /\ OwnInv
  BY EventsInitEstablishes, InitEstablishesOwnInv
<1>3. EventsInv /\ OwnInv /\ [EventsNext]_allVars =>
        /\ (EventsInv /\ OwnInv)'
        /\ [Events1!EventsNext]_<<[e \in DOMAIN event |->
                                     [raised |-> event[e].count > 0,
                                      waiter |-> event[e].owner,
                                      over   |-> ~IsEvent(e)]],
                                  {p \in DOMAIN PD : PD[p].state = "WAIT_EVENT"}>>
  BY EventsStep, StepKeepsOwnInv, StepIsOneShotStep
<1> QED BY <1>1, <1>2, <1>3, PTL DEF EventsSpec, ImplementsOneShotEvents, Events1!EventsSpec

=============================================================================
