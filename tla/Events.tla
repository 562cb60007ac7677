-------------------------------- MODULE Events --------------------------------
(***************************************************************************)
(* Events and event groups in one system.  They share the scheduler, and   *)
(* the one timer that each process has.                                    *)
(***************************************************************************)
EXTENDS Event, EventGroup

CONSTANT TimedTasks   \* the tasks that may give a time limit

ASSUME TimedTasksAssumption == TimedTasks \subseteq 1..MaxPid

allVars == <<vars, eventVars, groupVars>>

EventCall ==
    \/ Event_Create
    \/ \E e \in EventArgs : Event_Wait(e) \/ Event_Signal(e)

WaitCall ==
    \E g \in GroupArgs, bits \in BitArgs, all \in BOOLEAN, t \in Timeouts :
        /\ t > 0 => Current_Process \in TimedTasks
        /\ Event_Group_Wait_Bits(g, bits, all, t)

EventsInit == Init /\ EventInit /\ GroupInit

EventsNext ==
    \/ (GroupCall \/ WaitCall) /\ UNCHANGED eventVars
    \/ EventCall /\ Arguments(request) /\ UNCHANGED <<EventGroupList, events>>
    \/ Next /\ Arguments(request) /\ UNCHANGED <<eventVars, EventGroupList, events>>

EventsSpec == EventsInit /\ [][EventsNext]_allVars

-----------------------------------------------------------------------------
(* Properties.                                                             *)

\* Types.  An event that exists has either an owner or counted signals, of
\* which no more are counted than the limit says.
EventsTypeOK ==
    /\ TypeOK
    /\ EventList \in Seq(DOMAIN event)
    /\ event \in Seq(EventType)
    /\ \A e \in DOMAIN event :
          /\ event[e].owner \in {0} \cup DOMAIN PD
          /\ event[e].owner = 0 \/ event[e].count = 0
          /\ MAX_EVENT_SIG_MISS > 0 => event[e].count \in FreshCounts \cup 0..MAX_EVENT_SIG_MISS
    /\ EventGroupList \in Seq(DOMAIN events)
    /\ events \in Seq(SUBSET Bits)
    /\ request \in [1..MaxPid -> Request]

Owned(p) == {e \in ToSet(EventList) : event[e].owner = p}

\* "Who's currently waiting for this event this?" (event.h:15): the owner of an
\* event is in WAIT_EVENT, and waits for no second event.
OwnerIsWaiting ==
    \A e \in ToSet(EventList) : event[e].owner # 0 =>
        /\ PD[event[e].owner].state = "WAIT_EVENT"
        /\ Owned(event[e].owner) = {e}

\* Event_Wait returns to its caller only with the signal: a task that never
\* gives a time limit is in WAIT_EVENT exactly as long as it owns an event that
\* exists, one event.  Whoever is in WAIT_EVENT can be woken by a signal.
OwnersWait ==
    /\ \A p \in DOMAIN PD : PD[p].state = "WAIT_EVENT" => Owned(p) # {}
    /\ \A p \in DOMAIN PD \ TimedTasks : Owned(p) # {} =>
          /\ PD[p].state = "WAIT_EVENT"
          /\ \A d, e \in Owned(p) : d = e

Events1 == INSTANCE OneShotEvents WITH
    Task      <- 1..MaxPid,
    Impatient <- TimedTasks,
    Dirty     <- FreshCounts # {0},
    latch     <- [e \in DOMAIN event |-> [raised |-> event[e].count > 0,
                                          waiter |-> event[e].owner,
                                          over   |-> ~IsEvent(e)]],
    blocked   <- {p \in DOMAIN PD : PD[p].state = "WAIT_EVENT"}

\* The events of the code implement the one-shot events: each signal is met by
\* one wait, whichever comes first, and nobody is woken without a signal but
\* the tasks that give time limits elsewhere.
ImplementsOneShotEvents == Events1!EventsSpec

\* The bits that task p waits for are there, in what groups says of the event groups.
HasItsBits(p, groups) ==
    LET set    == groups[request[p].id]
        wanted == request[p].bits
    IN IF request[p].all THEN wanted \subseteq set ELSE wanted = {} \/ wanted \cap set # {}

\* No wakeup is lost: a task does not wait for bits that are set, although the
\* bits may be set, cleared and set again before it gets to run.
NobodyWaitsForSetBits ==
    \A p \in DOMAIN PD : PD[p].state = "WAIT_EVENTG" /\ IsGroup(request[p].id) =>
        ~HasItsBits(p, events)

\* Event_Group_Wait_Bits returns when the bits are there or the time limit the
\* caller gave is up, and for no other reason; a timer left by an earlier call
\* does not end a wait that has no limit.  (A task that a timer has thrown out
\* of Event_Wait still owns the event, whose signal would end this wait too.)
WaitersWaitForBits ==
    [][\A p \in DOMAIN PD :
          (InState(p, {"WAIT_EVENTG"}) /\ Owned(p) = {} /\ PD'[p].state # "WAIT_EVENTG") =>
             \/ IsGroup(request[p].id) /\ HasItsBits(p, events')
             \/ /\ request[p].timed
                /\ PD[p].request_timeout > 0
                /\ PD'[p].request_timeout = 0]_allVars

=============================================================================
