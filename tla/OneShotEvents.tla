---------------------------- MODULE OneShotEvents ----------------------------
(***************************************************************************)
(* What the events promise, without lists, counts or scheduling: an event  *)
(* is raised once and awaited once.  A task that awaits a raised event     *)
(* goes on, one that comes first is blocked until the event is raised, and *)
(* either meeting ends the event.  Nobody but an impatient task is         *)
(* unblocked by anything else.                                             *)
(***************************************************************************)
EXTENDS Naturals, Sequences

CONSTANTS
    Task,       \* the tasks, 0 is none of them
    Impatient,  \* the tasks that may be unblocked early
    Dirty       \* TRUE when a new event may already be raised

VARIABLES
    latch,      \* the events, in the order they were opened
    blocked     \* the tasks that are blocked

Latch == [raised: BOOLEAN, waiter: Task \cup {0}, over: BOOLEAN]

\* Those that are blocked next, give or take the impatient.
Blocked(tasks) == \E gone \in SUBSET Impatient : blocked' = tasks \ gone

\* What is left of an event that is over.
Over == [raised |-> FALSE, waiter |-> 0, over |-> TRUE]

Open ==
    /\ \E raised \in (IF Dirty THEN BOOLEAN ELSE {FALSE}) :
          latch' = Append(latch, [raised |-> raised, waiter |-> 0, over |-> FALSE])
    /\ Blocked(blocked)

Raise(e) ==
    /\ ~latch[e].over
    /\ \/ /\ latch[e].waiter = 0
          /\ latch' = [latch EXCEPT ![e].raised = TRUE]
          /\ Blocked(blocked)
       \/ /\ latch[e].waiter # 0
          /\ latch' = [latch EXCEPT ![e] = Over]
          /\ Blocked(blocked \ {latch[e].waiter})

Await(e, p) ==
    /\ ~latch[e].over
    /\ p \notin blocked
    /\ latch[e].waiter \in {0, p}
    /\ \/ /\ latch[e].raised
          /\ latch' = [latch EXCEPT ![e] = Over]
          /\ Blocked(blocked)
       \/ /\ ~latch[e].raised
          /\ latch' = [latch EXCEPT ![e].waiter = p]
          /\ Blocked(blocked \cup {p})

\* An impatient task does not wait any longer; the event keeps it as waiter.
Leave == UNCHANGED latch /\ Blocked(blocked)

EventsInit == latch = <<>> /\ blocked = {}

EventsNext ==
    \/ Open
    \/ \E e \in DOMAIN latch : Raise(e) \/ \E p \in Task : Await(e, p)
    \/ Leave

EventsSpec == EventsInit /\ [][EventsNext]_<<latch, blocked>>

=============================================================================
