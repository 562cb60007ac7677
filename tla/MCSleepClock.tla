---------------------------- MODULE MCSleepClock ----------------------------
(* Constants for the runs of SleepClock. *)
EXTENDS SleepClock

\* Task 2 is below the others; task 3 was created with a priority outside
\* 0..LOWEST_PRIORITY, which Task_Create accepts.
MixedPrio == [p \in 1..MaxPid |->
                 CASE p = 2 -> LOWEST_PRIORITY [] p = 3 -> LOWEST_PRIORITY + 1 [] OTHER -> 0]

=============================================================================
