----------------------------- MODULE MCSemaphore -----------------------------
(* Constants for the runs of Semaphore. *)
EXTENDS Semaphore

MixedPrio == [p \in 1..MaxPid |-> IF p = 2 THEN 1 ELSE 0]

=============================================================================
