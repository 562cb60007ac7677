------------------------------ MODULE MCMutex -------------------------------
(* Constants for the runs of Mutex. *)
EXTENDS Mutex

\* The priorities of Test 9 of rtos_test.c: q (2) before r (3) before p (1).
TestNinePrio == [p \in 1..MaxPid |-> CASE p = 1 -> 2 [] p = 2 -> 0 [] OTHER -> 1]

=============================================================================
