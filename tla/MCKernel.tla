------------------------------ MODULE MCKernel ------------------------------
(* Constants for the runs of Kernel. *)
EXTENDS Kernel

\* Task 2 is below task 1.
TwoPrio == [p \in 1..MaxPid |-> IF p = 2 THEN 1 ELSE 0]

\* The first task was created with a priority outside 0..LOWEST_PRIORITY, which
\* Task_Create accepts; those after it are more and more urgent.
EdgePrio == [p \in 1..MaxPid |->
                CASE p = 1 -> LOWEST_PRIORITY + 1 [] p = 2 -> LOWEST_PRIORITY [] OTHER -> 0]

\* Tasks that compute for ever and make no call once the system runs.
ComputeBound == Init /\ [][CreateAtBoot \/ OS_Start \/ Kernel_Tick_ISR]_vars /\ Fairness

=============================================================================
