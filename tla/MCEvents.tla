------------------------------ MODULE MCEvents -------------------------------
(* Constants for the runs of Events. *)
EXTENDS Events, TLC

\* The kernel treats all bits alike.
BitSymmetry == Permutations(Bits)

SomeBits == SUBSET Bits \ {{}}

\* What the calls return to their callers is read by nobody in the kernel.
ButErr == <<PD, ProcessList, sched, mode, eventVars, groupVars>>

MixedPrio == [p \in 1..MaxPid |-> IF p = 2 THEN 1 ELSE 0]

=============================================================================
