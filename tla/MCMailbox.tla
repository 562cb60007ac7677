----------------------------- MODULE MCMailbox ------------------------------
(* Constants for the runs of Mailbox. *)
EXTENDS Mailbox, TLC

\* The kernel never looks into a message.
MessageSymmetry == Permutations(Messages)

MixedPrio == [p \in 1..MaxPid |-> IF p = 2 THEN 1 ELSE 0]

=============================================================================
