----------------------------- MODULE MCClients ------------------------------
(* Constants for the runs of Clients. *)
EXTENDS Clients

EqualPrio == [p \in 1..MaxPid |-> 1]

=============================================================================
