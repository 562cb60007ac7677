------------------------------ MODULE FifoLock ------------------------------
(***************************************************************************)
(* What a mutex promises, without a kernel: a reentrant lock that is handed*)
(* to the tasks that wait for it in the order in which they asked.         *)
(***************************************************************************)
EXTENDS Naturals, Sequences

CONSTANT Task

VARIABLES
    owner,       \* 0 when the lock is free
    depth,       \* how many times the owner has locked it
    waiters      \* the tasks that wait, in the order in which they asked

lockVars == <<owner, depth, waiters>>

Free == owner = 0 /\ depth = 0 /\ waiters = <<>>

Acquire(t) == Free /\ owner' = t /\ depth' = 1 /\ UNCHANGED waiters

Reenter == owner # 0 /\ depth' = depth + 1 /\ UNCHANGED <<owner, waiters>>

Ask(t) ==
    /\ owner # 0 /\ t # owner
    /\ \A i \in DOMAIN waiters : waiters[i] # t
    /\ waiters' = Append(waiters, t)
    /\ UNCHANGED <<owner, depth>>

Leave == depth > 1 /\ depth' = depth - 1 /\ UNCHANGED <<owner, waiters>>

Release ==
    /\ owner # 0 /\ depth = 1
    /\ IF waiters = <<>>
       THEN owner' = 0 /\ depth' = 0 /\ UNCHANGED waiters
       ELSE owner' = Head(waiters) /\ depth' = 1 /\ waiters' = Tail(waiters)

LockInit == Free

LockNext == \/ \E t \in Task : Acquire(t) \/ Ask(t)
            \/ Reenter \/ Leave \/ Release

LockSpec == LockInit /\ [][LockNext]_lockVars

=============================================================================
