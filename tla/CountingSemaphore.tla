-------------------------- MODULE CountingSemaphore --------------------------
(***************************************************************************)
(* What a semaphore promises, without a kernel: counts that tasks take when*)
(* there are enough, and a line of those for whom there were not.  Counts  *)
(* that are put back go to the head of the line first, then to the next,   *)
(* as far as they reach.  A task that does not have to wait may pass by.   *)
(***************************************************************************)
EXTENDS Integers, Sequences

CONSTANT Task

VARIABLES
    made,        \* the semaphore has been created
    binary,      \* there is never more than one count
    count,       \* the counts that anybody may take
    waiters      \* who waits, and for how many counts, in the order of asking

countingVars == <<made, binary, count, waiters>>

\* What the first k waiters want together.
Wanted(k) ==
    LET sum[j \in 0..Len(waiters)] == IF j = 0 THEN 0 ELSE sum[j - 1] + waiters[j].wants
    IN sum[k]

Make ==
    /\ ~made /\ made'
    /\ binary' \in BOOLEAN /\ (binary' => count' \in {0, 1})
    /\ UNCHANGED waiters

Take ==
    /\ made
    /\ 0 <= count' /\ count' <= count
    /\ UNCHANGED <<made, binary, waiters>>

Ask(t) ==
    /\ made
    /\ \A i \in DOMAIN waiters : waiters[i].task # t
    /\ Len(waiters') = Len(waiters) + 1
    /\ LET last == waiters'[Len(waiters')]
       IN last.task = t /\ last.wants > count /\ waiters' = Append(waiters, last)
    /\ UNCHANGED <<made, binary, count>>

\* There are "there" counts once some are put back; the first k waiters get
\* theirs, and the next one wants more than is left.
Put ==
    /\ made
    /\ \E k \in 0..Len(waiters) :
          LET there == count' + Wanted(k)
          IN /\ count' >= 0 /\ there >= count /\ (binary => there <= 1)
             /\ k < Len(waiters) => Wanted(k + 1) > there
             /\ waiters' = SubSeq(waiters, k + 1, Len(waiters))
    /\ UNCHANGED <<made, binary>>

CountingInit == ~made /\ ~binary /\ count = 0 /\ waiters = <<>>

CountingNext == Make \/ Take \/ Put \/ \E t \in Task : Ask(t)

CountingSpec == CountingInit /\ [][CountingNext]_countingVars

=============================================================================
