----------------------------- MODULE SleepClock -----------------------------
(***************************************************************************)
(* Kernel with a clock of the observer's: how long each sleeper still has  *)
(* to sleep, counted in timer interrupts as they happen.  The kernel only  *)
(* counts them in batches (Tick_Count), so what it does may differ from    *)
(* what the caller of Task_Sleep asked for; the properties say by how much.*)
(***************************************************************************)
EXTENDS Kernel

VARIABLE left      \* left[p]: ticks of its sleep p has not slept yet, < 0 when late

clockVars == <<vars, left>>

\* In a step in which n timer interrupts happen.  The value a sleeper wakes up
\* with is kept for one step.
Elapse(n) ==
    left' = [p \in 1..MaxPid |-> IF p \in DOMAIN PD /\ Sleeping(p) THEN left[p] - n ELSE 0]

ClockInit == Init /\ left = [p \in 1..MaxPid |-> 0]

ClockNext ==
    \/ \E t \in SleepTicks :
          /\ Task_Sleep(t)
          /\ left' = [p \in 1..MaxPid |->
                         IF p = Current_Process THEN t
                         ELSE IF p \in DOMAIN PD /\ Sleeping(p) THEN left[p] ELSE 0]
    \/ Kernel_Tick_ISR /\ Elapse(1)
    \/ /\ \/ CreateAtBoot \/ CallTooEarly \/ OS_Start \/ Task_Create \/ Task_Yield \/ Task_Terminate
          \/ \E p \in 0..MaxPid : Task_Suspend(p) \/ Task_Resume(p)
          \/ IdlePoll \/ IdleDispatch
       /\ Elapse(0)

ClockSpec == ClockInit /\ [][ClockNext]_clockVars

-----------------------------------------------------------------------------
Awake(p) == p \in DOMAIN PD => ~Sleeping(p)

\* "Puts the calling task to sleep for AT LEAST t ticks" (os.c:124).
SleepAtLeast == \A p \in 1..MaxPid : Awake(p) => left[p] <= 0

\* The most ticks that can be pending when the kernel looks at them.
Batch == PREEMPTIVE_CSWITCH_FREQ - 1 + IdleLag

\* What the kernel does keep: ticks that were pending when the task went to
\* sleep are taken off its sleep, but never more than a batch, and a sleeper
\* is woken at most a batch late.
SleepWithinABatch ==
    \A p \in 1..MaxPid : /\ Awake(p) => left[p] <= Batch
                         /\ left[p] >= -Batch

\* The timer interrupts that were pending, and the one that comes in this step, are
\* taken off what p has to sleep once, or stay pending.
ChargedOnce(p) ==
    LET ticks == Tick_Count + (left[p] - left'[p])
    IN IF Sleeping(p)' THEN PD'[p].request_timeout - Tick_Count' = PD[p].request_timeout - ticks
                       ELSE PD[p].request_timeout <= ticks

\* Every timer interrupt is taken off every sleep exactly once, wherever it came (in
\* a task, or in the idle loop, whose charge the dispatch must not repeat), however
\* many others sleep, and whether the sleeper is suspended or not; nor is a sleeper
\* woken before the ticks that have come cover its timer.
TicksChargedOnce == [][\A p \in DOMAIN PD : Sleeping(p) => ChargedOnce(p)]_clockVars

=============================================================================
