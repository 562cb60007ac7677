---------------------------- MODULE MailboxProofs ----------------------------
(***************************************************************************)
(* Theorems about Mailbox, for every value of its constants.               *)
(***************************************************************************)
EXTENDS Mailbox, TimerProofs

-----------------------------------------------------------------------------
(* The recursion of the two functions that serve the queues.               *)

\* Serve[n], when g is Serve[n - 1].
Level(n, g) ==
    IF n = 0 THEN [recv |-> Untouched, send |-> Untouched]
    ELSE [recv |-> [x \in Exchanges |-> Kernel_Mailbox_Recv_From_Queue(x, g)],
          send |-> [x \in Exchanges |-> Kernel_Mailbox_Send_From_Queue(x, g)]]

\* f holds the levels up to m.
Built(m, f) == \A n \in 0..m : f[n] = Level(n, f[n - 1])

\* They can be built one on the other, in one way ...
LEMMA LevelsExist == ASSUME NEW m \in Nat PROVE \E f : Built(m, f)
<1> DEFINE T == {k \in Nat : ~\E f : Built(k, f)}
<1>1. CASE T = {}
  BY <1>1
<1>2. CASE T # {}
  <2>1. PICK k \in T : \A l \in T : k <= l
    <3>1. T \subseteq Nat
      OBVIOUS
    <3> HIDE DEF T
    <3> QED BY <1>2, <3>1, LeastElement
  <2>2. k \in Nat /\ ~\E f : Built(k, f)
    BY <2>1
  <2>3. \E f : \A n \in 0..(k - 1) : f[n] = Level(n, f[n - 1])
    <3>1. CASE k = 0
      BY <3>1
    <3>2. CASE k # 0
      <4>1. k - 1 \in Nat /\ ~(k <= k - 1)
        BY <2>2, <3>2
      <4>2. k - 1 \notin T
        <5> HIDE DEF T
        <5> QED BY <2>1, <4>1
      <4>3. \E f : Built(k - 1, f)
        BY <4>1, <4>2
      <4> QED BY <4>3 DEF Built
    <3> QED BY <3>1, <3>2
  <2>4. PICK f : \A n \in 0..(k - 1) : f[n] = Level(n, f[n - 1])
    BY <2>3
  <2> DEFINE g == [n \in -1..k |-> IF n = k THEN Level(k, f[k - 1]) ELSE f[n]]
  <2>5. \A n \in -1..k : g[n] = IF n = k THEN Level(k, f[k - 1]) ELSE f[n]
    OBVIOUS
  <2> HIDE DEF g
  <2>6. ASSUME NEW n \in 0..k PROVE g[n] = Level(n, g[n - 1])
    <3>1. n \in -1..k /\ n - 1 \in -1..k /\ n - 1 # k
      BY <2>2
    <3>2. g[n - 1] = f[n - 1]
      BY <2>5, <3>1
    <3>3. CASE n = k
      BY <2>5, <3>1, <3>2, <3>3
    <3>4. CASE n # k
      <4>1. n \in 0..(k - 1)
        BY <2>2, <3>4
      <4> QED BY <2>4, <2>5, <3>1, <3>2, <3>4, <4>1
    <3> QED BY <3>3, <3>4
  <2>7. Built(k, g)
    BY <2>6 DEF Built
  <2> QED BY <2>2, <2>7
<1> QED BY <1>1, <1>2

LEMMA LevelZero == \A g, h : Level(0, g) = Level(0, h)
  BY DEF Level

LEMMA LevelsUnique ==
    ASSUME NEW m \in Nat, NEW k \in Nat, m <= k, NEW f, NEW g, Built(m, f), Built(k, g)
    PROVE  \A n \in 0..m : f[n] = g[n]
<1> DEFINE T == {n \in 0..m : f[n] # g[n]}
<1>1. CASE T = {}
  BY <1>1
<1>2. CASE T # {}
  <2>1. PICK n \in T : \A l \in T : n <= l
    <3>1. T \subseteq Nat
      OBVIOUS
    <3> HIDE DEF T
    <3> QED BY <1>2, <3>1, LeastElement
  <2>2. n \in 0..m /\ n \in 0..k /\ f[n] # g[n]
    BY <2>1
  <2>3. f[n] = Level(n, f[n - 1]) /\ g[n] = Level(n, g[n - 1])
    BY <2>2 DEF Built
  <2>4. n # 0
    BY <2>2, <2>3, LevelZero
  <2>5. n - 1 \in 0..m /\ ~(n <= n - 1)
    BY <2>2, <2>4
  <2>6. f[n - 1] = g[n - 1]
    BY <2>1, <2>5
  <2> QED BY <2>2, <2>3, <2>6
<1> QED BY <1>1, <1>2

\* ... so Serve is what its definition says.
LEMMA ServeLevel == \A n \in Nat : Serve[n] = Level(n, Serve[n - 1])
<1> DEFINE Is(f) == f = [n \in Nat |-> Level(n, f[n - 1])]
           built(k) == CHOOSE f : Built(k, f)
           F == [n \in Nat |-> built(n)[n]]
<1>1. \A k \in Nat : Built(k, built(k))
  BY LevelsExist
<1>2. ASSUME NEW n \in Nat PROVE F[n] = Level(n, F[n - 1])
  <2>1. F[n] = built(n)[n]
    OBVIOUS
  <2>2. built(n)[n] = Level(n, built(n)[n - 1])
    <3>1. Built(n, built(n)) /\ n \in 0..n
      BY <1>1
    <3> HIDE DEF built
    <3> QED BY <3>1 DEF Built
  <2>3. CASE n = 0
    <3> HIDE DEF F, built
    <3> QED BY <2>1, <2>2, <2>3, LevelZero
  <2>4. CASE n # 0
    <3>1. n - 1 \in Nat /\ n - 1 <= n /\ n - 1 \in 0..(n - 1)
      BY <2>4
    <3>2. Built(n - 1, built(n - 1)) /\ Built(n, built(n))
      BY <1>1, <3>1
    <3>3. built(n - 1)[n - 1] = built(n)[n - 1]
      <4> HIDE DEF built
      <4> QED BY <3>1, <3>2, LevelsUnique
    <3>4. F[n - 1] = built(n - 1)[n - 1]
      BY <3>1
    <3> HIDE DEF F, built
    <3> QED BY <2>1, <2>2, <3>3, <3>4
  <2> QED BY <2>3, <2>4
<1>3. Is(F)
  <2> DEFINE H == [n \in Nat |-> Level(n, F[n - 1])]
  <2>1. F = [n \in Nat |-> F[n]]
    OBVIOUS
  <2> HIDE DEF F
  <2>2. F = H
    BY <1>2, <2>1
  <2> QED BY <2>2
<1>4. Is(CHOOSE f : Is(f))
  <2> HIDE DEF Is
  <2> QED BY <1>3
<1>5. Serve = CHOOSE f : Is(f)
  BY DEF Serve, Level
<1>6. Is(Serve)
  <2> HIDE DEF Is
  <2> QED BY <1>4, <1>5
<1> QED BY <1>6

\* Each level of Serve by the one below it.
LEMMA ServeFacts ==
    ASSUME NEW x \in Exchanges
    PROVE  /\ Serve[0].recv[x] = x /\ Serve[0].send[x] = x
           /\ \A n \in Nat :
                 /\ Serve[n + 1].recv[x] = Kernel_Mailbox_Recv_From_Queue(x, Serve[n])
                 /\ Serve[n + 1].send[x] = Kernel_Mailbox_Send_From_Queue(x, Serve[n])
<1>1. Serve[0] = [recv |-> Untouched, send |-> Untouched]
  BY ServeLevel DEF Level
<1>2. ASSUME NEW n \in Nat
      PROVE  /\ Serve[n + 1].recv[x] = Kernel_Mailbox_Recv_From_Queue(x, Serve[n])
             /\ Serve[n + 1].send[x] = Kernel_Mailbox_Send_From_Queue(x, Serve[n])
  <2>1. n + 1 \in Nat /\ n + 1 # 0 /\ (n + 1) - 1 = n
    OBVIOUS
  <2>2. Serve[n + 1] = Level(n + 1, Serve[n])
    BY <2>1, ServeLevel
  <2>3. Serve[n + 1] = [recv |-> [y \in Exchanges |-> Kernel_Mailbox_Recv_From_Queue(y, Serve[n])],
                        send |-> [y \in Exchanges |-> Kernel_Mailbox_Send_From_Queue(y, Serve[n])]]
    BY <2>1, <2>2 DEF Level
  <2> QED BY <2>3
<1> QED BY <1>1, <1>2 DEF Untouched

-----------------------------------------------------------------------------
(* Exchanges, whatever tasks wait in the mailbox.                          *)

Waits(box) == ToSet(box.send_queue) \cup ToSet(box.recv_queue)

\* A mailbox, when the processes are those of tasks.
BoxOK(box, tasks) ==
    /\ box \in MailboxType
    /\ Len(box.mails) <= box.capacity
    /\ Waits(box) \subseteq tasks

ExchangeOK(x) ==
    /\ x \in Exchanges
    /\ Len(x.pd) <= MaxPid
    /\ BoxOK(x.box, DOMAIN x.pd)

\* Some tasks that are in a mailbox call go on.
Wakes(a, b) ==
    /\ DOMAIN b = DOMAIN a
    /\ \A p \in DOMAIN a :
          b[p] = a[p] \/ (a[p].state = "WAIT_MAILBOX" /\ b[p] = [a[p] EXCEPT !.state = "READY"])

\* y is what calls make of x.
Continues(x, y) ==
    /\ ExchangeOK(y)
    /\ y.box.capacity = x.box.capacity
    /\ y.noRoom = x.noRoom
    /\ Wakes(x.pd, y.pd)
    /\ Waiters(y.box) <= Waiters(x.box)

LEMMA WakesTransitive ==
    ASSUME NEW a \in Seq(Process), NEW b \in Seq(Process), NEW c, Wakes(a, b), Wakes(b, c)
    PROVE  Wakes(a, c)
<1> SUFFICES ASSUME NEW p \in DOMAIN a
             PROVE  \/ c[p] = a[p]
                    \/ a[p].state = "WAIT_MAILBOX" /\ c[p] = [a[p] EXCEPT !.state = "READY"]
  BY DEF Wakes
<1>1. a[p] \in Process /\ p \in DOMAIN b
  BY ElementOfSeq, LenProperties DEF Wakes
<1>2. [a[p] EXCEPT !.state = "READY"].state = "READY"
  BY <1>1 DEF Process
<1> QED BY <1>1, <1>2 DEF Wakes

LEMMA ContinuesTransitive ==
    ASSUME NEW x, NEW y, NEW z, ExchangeOK(x), Continues(x, y), Continues(y, z)
    PROVE  Continues(x, z)
<1>1. x.pd \in Seq(Process) /\ y.pd \in Seq(Process)
  BY DEF ExchangeOK, Continues, Exchanges
<1>2. Wakes(x.pd, z.pd)
  BY <1>1, WakesTransitive DEF Continues
<1>3. Waiters(x.box) \in Int /\ Waiters(y.box) \in Int /\ Waiters(z.box) \in Int
  BY LenProperties DEF ExchangeOK, Continues, BoxOK, MailboxType, Waiters
<1>4. Waiters(z.box) <= Waiters(x.box)
  BY <1>3 DEF Continues
<1> QED BY <1>2, <1>4 DEF Continues

LEMMA ContinuesReflexive == ASSUME NEW x, ExchangeOK(x) PROVE Continues(x, x)
<1>1. Waiters(x.box) <= Waiters(x.box)
  BY LenProperties DEF ExchangeOK, BoxOK, MailboxType, Waiters
<1> QED BY <1>1 DEF Continues, Wakes

\* The first element of a queue, and the rest.
LEMMA DequeueFacts ==
    ASSUME NEW S, NEW q \in Seq(S), q # <<>>
    PROVE  /\ Head(q) \in ToSet(q) /\ Head(q) \in S
           /\ Tail(q) \in Seq(S) /\ Len(Tail(q)) = Len(q) - 1
           /\ ToSet(Tail(q)) \subseteq ToSet(q)
           /\ \A i \in 1..(Len(q) - 1) : Tail(q)[i] = q[i + 1]
<1>1. Len(q) \in Nat /\ DOMAIN q = 1..Len(q) /\ Len(q) # 0
  BY LenProperties, EmptySeq
<1>2. Head(q) = q[1] /\ 1 \in DOMAIN q
  BY <1>1, HeadTailProperties
<1>3. /\ Tail(q) \in Seq(S) /\ Len(Tail(q)) = Len(q) - 1
      /\ \A i \in 1..(Len(q) - 1) : Tail(q)[i] = q[i + 1]
  BY HeadTailProperties
<1>4. DOMAIN Tail(q) = 1..(Len(q) - 1)
  BY <1>3, LenProperties
<1>5. ToSet(Tail(q)) \subseteq ToSet(q)
  <2>1. \A i \in 1..(Len(q) - 1) : i + 1 \in DOMAIN q
    BY <1>1
  <2> QED BY <1>3, <1>4, <2>1 DEF ToSet
<1> QED BY <1>2, <1>3, <1>5, ElementOfSeq DEF ToSet

LEMMA SumFacts ==
    ASSUME NEW a \in Nat, NEW b \in Nat
    PROVE  /\ a + b \in Nat
           /\ (a - 1) + b = (a + b) - 1
           /\ a + (b - 1) = (a + b) - 1
  OBVIOUS

\* The fields of an exchange.
LEMMA ExchangeTypes ==
    ASSUME NEW x, ExchangeOK(x)
    PROVE  /\ x.pd \in Seq(Process) /\ DOMAIN x.pd = 1..Len(x.pd)
           /\ DOMAIN x.pd \subseteq 1..MaxPid /\ DOMAIN x.pd \subseteq Nat
           /\ x.box.mails \in Seq(Contents) /\ x.box.capacity \in Nat
           /\ x.box.send_queue \in Seq(DOMAIN x.pd) /\ x.box.recv_queue \in Seq(DOMAIN x.pd)
           /\ Len(x.box.mails) \in Nat /\ Waiters(x.box) \in Nat
           /\ x.request \in [1..MaxPid -> Contents \cup {"NULL", "MAIL"}]
           /\ x.received \in [1..MaxPid -> Contents \cup {"NULL"}]
<1>1. /\ x.pd \in Seq(Process) /\ x.box \in MailboxType
      /\ x.request \in [1..MaxPid -> Contents \cup {"NULL", "MAIL"}]
      /\ x.received \in [1..MaxPid -> Contents \cup {"NULL"}]
  BY DEF ExchangeOK, Exchanges
<1>2. DOMAIN x.pd = 1..Len(x.pd) /\ Len(x.pd) \in Nat /\ Len(x.pd) <= MaxPid
  BY <1>1, LenProperties DEF ExchangeOK
<1>3. DOMAIN x.pd \subseteq 1..MaxPid /\ DOMAIN x.pd \subseteq Nat
  BY <1>2, EnvironmentAssumption
<1>4. ASSUME NEW q \in Seq(Nat), ToSet(q) \subseteq DOMAIN x.pd PROVE q \in Seq(DOMAIN x.pd)
  <2>1. Len(q) \in Nat /\ q \in [1..Len(q) -> Nat] /\ DOMAIN q = 1..Len(q)
    BY LenProperties
  <2>2. q \in [1..Len(q) -> DOMAIN x.pd]
    BY <1>4, <2>1 DEF ToSet
  <2> HIDE DEF ExchangeOK
  <2> QED BY <2>1, <2>2, SegmentIsSeq
<1>5. x.box.send_queue \in Seq(DOMAIN x.pd) /\ x.box.recv_queue \in Seq(DOMAIN x.pd)
  BY <1>1, <1>4 DEF ExchangeOK, BoxOK, Waits, MailboxType
<1>6. Len(x.box.mails) \in Nat /\ Waiters(x.box) \in Nat
  <2>1. /\ x.box.mails \in Seq(Contents)
        /\ x.box.send_queue \in Seq(Nat) /\ x.box.recv_queue \in Seq(Nat)
    BY <1>1 DEF MailboxType
  <2>2. /\ Len(x.box.mails) \in Nat
        /\ Len(x.box.send_queue) \in Nat /\ Len(x.box.recv_queue) \in Nat
    BY <2>1, LenProperties
  <2> QED BY <2>2, SumFacts DEF Waiters
<1> QED BY <1>1, <1>2, <1>3, <1>5, <1>6 DEF MailboxType

\* A task leaves the receivers, or the senders.
LEMMA LeavesReceivers ==
    ASSUME NEW x, ExchangeOK(x), x.box.recv_queue # <<>>
    PROVE  LET y == [x EXCEPT !.box.recv_queue = Tail(x.box.recv_queue)]
           IN /\ ExchangeOK(y) /\ Continues(x, y) /\ Waiters(y.box) = Waiters(x.box) - 1
              /\ Head(x.box.recv_queue) \in DOMAIN x.pd
              /\ y.pd = x.pd /\ y.noRoom = x.noRoom
              /\ y.box = [x.box EXCEPT !.recv_queue = Tail(x.box.recv_queue)]
              /\ y.request = x.request /\ y.received = x.received /\ y.error = x.error
<1> DEFINE q == x.box.recv_queue
           y == [x EXCEPT !.box.recv_queue = Tail(q)]
<1>1. /\ y.pd = x.pd /\ y.noRoom = x.noRoom
      /\ y.box = [x.box EXCEPT !.recv_queue = Tail(q)]
      /\ y.request = x.request /\ y.received = x.received /\ y.error = x.error
  BY DEF ExchangeOK, Exchanges
<1>2. /\ Head(q) \in DOMAIN x.pd /\ Tail(q) \in Seq(Nat)
      /\ Len(Tail(q)) = Len(q) - 1 /\ ToSet(Tail(q)) \subseteq ToSet(q)
  <2>1. q \in Seq(DOMAIN x.pd) /\ q \in Seq(Nat)
    BY ExchangeTypes DEF ExchangeOK, BoxOK, MailboxType
  <2> QED BY <2>1, DequeueFacts
<1>3. /\ y.box \in MailboxType /\ y.box.mails = x.box.mails /\ y.box.capacity = x.box.capacity
      /\ y.box.send_queue = x.box.send_queue /\ y.box.recv_queue = Tail(q)
  <2>1. x.box \in MailboxType /\ y.box = [x.box EXCEPT !.recv_queue = Tail(q)] /\ Tail(q) \in Seq(Nat)
    BY <1>1, <1>2 DEF ExchangeOK, BoxOK
  <2> HIDE DEF q, y
  <2> QED BY <2>1 DEF MailboxType
<1>4. y \in Exchanges
  BY <1>3 DEF ExchangeOK, Exchanges
<1>5. Waiters(y.box) = Waiters(x.box) - 1 /\ Waiters(x.box) \in Nat
  <2> HIDE DEF y
  <2>1. Len(x.box.send_queue) \in Nat /\ Len(x.box.recv_queue) \in Nat
    BY ExchangeTypes, LenProperties
  <2>2. /\ Len(y.box.recv_queue) = Len(x.box.recv_queue) - 1
        /\ y.box.send_queue = x.box.send_queue
    BY <1>2, <1>3
  <2>3. Waiters(y.box) = Waiters(x.box) - 1
    BY <2>1, <2>2, SumFacts DEF Waiters
  <2> QED BY <2>3, ExchangeTypes
<1> HIDE DEF y
<1>6. ExchangeOK(y)
  BY <1>1, <1>2, <1>3, <1>4 DEF ExchangeOK, BoxOK, Waits
<1>7. Continues(x, y)
  BY <1>1, <1>3, <1>5, <1>6 DEF Continues, Wakes
<1> QED BY <1>1, <1>2, <1>5, <1>6, <1>7 DEF y

LEMMA LeavesSenders ==
    ASSUME NEW x, ExchangeOK(x), x.box.send_queue # <<>>
    PROVE  LET y == [x EXCEPT !.box.send_queue = Tail(x.box.send_queue)]
           IN /\ ExchangeOK(y) /\ Continues(x, y) /\ Waiters(y.box) = Waiters(x.box) - 1
              /\ Head(x.box.send_queue) \in DOMAIN x.pd
              /\ y.pd = x.pd /\ y.noRoom = x.noRoom
              /\ y.box = [x.box EXCEPT !.send_queue = Tail(x.box.send_queue)]
              /\ y.request = x.request /\ y.received = x.received /\ y.error = x.error
<1> DEFINE q == x.box.send_queue
           y == [x EXCEPT !.box.send_queue = Tail(q)]
<1>1. /\ y.pd = x.pd /\ y.noRoom = x.noRoom
      /\ y.box = [x.box EXCEPT !.send_queue = Tail(q)]
      /\ y.request = x.request /\ y.received = x.received /\ y.error = x.error
  BY DEF ExchangeOK, Exchanges
<1>2. /\ Head(q) \in DOMAIN x.pd /\ Tail(q) \in Seq(Nat)
      /\ Len(Tail(q)) = Len(q) - 1 /\ ToSet(Tail(q)) \subseteq ToSet(q)
  <2>1. q \in Seq(DOMAIN x.pd) /\ q \in Seq(Nat)
    BY ExchangeTypes DEF ExchangeOK, BoxOK, MailboxType
  <2> QED BY <2>1, DequeueFacts
<1>3. /\ y.box \in MailboxType /\ y.box.mails = x.box.mails /\ y.box.capacity = x.box.capacity
      /\ y.box.recv_queue = x.box.recv_queue /\ y.box.send_queue = Tail(q)
  <2>1. x.box \in MailboxType /\ y.box = [x.box EXCEPT !.send_queue = Tail(q)] /\ Tail(q) \in Seq(Nat)
    BY <1>1, <1>2 DEF ExchangeOK, BoxOK
  <2> HIDE DEF q, y
  <2> QED BY <2>1 DEF MailboxType
<1>4. y \in Exchanges
  BY <1>3 DEF ExchangeOK, Exchanges
<1>5. Waiters(y.box) = Waiters(x.box) - 1 /\ Waiters(x.box) \in Nat
  <2> HIDE DEF y
  <2>1. Len(x.box.send_queue) \in Nat /\ Len(x.box.recv_queue) \in Nat
    BY ExchangeTypes, LenProperties
  <2>2. /\ Len(y.box.send_queue) = Len(x.box.send_queue) - 1
        /\ y.box.recv_queue = x.box.recv_queue
    BY <1>2, <1>3
  <2>3. Waiters(y.box) = Waiters(x.box) - 1
    BY <2>1, <2>2, SumFacts DEF Waiters
  <2> QED BY <2>3, ExchangeTypes
<1> HIDE DEF y
<1>6. ExchangeOK(y)
  BY <1>1, <1>2, <1>3, <1>4 DEF ExchangeOK, BoxOK, Waits
<1>7. Continues(x, y)
  BY <1>1, <1>3, <1>5, <1>6 DEF Continues, Wakes
<1> QED BY <1>1, <1>2, <1>5, <1>6, <1>7 DEF y

\* Only the mailbox, and of it only the mails, or only the error, change.
LEMMA MailsChange ==
    ASSUME NEW x, ExchangeOK(x), NEW mails \in Seq(Contents), Len(mails) <= x.box.capacity
    PROVE  LET y == [x EXCEPT !.box.mails = mails]
           IN /\ Continues(x, y) /\ Waiters(y.box) = Waiters(x.box)
              /\ y.pd = x.pd /\ y.noRoom = x.noRoom /\ y.box = [x.box EXCEPT !.mails = mails]
              /\ y.request = x.request /\ y.received = x.received /\ y.error = x.error
<1> DEFINE y == [x EXCEPT !.box.mails = mails]
<1>1. /\ y.pd = x.pd /\ y.noRoom = x.noRoom /\ y.box = [x.box EXCEPT !.mails = mails]
      /\ y.request = x.request /\ y.received = x.received /\ y.error = x.error
  BY DEF ExchangeOK, Exchanges
<1>2. /\ y.box \in MailboxType /\ y.box.mails = mails /\ y.box.capacity = x.box.capacity
      /\ y.box.send_queue = x.box.send_queue /\ y.box.recv_queue = x.box.recv_queue
  <2>1. x.box \in MailboxType
    BY DEF ExchangeOK, BoxOK
  <2> HIDE DEF y
  <2> QED BY <1>1, <2>1 DEF MailboxType
<1>3. y \in Exchanges
  BY <1>2 DEF ExchangeOK, Exchanges
<1> HIDE DEF y
<1>4. ExchangeOK(y)
  BY <1>1, <1>2, <1>3 DEF ExchangeOK, BoxOK, Waits
<1>5. Waiters(y.box) = Waiters(x.box) /\ Waiters(x.box) \in Nat
  BY <1>2, ExchangeTypes DEF Waiters
<1>6. Waiters(y.box) <= Waiters(x.box)
  BY <1>5
<1>7. Continues(x, y)
  BY <1>1, <1>2, <1>4, <1>6 DEF Continues, Wakes
<1> QED BY <1>1, <1>5, <1>7 DEF y

LEMMA ErrorChanges ==
    ASSUME NEW x, ExchangeOK(x), NEW error \in Errors
    PROVE  LET y == [x EXCEPT !.error = error]
           IN /\ Continues(x, y) /\ y.box = x.box
              /\ y.pd = x.pd /\ y.noRoom = x.noRoom
              /\ y.request = x.request /\ y.received = x.received
<1> DEFINE y == [x EXCEPT !.error = error]
<1>1. /\ y.pd = x.pd /\ y.noRoom = x.noRoom /\ y.box = x.box
      /\ y.request = x.request /\ y.received = x.received /\ y \in Exchanges
  BY DEF ExchangeOK, Exchanges
<1> HIDE DEF y
<1>2. ExchangeOK(y)
  BY <1>1 DEF ExchangeOK
<1>3. Waiters(y.box) <= Waiters(x.box)
  <2>1. Waiters(x.box) \in Nat
    BY ExchangeTypes
  <2> QED BY <1>1, <2>1
<1>4. Continues(x, y)
  BY <1>1, <1>2, <1>3 DEF Continues, Wakes
<1> QED BY <1>1, <1>4 DEF y

\* A mail is received, and another one sent.
LEMMA DeliveredFacts ==
    ASSUME NEW x, ExchangeOK(x), x.box.mails # <<>>, NEW p \in DOMAIN x.pd
    PROVE  LET y == Delivered(x, p)
           IN /\ Continues(x, y) /\ Waiters(y.box) = Waiters(x.box)
              /\ y.pd = x.pd /\ y.noRoom = x.noRoom /\ y.error = x.error
              /\ y.box = [x.box EXCEPT !.mails = Tail(x.box.mails)]
              /\ x.request[p] = "MAIL" =>
                    /\ y.received = [x.received EXCEPT ![p] = Head(x.box.mails)]
                    /\ y.request = x.request
<1> DEFINE mails == Tail(x.box.mails)
           z == [x EXCEPT !.box.mails = mails]
           y == Delivered(x, p)
<1>1. /\ mails \in Seq(Contents) /\ Len(mails) <= x.box.capacity
      /\ Head(x.box.mails) \in Contents
  <2>1. /\ x.box.mails \in Seq(Contents) /\ Len(x.box.mails) \in Nat
        /\ x.box.capacity \in Nat /\ Len(x.box.mails) <= x.box.capacity
    BY ExchangeTypes DEF ExchangeOK, BoxOK
  <2>2. mails \in Seq(Contents) /\ Len(mails) = Len(x.box.mails) - 1
    BY <2>1, DequeueFacts
  <2>3. Len(mails) <= x.box.capacity
    BY <2>1, <2>2
  <2> QED BY <2>1, <2>2, <2>3, DequeueFacts
<1>2. /\ Continues(x, z) /\ Waiters(z.box) = Waiters(x.box)
      /\ z.pd = x.pd /\ z.noRoom = x.noRoom /\ z.box = [x.box EXCEPT !.mails = mails]
      /\ z.request = x.request /\ z.received = x.received /\ z.error = x.error
  BY <1>1, MailsChange
<1>3. y = IF x.request[p] = "MAIL" THEN [z EXCEPT !.received[p] = Head(x.box.mails)]
                                    ELSE [z EXCEPT !.request[p] = "garbage"]
  BY DEF Delivered
<1> HIDE DEF z, y, mails
<1>4. ExchangeOK(z) /\ z \in Exchanges /\ p \in 1..MaxPid
  BY <1>2, ExchangeTypes DEF Continues, ExchangeOK
<1>5. /\ y.pd = z.pd /\ y.noRoom = z.noRoom /\ y.error = z.error /\ y.box = z.box
      /\ x.request[p] = "MAIL" => /\ y.received = [z.received EXCEPT ![p] = Head(x.box.mails)]
                                  /\ y.request = z.request
  BY <1>3, <1>4 DEF Exchanges
<1>6. y \in Exchanges
  BY <1>1, <1>3, <1>4 DEF Exchanges, Contents
<1>7. ExchangeOK(y)
  BY <1>4, <1>5, <1>6 DEF ExchangeOK
<1>8. Continues(x, y)
  BY <1>2, <1>5, <1>7 DEF Continues
<1> QED BY <1>2, <1>5, <1>8 DEF y, mails

LEMMA AppendedFacts ==
    ASSUME NEW x, ExchangeOK(x), ~IsFull(x.box), NEW p \in DOMAIN x.pd
    PROVE  LET y == [x EXCEPT !.box.mails = Append(x.box.mails, MessageOf(x, p))]
           IN /\ Continues(x, y) /\ Waiters(y.box) = Waiters(x.box)
              /\ y.pd = x.pd /\ y.noRoom = x.noRoom /\ y.error = x.error
              /\ y.box = [x.box EXCEPT !.mails = Append(x.box.mails, MessageOf(x, p))]
              /\ y.request = x.request /\ y.received = x.received
<1> DEFINE mails == Append(x.box.mails, MessageOf(x, p))
<1>1. /\ x.box.mails \in Seq(Contents) /\ Len(x.box.mails) \in Nat
      /\ x.box.capacity \in Nat /\ Len(x.box.mails) < x.box.capacity
  BY ExchangeTypes DEF IsFull
<1>2. MessageOf(x, p) \in Contents
  BY DEF MessageOf, Contents
<1>3. mails \in Seq(Contents) /\ Len(mails) = Len(x.box.mails) + 1
  BY <1>1, <1>2, AppendProperties
<1>4. Len(mails) <= x.box.capacity
  BY <1>1, <1>3
<1> HIDE DEF mails
<1>5. LET y == [x EXCEPT !.box.mails = mails]
      IN /\ Continues(x, y) /\ Waiters(y.box) = Waiters(x.box)
         /\ y.pd = x.pd /\ y.noRoom = x.noRoom /\ y.box = [x.box EXCEPT !.mails = mails]
         /\ y.request = x.request /\ y.received = x.received /\ y.error = x.error
  BY <1>3, <1>4, MailsChange
<1> QED BY <1>5 DEF mails

\* A task goes on.
LEMMA WokenFacts ==
    ASSUME NEW x, ExchangeOK(x), NEW p \in DOMAIN x.pd,
           x.pd[p].state \in {"WAIT_MAILBOX", "READY"}
    PROVE  LET y == Woken(x, p)
           IN /\ Continues(x, y) /\ y.box = x.box /\ y.noRoom = x.noRoom
              /\ y.error = x.error /\ y.received = x.received
              /\ y.pd = [x.pd EXCEPT ![p] = [x.pd[p] EXCEPT !.state = "READY"]]
              /\ y.request = [x.request EXCEPT ![p] = "NULL"]
<1> DEFINE y == Woken(x, p)
           a == x.pd[p]
           b == [a EXCEPT !.state = "READY"]
<1>1. /\ x.pd \in Seq(Process) /\ p \in 1..MaxPid /\ x \in Exchanges
  BY ExchangeTypes DEF ExchangeOK
<1>2. a \in Process /\ b \in Process
  <2>1. a \in Process
    BY <1>1, ElementOfSeq, LenProperties
  <2> HIDE DEF a
  <2> QED BY <2>1 DEF Process, States
<1>3. /\ y.box = x.box /\ y.noRoom = x.noRoom
      /\ y.error = x.error /\ y.received = x.received
      /\ y.pd = [x.pd EXCEPT ![p] = b]
      /\ y.request = [x.request EXCEPT ![p] = "NULL"]
  BY <1>1 DEF Woken, Exchanges
<1>4. /\ y.pd \in Seq(Process) /\ DOMAIN y.pd = DOMAIN x.pd /\ Len(y.pd) = Len(x.pd)
  BY <1>1, <1>2, <1>3, ExceptSeq
<1>5. y \in Exchanges
  <2>1. y.request \in [1..MaxPid -> Contents \cup {"NULL", "MAIL"}]
    BY <1>1, <1>3 DEF Exchanges
  <2>2. y = [x EXCEPT !.pd = y.pd, !.request = y.request]
    BY <1>1, <1>3 DEF Woken, Exchanges
  <2> HIDE DEF y
  <2> QED BY <1>1, <1>4, <2>1, <2>2 DEF Exchanges
<1> HIDE DEF y
<1>6. ExchangeOK(y)
  BY <1>3, <1>4, <1>5 DEF ExchangeOK
<1>7. Wakes(x.pd, y.pd)
  <2>1. a.state = "READY" => b = a
    BY <1>2 DEF Process
  <2>2. \A r \in DOMAIN x.pd : y.pd[r] = IF r = p THEN b ELSE x.pd[r]
    BY <1>3
  <2> HIDE DEF b
  <2>3. y.pd[p] = a \/ (a.state = "WAIT_MAILBOX" /\ y.pd[p] = b)
    BY <2>1, <2>2
  <2> QED BY <1>4, <2>2, <2>3 DEF Wakes, b
<1>8. Waiters(y.box) <= Waiters(x.box)
  <2>1. Waiters(x.box) \in Nat
    BY ExchangeTypes
  <2> QED BY <1>3, <2>1
<1>9. Continues(x, y)
  BY <1>3, <1>6, <1>7, <1>8 DEF Continues
<1> QED BY <1>3, <1>9 DEF y

-----------------------------------------------------------------------------
(* Serving the queues, however many tasks wait in them.                    *)

\* What serve does to an exchange is a continuation of it.
Sound(serve) ==
    \A x : ExchangeOK(x) => Continues(x, serve.recv[x]) /\ Continues(x, serve.send[x])

LEMMA StoreContinues ==
    ASSUME NEW serve, Sound(serve), NEW x, ExchangeOK(x), ~IsFull(x.box), NEW p \in DOMAIN x.pd
    PROVE  Continues(x, Store(x, p, serve))
<1> DEFINE y == [x EXCEPT !.box.mails = Append(x.box.mails, MessageOf(x, p))]
<1>1. CASE p \in x.noRoom
  <2>1. Continues(x, [x EXCEPT !.error = "MALLOC_FAILED_ERR"])
    BY ErrorChanges DEF Errors
  <2> QED BY <1>1, <2>1 DEF Store
<1>2. CASE p \notin x.noRoom
  <2>1. Continues(x, y)
    BY AppendedFacts
  <2>2. Store(x, p, serve) = serve.recv[y]
    BY <1>2 DEF Store
  <2> HIDE DEF y
  <2>3. ExchangeOK(y) /\ Continues(y, serve.recv[y])
    BY <2>1 DEF Continues, Sound
  <2> QED BY <2>1, <2>2, <2>3, ContinuesTransitive
<1> QED BY <1>1, <1>2

LEMMA FetchContinues ==
    ASSUME NEW serve, Sound(serve), NEW x, ExchangeOK(x), x.box.mails # <<>>, NEW p \in DOMAIN x.pd
    PROVE  Continues(x, Fetch(x, p, serve))
<1> DEFINE y == Delivered(x, p)
<1>1. Continues(x, y)
  BY DeliveredFacts
<1> HIDE DEF y
<1>2. ExchangeOK(y) /\ Continues(y, serve.send[y])
  BY <1>1 DEF Continues, Sound
<1>3. Fetch(x, p, serve) = serve.send[y]
  BY DEF Fetch, y
<1> QED BY <1>1, <1>2, <1>3, ContinuesTransitive

\* Waking a task whose call was finished in between.
LEMMA WokenContinues ==
    ASSUME NEW y, ExchangeOK(y), NEW p \in DOMAIN y.pd, y.pd[p].state = "WAIT_MAILBOX",
           NEW z, Continues(y, z)
    PROVE  Continues(y, Woken(z, p))
<1>1. y.pd[p] \in Process
  BY ExchangeTypes, ElementOfSeq, LenProperties
<1>2. p \in DOMAIN z.pd /\ z.pd[p].state \in {"WAIT_MAILBOX", "READY"} /\ ExchangeOK(z)
  BY <1>1 DEF Continues, Wakes, Process
<1>3. Continues(z, Woken(z, p))
  BY <1>2, WokenFacts
<1> QED BY <1>3, ContinuesTransitive

\* The loop over the receivers takes one of three ways ...
RecvLoop(x, serve, z) ==
    LET q == x.box.recv_queue
        y == [x EXCEPT !.box.recv_queue = Tail(q)]
    IN \/ (q = <<>> \/ x.box.mails = <<>>) /\ z = x
       \/ /\ q # <<>> /\ x.box.mails # <<>>
          /\ x.pd[Head(q)].state # "WAIT_MAILBOX"
          /\ z = [y EXCEPT !.error = "UNPROCESSABLE_TASK_STATE_ERR"]
       \/ /\ q # <<>> /\ x.box.mails # <<>>
          /\ x.pd[Head(q)].state = "WAIT_MAILBOX"
          /\ z = serve.recv[Woken(Fetch(y, Head(q), serve), Head(q))]

SendLoop(x, serve, z) ==
    LET q == x.box.send_queue
        y == [x EXCEPT !.box.send_queue = Tail(q)]
    IN \/ (q = <<>> \/ IsFull(x.box)) /\ z = x
       \/ /\ q # <<>> /\ ~IsFull(x.box)
          /\ x.pd[Head(q)].state # "WAIT_MAILBOX"
          /\ z = [y EXCEPT !.error = "UNPROCESSABLE_TASK_STATE_ERR"]
       \/ /\ q # <<>> /\ ~IsFull(x.box)
          /\ x.pd[Head(q)].state = "WAIT_MAILBOX"
          /\ z = serve.send[Woken(Store(y, Head(q), serve), Head(q))]

LEMMA RecvLoops == \A x, serve : RecvLoop(x, serve, Kernel_Mailbox_Recv_From_Queue(x, serve))
  BY DEF Kernel_Mailbox_Recv_From_Queue, RecvLoop, StillWaits

LEMMA SendLoops == \A x, serve : SendLoop(x, serve, Kernel_Mailbox_Send_From_Queue(x, serve))
  BY DEF Kernel_Mailbox_Send_From_Queue, SendLoop, StillWaits

\* ... the third of which begins with one task less that waits.
LEMMA ReceiverServed ==
    ASSUME NEW serve, Sound(serve), NEW x, ExchangeOK(x),
           x.box.recv_queue # <<>>, x.box.mails # <<>>,
           x.pd[Head(x.box.recv_queue)].state = "WAIT_MAILBOX"
    PROVE  LET p == Head(x.box.recv_queue)
               y == [x EXCEPT !.box.recv_queue = Tail(x.box.recv_queue)]
               w == Woken(Fetch(y, p, serve), p)
           IN /\ ExchangeOK(y) /\ p \in DOMAIN y.pd /\ y.box.mails = x.box.mails
              /\ Continues(x, w)
              /\ Waiters(w.box) <= Waiters(x.box) - 1
              /\ Waiters(y.box) = Waiters(x.box) - 1
<1> DEFINE p == Head(x.box.recv_queue)
           y == [x EXCEPT !.box.recv_queue = Tail(x.box.recv_queue)]
           z == Fetch(y, p, serve)
           w == Woken(z, p)
<1>1. /\ ExchangeOK(y) /\ Continues(x, y) /\ Waiters(y.box) = Waiters(x.box) - 1
      /\ p \in DOMAIN x.pd /\ y.pd = x.pd
      /\ y.box = [x.box EXCEPT !.recv_queue = Tail(x.box.recv_queue)]
  BY LeavesReceivers
<1>2. y.box.mails = x.box.mails
  <2>1. x.box \in MailboxType
    BY DEF ExchangeOK, BoxOK
  <2> HIDE DEF y
  <2> QED BY <1>1, <2>1 DEF MailboxType
<1> HIDE DEF p, y
<1>3. Continues(y, z)
  BY <1>1, <1>2, FetchContinues
<1> HIDE DEF z
<1>4. Continues(y, w)
  BY <1>1, <1>3, WokenContinues DEF p
<1> HIDE DEF w
<1>5. Continues(x, w) /\ Waiters(w.box) <= Waiters(x.box) - 1
  BY <1>1, <1>4, ContinuesTransitive DEF Continues
<1> QED BY <1>1, <1>2, <1>5 DEF p, y, z, w

LEMMA SenderServed ==
    ASSUME NEW serve, Sound(serve), NEW x, ExchangeOK(x),
           x.box.send_queue # <<>>, ~IsFull(x.box),
           x.pd[Head(x.box.send_queue)].state = "WAIT_MAILBOX"
    PROVE  LET p == Head(x.box.send_queue)
               y == [x EXCEPT !.box.send_queue = Tail(x.box.send_queue)]
               w == Woken(Store(y, p, serve), p)
           IN /\ ExchangeOK(y) /\ p \in DOMAIN y.pd /\ ~IsFull(y.box)
              /\ Continues(x, w)
              /\ Waiters(w.box) <= Waiters(x.box) - 1
              /\ Waiters(y.box) = Waiters(x.box) - 1
<1> DEFINE p == Head(x.box.send_queue)
           y == [x EXCEPT !.box.send_queue = Tail(x.box.send_queue)]
           z == Store(y, p, serve)
           w == Woken(z, p)
<1>1. /\ ExchangeOK(y) /\ Continues(x, y) /\ Waiters(y.box) = Waiters(x.box) - 1
      /\ p \in DOMAIN x.pd /\ y.pd = x.pd
      /\ y.box = [x.box EXCEPT !.send_queue = Tail(x.box.send_queue)]
  BY LeavesSenders
<1>2. ~IsFull(y.box)
  <2>1. x.box \in MailboxType
    BY DEF ExchangeOK, BoxOK
  <2> HIDE DEF y
  <2>2. y.box.mails = x.box.mails /\ y.box.capacity = x.box.capacity
    BY <1>1, <2>1 DEF MailboxType
  <2> QED BY <2>2 DEF IsFull
<1> HIDE DEF p, y
<1>3. Continues(y, z)
  BY <1>1, <1>2, StoreContinues
<1> HIDE DEF z
<1>4. Continues(y, w)
  BY <1>1, <1>3, WokenContinues DEF p
<1> HIDE DEF w
<1>5. Continues(x, w) /\ Waiters(w.box) <= Waiters(x.box) - 1
  BY <1>1, <1>4, ContinuesTransitive DEF Continues
<1> QED BY <1>1, <1>2, <1>5 DEF p, y, z, w

LEMMA LoopsContinue ==
    ASSUME NEW serve, Sound(serve), NEW x, ExchangeOK(x)
    PROVE  /\ Continues(x, Kernel_Mailbox_Recv_From_Queue(x, serve))
           /\ Continues(x, Kernel_Mailbox_Send_From_Queue(x, serve))
<1>1. ASSUME NEW z, RecvLoop(x, serve, z) PROVE Continues(x, z)
  <2> DEFINE q == x.box.recv_queue
             y == [x EXCEPT !.box.recv_queue = Tail(q)]
             w == Woken(Fetch(y, Head(q), serve), Head(q))
  <2>1. CASE z = x
    BY <2>1, ContinuesReflexive
  <2>2. CASE q # <<>> /\ z = [y EXCEPT !.error = "UNPROCESSABLE_TASK_STATE_ERR"]
    <3>1. ExchangeOK(y) /\ Continues(x, y)
      BY <2>2, LeavesReceivers
    <3> HIDE DEF y
    <3>2. Continues(y, z)
      BY <2>2, <3>1, ErrorChanges DEF Errors
    <3> QED BY <3>1, <3>2, ContinuesTransitive
  <2>3. CASE /\ q # <<>> /\ x.box.mails # <<>> /\ x.pd[Head(q)].state = "WAIT_MAILBOX"
             /\ z = serve.recv[w]
    <3>1. Continues(x, w)
      BY <2>3, ReceiverServed
    <3> HIDE DEF w
    <3>2. Continues(w, z)
      BY <2>3, <3>1 DEF Sound, Continues
    <3> QED BY <3>1, <3>2, ContinuesTransitive
  <2> QED BY <1>1, <2>1, <2>2, <2>3 DEF RecvLoop
<1>2. ASSUME NEW z, SendLoop(x, serve, z) PROVE Continues(x, z)
  <2> DEFINE q == x.box.send_queue
             y == [x EXCEPT !.box.send_queue = Tail(q)]
             w == Woken(Store(y, Head(q), serve), Head(q))
  <2>1. CASE z = x
    BY <2>1, ContinuesReflexive
  <2>2. CASE q # <<>> /\ z = [y EXCEPT !.error = "UNPROCESSABLE_TASK_STATE_ERR"]
    <3>1. ExchangeOK(y) /\ Continues(x, y)
      BY <2>2, LeavesSenders
    <3> HIDE DEF y
    <3>2. Continues(y, z)
      BY <2>2, <3>1, ErrorChanges DEF Errors
    <3> QED BY <3>1, <3>2, ContinuesTransitive
  <2>3. CASE /\ q # <<>> /\ ~IsFull(x.box) /\ x.pd[Head(q)].state = "WAIT_MAILBOX"
             /\ z = serve.send[w]
    <3>1. Continues(x, w)
      BY <2>3, SenderServed
    <3> HIDE DEF w
    <3>2. Continues(w, z)
      BY <2>3, <3>1 DEF Sound, Continues
    <3> QED BY <3>1, <3>2, ContinuesTransitive
  <2> QED BY <1>2, <2>1, <2>2, <2>3 DEF SendLoop
<1> QED BY <1>1, <1>2, RecvLoops, SendLoops

\* The calls that are finished keep the types, and no queue grows.
LEMMA ServeSound == \A n \in Nat : Sound(Serve[n])
<1>1. Sound(Serve[0])
  BY ServeFacts, ContinuesReflexive DEF Sound, ExchangeOK
<1>2. ASSUME NEW n \in Nat, Sound(Serve[n]) PROVE Sound(Serve[n + 1])
  <2> SUFFICES ASSUME NEW x, ExchangeOK(x)
               PROVE  /\ Continues(x, Serve[n + 1].recv[x])
                      /\ Continues(x, Serve[n + 1].send[x])
    BY DEF Sound
  <2>1. x \in Exchanges
    BY DEF ExchangeOK
  <2>2. /\ Serve[n + 1].recv[x] = Kernel_Mailbox_Recv_From_Queue(x, Serve[n])
        /\ Serve[n + 1].send[x] = Kernel_Mailbox_Send_From_Queue(x, Serve[n])
    BY <2>1, ServeFacts
  <2> QED BY <1>2, <2>2, LoopsContinue
<1> DEFINE T == {n \in Nat : ~Sound(Serve[n])}
<1>3. CASE T = {}
  BY <1>3
<1>4. CASE T # {}
  <2>1. PICK n \in T : \A l \in T : n <= l
    <3>1. T \subseteq Nat
      OBVIOUS
    <3> HIDE DEF T
    <3> QED BY <1>4, <3>1, LeastElement
  <2>2. n \in Nat /\ n # 0 /\ ~Sound(Serve[n])
    BY <1>1, <2>1
  <2>3. n - 1 \in Nat /\ ~(n <= n - 1) /\ (n - 1) + 1 = n
    BY <2>2
  <2>4. Sound(Serve[n - 1])
    BY <2>1, <2>3
  <2>5. Sound(Serve[(n - 1) + 1])
    BY <1>2, <2>3, <2>4
  <2> QED BY <2>2, <2>3, <2>5
<1> QED BY <1>3, <1>4

\* f and g do the same to an exchange in which fewer than n tasks wait.
Alike(n, f, g) ==
    \A x : ExchangeOK(x) /\ Waiters(x.box) < n => f.recv[x] = g.recv[x] /\ f.send[x] = g.send[x]

LEMMA LessFacts ==
    ASSUME NEW n \in Nat, NEW a \in Nat, a < n + 1
    PROVE  a - 1 < n /\ \A b \in Nat : b <= a - 1 => b < n
  OBVIOUS

LEMMA FetchAlike ==
    ASSUME NEW f, NEW g, NEW n \in Nat, Alike(n, f, g), NEW x, ExchangeOK(x), x.box.mails # <<>>,
           NEW p \in DOMAIN x.pd, Waiters(x.box) < n
    PROVE  Fetch(x, p, f) = Fetch(x, p, g)
<1> DEFINE y == Delivered(x, p)
<1>1. ExchangeOK(y) /\ Waiters(y.box) < n
  BY DeliveredFacts DEF Continues
<1> HIDE DEF y
<1>2. f.send[y] = g.send[y]
  BY <1>1 DEF Alike
<1> QED BY <1>2 DEF Fetch, y

LEMMA StoreAlike ==
    ASSUME NEW f, NEW g, NEW n \in Nat, Alike(n, f, g), NEW x, ExchangeOK(x), ~IsFull(x.box),
           NEW p \in DOMAIN x.pd, Waiters(x.box) < n
    PROVE  Store(x, p, f) = Store(x, p, g)
<1> DEFINE y == [x EXCEPT !.box.mails = Append(x.box.mails, MessageOf(x, p))]
<1>1. ExchangeOK(y) /\ Waiters(y.box) < n
  BY AppendedFacts DEF Continues
<1>2. /\ Store(x, p, f) = IF p \in x.noRoom THEN [x EXCEPT !.error = "MALLOC_FAILED_ERR"] ELSE f.recv[y]
      /\ Store(x, p, g) = IF p \in x.noRoom THEN [x EXCEPT !.error = "MALLOC_FAILED_ERR"] ELSE g.recv[y]
  BY DEF Store
<1> HIDE DEF y
<1>3. f.recv[y] = g.recv[y]
  BY <1>1 DEF Alike
<1> QED BY <1>2, <1>3

\* One level deeper, one more may wait.
LEMMA LoopsAlike ==
    ASSUME NEW f, NEW g, Sound(f), NEW n \in Nat, Alike(n, f, g),
           NEW x, ExchangeOK(x), Waiters(x.box) < n + 1
    PROVE  /\ Kernel_Mailbox_Recv_From_Queue(x, f) = Kernel_Mailbox_Recv_From_Queue(x, g)
           /\ Kernel_Mailbox_Send_From_Queue(x, f) = Kernel_Mailbox_Send_From_Queue(x, g)
<1>w. Waiters(x.box) \in Nat
  BY ExchangeTypes
<1>1. Kernel_Mailbox_Recv_From_Queue(x, f) = Kernel_Mailbox_Recv_From_Queue(x, g)
  <2> DEFINE q == x.box.recv_queue
             p == Head(q)
             y == [x EXCEPT !.box.recv_queue = Tail(q)]
             w(serve) == Woken(Fetch(y, p, serve), p)
  <2>1. CASE ~(q # <<>> /\ x.box.mails # <<>> /\ x.pd[p].state = "WAIT_MAILBOX")
    BY <2>1, RecvLoops DEF RecvLoop
  <2>2. CASE q # <<>> /\ x.box.mails # <<>> /\ x.pd[p].state = "WAIT_MAILBOX"
    <3>1. /\ ExchangeOK(y) /\ p \in DOMAIN y.pd /\ y.box.mails # <<>>
          /\ Continues(x, w(f))
          /\ Waiters(w(f).box) <= Waiters(x.box) - 1
          /\ Waiters(y.box) = Waiters(x.box) - 1
      BY <2>2, ReceiverServed
    <3>2. Waiters(y.box) < n
      BY <1>w, <3>1, LessFacts
    <3>3. w(f) = w(g)
      <4> HIDE DEF y, p
      <4> QED BY <3>1, <3>2, FetchAlike
    <3>4. /\ Kernel_Mailbox_Recv_From_Queue(x, f) = f.recv[w(f)]
          /\ Kernel_Mailbox_Recv_From_Queue(x, g) = g.recv[w(g)]
      BY <2>2, RecvLoops DEF RecvLoop
    <3> HIDE DEF w
    <3>5. ExchangeOK(w(f)) /\ Waiters(w(f).box) \in Nat
      BY <3>1, ExchangeTypes DEF Continues
    <3>6. Waiters(w(f).box) < n
      BY <1>w, <3>1, <3>5, LessFacts
    <3> QED BY <3>3, <3>4, <3>5, <3>6 DEF Alike
  <2> QED BY <2>1, <2>2
<1>2. Kernel_Mailbox_Send_From_Queue(x, f) = Kernel_Mailbox_Send_From_Queue(x, g)
  <2> DEFINE q == x.box.send_queue
             p == Head(q)
             y == [x EXCEPT !.box.send_queue = Tail(q)]
             w(serve) == Woken(Store(y, p, serve), p)
  <2>1. CASE ~(q # <<>> /\ ~IsFull(x.box) /\ x.pd[p].state = "WAIT_MAILBOX")
    BY <2>1, SendLoops DEF SendLoop
  <2>2. CASE q # <<>> /\ ~IsFull(x.box) /\ x.pd[p].state = "WAIT_MAILBOX"
    <3>1. /\ ExchangeOK(y) /\ p \in DOMAIN y.pd /\ ~IsFull(y.box)
          /\ Continues(x, w(f))
          /\ Waiters(w(f).box) <= Waiters(x.box) - 1
          /\ Waiters(y.box) = Waiters(x.box) - 1
      BY <2>2, SenderServed
    <3>2. Waiters(y.box) < n
      BY <1>w, <3>1, LessFacts
    <3>3. w(f) = w(g)
      <4> HIDE DEF y, p
      <4> QED BY <3>1, <3>2, StoreAlike
    <3>4. /\ Kernel_Mailbox_Send_From_Queue(x, f) = f.send[w(f)]
          /\ Kernel_Mailbox_Send_From_Queue(x, g) = g.send[w(g)]
      BY <2>2, SendLoops DEF SendLoop
    <3> HIDE DEF w
    <3>5. ExchangeOK(w(f)) /\ Waiters(w(f).box) \in Nat
      BY <3>1, ExchangeTypes DEF Continues
    <3>6. Waiters(w(f).box) < n
      BY <1>w, <3>1, <3>5, LessFacts
    <3> QED BY <3>3, <3>4, <3>5, <3>6 DEF Alike
  <2> QED BY <2>1, <2>2
<1> QED BY <1>1, <1>2

\* So from a depth of more than the number of tasks that wait, it makes no
\* difference how deep the calls may be nested.
LEMMA EnoughDepth ==
    ASSUME NEW n \in Nat, NEW m \in Nat, n <= m
    PROVE  Alike(n, Serve[n], Serve[m])
<1> DEFINE Enough(k) == \A j \in Nat : k <= j => Alike(k, Serve[k], Serve[j])
           T == {k \in Nat : ~Enough(k)}
<1>1. Enough(0)
  <2> SUFFICES ASSUME NEW x, ExchangeOK(x), Waiters(x.box) < 0 PROVE FALSE
    BY DEF Alike
  <2>1. Waiters(x.box) \in Nat
    BY ExchangeTypes
  <2> QED BY <2>1
<1>2. ASSUME NEW k \in Nat, Enough(k) PROVE Enough(k + 1)
  <2> SUFFICES ASSUME NEW j \in Nat, k + 1 <= j, NEW x, ExchangeOK(x), Waiters(x.box) < k + 1
               PROVE  /\ Serve[k + 1].recv[x] = Serve[j].recv[x]
                      /\ Serve[k + 1].send[x] = Serve[j].send[x]
    BY DEF Alike
  <2>1. j - 1 \in Nat /\ k <= j - 1 /\ (j - 1) + 1 = j
    OBVIOUS
  <2>2. Alike(k, Serve[k], Serve[j - 1]) /\ Sound(Serve[k])
    BY <1>2, <2>1, ServeSound
  <2>3. x \in Exchanges
    BY DEF ExchangeOK
  <2>4. /\ Serve[k + 1].recv[x] = Kernel_Mailbox_Recv_From_Queue(x, Serve[k])
        /\ Serve[k + 1].send[x] = Kernel_Mailbox_Send_From_Queue(x, Serve[k])
    BY <2>3, ServeFacts
  <2>5. /\ Serve[(j - 1) + 1].recv[x] = Kernel_Mailbox_Recv_From_Queue(x, Serve[j - 1])
        /\ Serve[(j - 1) + 1].send[x] = Kernel_Mailbox_Send_From_Queue(x, Serve[j - 1])
    BY <2>1, <2>3, ServeFacts
  <2>6. /\ Serve[j].recv[x] = Kernel_Mailbox_Recv_From_Queue(x, Serve[j - 1])
        /\ Serve[j].send[x] = Kernel_Mailbox_Send_From_Queue(x, Serve[j - 1])
    BY <2>1, <2>5
  <2>7. /\ Kernel_Mailbox_Recv_From_Queue(x, Serve[k]) = Kernel_Mailbox_Recv_From_Queue(x, Serve[j - 1])
        /\ Kernel_Mailbox_Send_From_Queue(x, Serve[k]) = Kernel_Mailbox_Send_From_Queue(x, Serve[j - 1])
    BY <2>2, LoopsAlike
  <2> QED BY <2>4, <2>6, <2>7
<1> HIDE DEF Enough
<1>3. CASE T = {}
  <2>1. Enough(n)
    BY <1>3
  <2> QED BY <2>1 DEF Enough
<1>4. CASE T # {}
  <2>1. PICK k \in T : \A l \in T : k <= l
    <3>1. T \subseteq Nat
      OBVIOUS
    <3> HIDE DEF T
    <3> QED BY <1>4, <3>1, LeastElement
  <2>2. k \in Nat /\ k # 0 /\ ~Enough(k)
    BY <1>1, <2>1
  <2>3. k - 1 \in Nat /\ ~(k <= k - 1) /\ (k - 1) + 1 = k
    BY <2>2
  <2>4. Enough(k - 1)
    BY <2>1, <2>3
  <2>5. Enough((k - 1) + 1)
    BY <1>2, <2>3, <2>4
  <2> QED BY <2>2, <2>3, <2>5
<1> QED BY <1>3, <1>4

LEMMA ServeAllFacts ==
    ASSUME NEW n \in Nat
    PROVE  Alike(n, Serve[n], ServeAll)
<1> SUFFICES ASSUME NEW x, ExchangeOK(x), Waiters(x.box) < n
             PROVE  Serve[n].recv[x] = ServeAll.recv[x] /\ Serve[n].send[x] = ServeAll.send[x]
  BY DEF Alike
<1>1. Waiters(x.box) \in Nat /\ x \in Exchanges
  BY ExchangeTypes DEF ExchangeOK
<1> DEFINE m == Waiters(x.box) + 1
<1>2. m \in Nat /\ m <= n /\ Waiters(x.box) < m
  BY <1>1
<1>3. ServeAll.recv[x] = Serve[m].recv[x] /\ ServeAll.send[x] = Serve[m].send[x]
  BY <1>1 DEF ServeAll
<1> HIDE DEF m
<1>4. Alike(m, Serve[m], Serve[n])
  BY <1>2, EnoughDepth
<1> QED BY <1>2, <1>3, <1>4 DEF Alike

\* What the two functions of mailbox.c do with the calls that wait is what
\* their text says, with each of them calling the other and itself without a
\* limit: no depth is too little for the tasks that wait.
THEOREM ServeIsRecursive ==
    ASSUME NEW x, ExchangeOK(x)
    PROVE  /\ ServeAll.recv[x] = Kernel_Mailbox_Recv_From_Queue(x, ServeAll)
           /\ ServeAll.send[x] = Kernel_Mailbox_Send_From_Queue(x, ServeAll)
<1> DEFINE n == Waiters(x.box)
<1>1. n \in Nat /\ n < n + 1 /\ n + 1 \in Nat /\ x \in Exchanges
  BY ExchangeTypes DEF ExchangeOK
<1> HIDE DEF n
<1>2. Waiters(x.box) < n + 1
  BY <1>1 DEF n
<1>3. Alike(n, Serve[n], ServeAll) /\ Alike(n + 1, Serve[n + 1], ServeAll) /\ Sound(Serve[n])
  BY <1>1, ServeAllFacts, ServeSound
<1>4. Serve[n + 1].recv[x] = ServeAll.recv[x] /\ Serve[n + 1].send[x] = ServeAll.send[x]
  BY <1>2, <1>3 DEF Alike
<1>5. /\ Serve[n + 1].recv[x] = Kernel_Mailbox_Recv_From_Queue(x, Serve[n])
      /\ Serve[n + 1].send[x] = Kernel_Mailbox_Send_From_Queue(x, Serve[n])
  BY <1>1, ServeFacts
<1> QED BY <1>1, <1>2, <1>3, <1>4, <1>5, LoopsAlike

LEMMA ServeAllSound == Sound(ServeAll)
<1> SUFFICES ASSUME NEW x, ExchangeOK(x)
             PROVE  Continues(x, ServeAll.recv[x]) /\ Continues(x, ServeAll.send[x])
  BY DEF Sound
<1> DEFINE n == Waiters(x.box) + 1
<1>1. x \in Exchanges /\ Waiters(x.box) \in Nat /\ n \in Nat
  BY ExchangeTypes DEF ExchangeOK
<1>2. ServeAll.recv[x] = Serve[n].recv[x] /\ ServeAll.send[x] = Serve[n].send[x]
  BY <1>1 DEF ServeAll
<1> HIDE DEF n
<1> QED BY <1>1, <1>2, ServeSound DEF Sound

-----------------------------------------------------------------------------
(* What a step can be.                                                     *)

\* The process table a call works on: a blocking one has set the caller's timer.
Prepared(pd) == pd = PD \/ (Running /\ \E t \in Timeouts : pd = Armed(t))

Call == Running /\ UNCHANGED <<ProcessList, MailboxList>>

Refused ==
    /\ mode \in {"boot", "task"} /\ UNCHANGED <<ProcessList, mailboxVars>>
    /\ \E error \in Errors : \E pd : Prepared(pd) /\ Return(error, pd)

Stopped ==
    /\ mode' = "halted" /\ err' \in Errors
    /\ UNCHANGED <<PD, ProcessList, sched, mailboxVars>>

Created(capacity) ==
    /\ mode \in {"boot", "task"} /\ UNCHANGED <<ProcessList, request, received>>
    /\ \E error \in Errors : Return(error, PD)
    /\ mailbox' = Append(mailbox, NewMailbox(capacity))
    /\ MailboxList' = Append(MailboxList, Last_MailboxID + 1)
    /\ Last_MailboxID < MaxMailboxID

Destroyed(mb) ==
    /\ Running /\ UNCHANGED <<ProcessList, request, received>>
    /\ Return("NO_ERR", PD)
    /\ \E i \in DOMAIN MailboxList : MailboxList' = RemoveAt(MailboxList, i)
    /\ mailbox' = [mailbox EXCEPT ![mb] = NewMailbox(mailbox[mb].capacity)]

Dropped ==
    /\ Call /\ UNCHANGED <<mailbox, request>>
    /\ received' = [received EXCEPT ![Current_Process] = "NULL"]
    /\ Return("NO_ERR", PD)

Stored(mb, msg, pd, noRoom) ==
    /\ Call
    /\ ~IsFull(mailbox[mb])
    /\ Finish(mb, Store(Exchange(mb, msg, pd, noRoom), Current_Process, ServeAll))

Fetched(mb, pd, noRoom) ==
    /\ Call
    /\ mailbox[mb].mails # <<>>
    /\ Finish(mb, Fetch(Exchange(mb, "MAIL", pd, noRoom), Current_Process, ServeAll))

Missed(mb, pd) ==
    /\ Call
    /\ mailbox[mb].mails = <<>>
    /\ Finish(mb, [Exchange(mb, "MAIL", pd, {}) EXCEPT !.received[Current_Process] = "NULL"])

SendBlocked(mb, msg, pd) ==
    Call /\ IsFull(mailbox[mb]) /\ Block(mb, "send_queue", msg, pd)

RecvBlocked(mb, pd) ==
    Call /\ mailbox[mb].mails = <<>> /\ Block(mb, "recv_queue", "MAIL", pd)

Outcome ==
    \/ [Next]_vars /\ UNCHANGED mailboxVars
    \/ Refused
    \/ Stopped
    \/ \E capacity \in Capacities : Created(capacity)
    \/ Dropped
    \/ \E mb \in ToSet(MailboxList) :
          \/ Destroyed(mb)
          \/ \E pd : /\ Prepared(pd)
                     /\ \/ \E msg \in Messages : SendBlocked(mb, msg, pd)
                        \/ RecvBlocked(mb, pd)
                        \/ Missed(mb, pd)
                        \/ \E noRoom \in Shortages(mb) :
                              \/ Fetched(mb, pd, noRoom)
                              \/ \E msg \in Messages : Stored(mb, msg, pd, noRoom)

LEMMA SendOutcome ==
    ASSUME err \in Errors, NEW mb, NEW msg \in Messages, NEW blocking \in BOOLEAN, NEW pd,
           Prepared(pd), Kernel_Mailbox_Send(mb, msg, blocking, pd)
    PROVE  Outcome
<1>0. /\ Call /\ mode \in {"boot", "task"}
      /\ "NO_ERR" \in Errors /\ "OBJECT_NOT_FOUND_ERR" \in Errors
  BY DEF Kernel_Mailbox_Send, Call, Running, Errors
<1>1. ASSUME NEW error \in Errors, Fail(error, pd) PROVE Refused
  BY <1>0, <1>1 DEF Fail, Refused, Call, mailboxVars
<1>2. CASE ~Exists(mb) /\ Fail("OBJECT_NOT_FOUND_ERR", pd)
  BY <1>0, <1>1, <1>2 DEF Outcome
<1>3. CASE Exists(mb) /\ IsFull(mailbox[mb]) /\ Fail("NO_ERR", pd)
  BY <1>0, <1>1, <1>3 DEF Outcome
<1>4. CASE Exists(mb) /\ IsFull(mailbox[mb]) /\ Block(mb, "send_queue", msg, pd)
  BY <1>0, <1>4 DEF Outcome, Exists, SendBlocked
<1>5. CASE /\ Exists(mb) /\ ~IsFull(mailbox[mb])
           /\ \E noRoom \in Shortages(mb) :
                 Finish(mb, Store(Exchange(mb, msg, pd, noRoom), Current_Process, ServeAll))
  BY <1>0, <1>5 DEF Outcome, Exists, Stored
<1>6. CASE WriteThroughNull /\ UNCHANGED <<mailbox, request, received>>
  <2>1. Stopped
    BY <1>0, <1>6 DEF WriteThroughNull, Stopped, Call, mailboxVars
  <2> QED BY <2>1 DEF Outcome
<1> QED BY <1>2, <1>3, <1>4, <1>5, <1>6 DEF Kernel_Mailbox_Send

LEMMA RecvOutcome ==
    ASSUME err \in Errors, NEW mb, NEW blocking \in BOOLEAN, NEW pd,
           Prepared(pd), Kernel_Mailbox_Recv(mb, blocking, pd)
    PROVE  Outcome
<1>0. /\ Call /\ mode \in {"boot", "task"} /\ "OBJECT_NOT_FOUND_ERR" \in Errors
  BY DEF Kernel_Mailbox_Recv, Call, Running, Errors
<1>1. CASE ~Exists(mb) /\ Fail("OBJECT_NOT_FOUND_ERR", pd)
  <2>1. Refused
    BY <1>0, <1>1 DEF Fail, Refused, Call, mailboxVars
  <2> QED BY <2>1 DEF Outcome
<1>2. CASE Exists(mb) /\ mailbox[mb].mails = <<>> /\ Block(mb, "recv_queue", "MAIL", pd)
  BY <1>0, <1>2 DEF Outcome, Exists, RecvBlocked
<1>3. CASE /\ Exists(mb) /\ mailbox[mb].mails = <<>>
           /\ Finish(mb, [Exchange(mb, "MAIL", pd, {}) EXCEPT !.received[Current_Process] = "NULL"])
  BY <1>0, <1>3 DEF Outcome, Exists, Missed
<1>4. CASE /\ Exists(mb) /\ mailbox[mb].mails # <<>>
           /\ \E noRoom \in Shortages(mb) :
                 Finish(mb, Fetch(Exchange(mb, "MAIL", pd, noRoom), Current_Process, ServeAll))
  BY <1>0, <1>4 DEF Outcome, Exists, Fetched
<1>5. CASE WriteThroughNull /\ UNCHANGED <<mailbox, request, received>>
  <2>1. Stopped
    BY <1>0, <1>5 DEF WriteThroughNull, Stopped, Call, mailboxVars
  <2> QED BY <2>1 DEF Outcome
<1> QED BY <1>1, <1>2, <1>3, <1>4, <1>5 DEF Kernel_Mailbox_Recv

LEMMA CreateOutcome ==
    ASSUME err \in Errors, mode \in {"boot", "task"}, NEW capacity \in Capacities,
           NEW noErr \in Errors, Kernel_Create_Mailbox_Direct(capacity, noErr)
    PROVE  Outcome
<1>1. CASE Return("MAX_OBJECT_ERR", PD) /\ UNCHANGED <<ProcessList, MailboxList, mailbox>>
  <2>1. Refused
    BY <1>1 DEF Kernel_Create_Mailbox_Direct, Refused, Prepared, mailboxVars, Errors
  <2> QED BY <2>1 DEF Outcome
<1>2. CASE WriteThroughNull /\ UNCHANGED <<MailboxList, mailbox>>
  <2>1. Stopped
    BY <1>2 DEF Kernel_Create_Mailbox_Direct, WriteThroughNull, Stopped, mailboxVars
  <2> QED BY <2>1 DEF Outcome
<1>3. CASE /\ Last_MailboxID < MaxMailboxID
           /\ Return(noErr, PD)
           /\ mailbox' = Append(mailbox, NewMailbox(capacity))
           /\ MailboxList' = Append(MailboxList, Last_MailboxID + 1)
           /\ UNCHANGED ProcessList
  BY <1>3 DEF Kernel_Create_Mailbox_Direct, Created, Outcome
<1> QED BY <1>1, <1>2, <1>3 DEF Kernel_Create_Mailbox_Direct

LEMMA OtherOutcome ==
    ASSUME err \in Errors, NEW mb, Mailbox_Destroy(mb) \/ Mailbox_Destroy_Mail \/ Mailbox_Check(mb)
    PROVE  Outcome
<1>1. CASE Mailbox_Destroy(mb)
  <2>1. CASE Return("OBJECT_NOT_FOUND_ERR", PD) /\ UNCHANGED <<MailboxList, mailbox>>
    <3>1. Refused
      BY <1>1, <2>1 DEF Mailbox_Destroy, Running, Refused, Prepared, mailboxVars, Errors
    <3> QED BY <3>1 DEF Outcome
  <2>2. CASE /\ Exists(mb) /\ Return("NO_ERR", PD)
             /\ \E i \in DOMAIN MailboxList : MailboxList[i] = mb /\ MailboxList' = RemoveAt(MailboxList, i)
             /\ mailbox' = [mailbox EXCEPT ![mb] = NewMailbox(mailbox[mb].capacity)]
    <3>1. Destroyed(mb) /\ mb \in ToSet(MailboxList)
      BY <1>1, <2>2 DEF Mailbox_Destroy, Destroyed, Exists
    <3> QED BY <3>1 DEF Outcome
  <2>3. CASE err' = "NO_ERR" /\ mode' = "halted" /\ UNCHANGED <<PD, sched, MailboxList, mailbox>>
    <3>1. Stopped
      BY <1>1, <2>3 DEF Mailbox_Destroy, Stopped, mailboxVars, Errors
    <3> QED BY <3>1 DEF Outcome
  <2> QED BY <1>1, <2>1, <2>2, <2>3 DEF Mailbox_Destroy
<1>2. CASE Mailbox_Destroy_Mail
  <2>1. Dropped \/ Stopped
    BY <1>2 DEF Mailbox_Destroy_Mail, Dropped, Call, Stopped, mailboxVars, Errors
  <2> QED BY <2>1 DEF Outcome
<1>3. CASE Mailbox_Check(mb)
  <2>1. Refused
    BY <1>3 DEF Mailbox_Check, Running, Refused, Prepared, Errors
  <2> QED BY <2>1 DEF Outcome
<1> QED BY <1>1, <1>2, <1>3

LEMMA StepOutcome ==
    ASSUME err \in Errors, [MailboxNext]_allVars
    PROVE  Outcome
<1>1. CASE (Next /\ UNCHANGED mailboxVars) \/ UNCHANGED allVars
  BY <1>1 DEF Outcome, allVars
<1>2. ASSUME NEW capacity \in Capacities, Mailbox_Create(capacity) PROVE Outcome
  BY <1>2, CreateOutcome DEF Mailbox_Create, Running, Errors
<1>3. ASSUME NEW mb, Mailbox_Destroy(mb) \/ Mailbox_Destroy_Mail \/ Mailbox_Check(mb) PROVE Outcome
  BY <1>3, OtherOutcome
<1>4. ASSUME NEW mb, Mailbox_Recv(mb) PROVE Outcome
  BY <1>4, RecvOutcome DEF Mailbox_Recv, Prepared
<1>5. ASSUME NEW mb, NEW t \in Timeouts, Mailbox_Recv_Blocking(mb, t) PROVE Outcome
  BY <1>5, RecvOutcome DEF Mailbox_Recv_Blocking, Prepared
<1>6. ASSUME NEW mb, NEW msg \in Messages, Mailbox_Send(mb, msg) PROVE Outcome
  BY <1>6, SendOutcome DEF Mailbox_Send, Prepared
<1>7. ASSUME NEW mb, NEW msg \in Messages, NEW t \in Timeouts, Mailbox_Send_Blocking(mb, msg, t)
      PROVE  Outcome
  BY <1>7, SendOutcome DEF Mailbox_Send_Blocking, Prepared
<1>8. ASSUME MailboxCall PROVE Outcome
  BY <1>8, <1>2, <1>3, <1>4, <1>5, <1>6, <1>7 DEF MailboxCall
<1> QED BY <1>1, <1>8 DEF MailboxNext

-----------------------------------------------------------------------------
(* The types.                                                              *)

BoxesOK ==
    /\ MailboxList \in Seq(DOMAIN mailbox)
    /\ mailbox \in Seq(MailboxType)
    /\ Len(mailbox) <= MaxMailboxID
    /\ \A mb \in DOMAIN mailbox : BoxOK(mailbox[mb], DOMAIN PD)

ArgumentsOK ==
    /\ request \in [1..MaxPid -> Contents \cup {"NULL", "MAIL"}]
    /\ received \in [1..MaxPid -> Contents \cup {"NULL"}]

MailboxInv == Inv /\ BoxesOK /\ ArgumentsOK

LEMMA MailboxInvImplies == MailboxInv => MailboxTypeOK
  BY InvImplies DEF MailboxInv, BoxesOK, BoxOK, ArgumentsOK, MailboxTypeOK

\* More processes do not harm a mailbox.
LEMMA BoxesKept ==
    ASSUME BoxesOK, UNCHANGED <<MailboxList, mailbox>>, DOMAIN PD \subseteq DOMAIN PD'
    PROVE  BoxesOK'
  BY DEF BoxesOK, BoxOK

\* A mailbox on the list is one of the mailboxes.
LEMMA ListedBox ==
    ASSUME MailboxInv, NEW mb \in ToSet(MailboxList)
    PROVE  /\ mb \in DOMAIN mailbox /\ mailbox[mb] \in MailboxType
           /\ BoxOK(mailbox[mb], DOMAIN PD)
<1>1. MailboxList \in Seq(DOMAIN mailbox) /\ mailbox \in Seq(MailboxType)
  BY DEF MailboxInv, BoxesOK
<1>2. mb \in DOMAIN mailbox
  BY <1>1, ElementOfSeq, LenProperties DEF ToSet
<1> QED BY <1>1, <1>2, ElementOfSeq, LenProperties DEF MailboxInv, BoxesOK

\* Setting the caller's timer changes nothing else.
LEMMA PreparedFacts ==
    ASSUME MailboxInv, Running, NEW pd, Prepared(pd)
    PROVE  /\ Table(pd, ProcessList) /\ OnlyCurrentRuns(pd) /\ pd \in Seq(Process)
           /\ DOMAIN pd = DOMAIN PD /\ Len(pd) = Len(PD)
           /\ \A p \in DOMAIN PD : p # Current_Process => pd[p] = PD[p]
           /\ pd[Current_Process].state = PD[Current_Process].state
           /\ pd[Current_Process].last_state = PD[Current_Process].last_state
           /\ pd = PD \/ pd[Current_Process].request_timeout \in Timeouts
<1> DEFINE c == Current_Process
<1>0. Inv
  BY DEF MailboxInv
<1>1. /\ c \in DOMAIN PD /\ PD[c] \in Process /\ PD[c].state # "DEAD"
      /\ PD[c].state = "SUSPENDED" => PD[c].last_state \in {"READY", "SLEEPING"}
  BY <1>0, CallFacts, ElementOfSeq DEF Table
<1>2. CASE pd = PD
  BY <1>0, <1>2, CallFacts DEF Table
<1>3. CASE \E t \in Timeouts : pd = Armed(t)
  <2>1. PICK t \in Timeouts : pd = Armed(t)
    BY <1>3
  <2> DEFINE q == [PD[c] EXCEPT !.request_timeout = t]
  <2>2. /\ q \in Process /\ q.state = PD[c].state
        /\ q.last_state = PD[c].last_state /\ q.request_timeout = t
    BY <1>1, MailboxAssumption DEF Process
  <2>3. pd = [PD EXCEPT ![c] = q]
    BY <2>1 DEF Armed
  <2> HIDE DEF q
  <2>4. Table(pd, ProcessList) /\ DOMAIN pd = DOMAIN PD /\ Len(pd) = Len(PD)
    BY <1>0, <1>1, <2>2, <2>3, CallFacts, UpdateKeepsTable
  <2>5. \A p \in DOMAIN PD : pd[p] = IF p = c THEN q ELSE PD[p]
    BY <2>3
  <2>6. OnlyCurrentRuns(pd)
    BY <1>0, <1>1, <2>2, <2>4, <2>5 DEF Inv, OnlyCurrentRuns
  <2> QED BY <1>1, <2>2, <2>4, <2>5, <2>6 DEF Table
<1> QED BY <1>2, <1>3 DEF Prepared

\* What a call starts with.
LEMMA ExchangeStarts ==
    ASSUME MailboxInv, Running, NEW pd, Prepared(pd), NEW mb \in ToSet(MailboxList),
           NEW arg \in Messages \cup {"MAIL"}, NEW noRoom \in Shortages(mb)
    PROVE  LET x == Exchange(mb, arg, pd, noRoom)
           IN /\ ExchangeOK(x) /\ Current_Process \in DOMAIN x.pd /\ Current_Process \in 1..MaxPid
              /\ x.box = mailbox[mb] /\ x.pd = pd /\ x.noRoom = noRoom
              /\ x.received = received /\ x.error = "NO_ERR"
              /\ x.request = [request EXCEPT ![Current_Process] = arg]
<1> DEFINE c == Current_Process
           x == Exchange(mb, arg, pd, noRoom)
<1>1. /\ x.box = mailbox[mb] /\ x.pd = pd /\ x.noRoom = noRoom
      /\ x.received = received /\ x.error = "NO_ERR"
      /\ x.request = [request EXCEPT ![c] = arg]
  BY DEF Exchange
<1>2. /\ pd \in Seq(Process) /\ DOMAIN pd = DOMAIN PD /\ Len(pd) = Len(PD)
      /\ c \in DOMAIN PD /\ Len(PD) \in Nat /\ DOMAIN PD = 1..Len(PD) /\ Len(PD) <= MaxPid
  BY PreparedFacts, CallFacts DEF MailboxInv
<1>3. c \in 1..MaxPid /\ c \in Nat
  BY <1>2, EnvironmentAssumption
<1>4. mailbox[mb] \in MailboxType /\ BoxOK(mailbox[mb], DOMAIN PD)
  BY ListedBox
<1>5. noRoom \in SUBSET Nat
  BY <1>3, <1>4 DEF Shortages, BoxOK, Waits, MailboxType, ToSet
<1>6. x \in Exchanges
  <2>1. x.request \in [1..MaxPid -> Contents \cup {"NULL", "MAIL"}]
    BY <1>1 DEF MailboxInv, ArgumentsOK, Contents
  <2> QED BY <1>1, <1>2, <1>4, <1>5, <2>1 DEF Exchange, Exchanges, MailboxInv, ArgumentsOK, Errors
<1> HIDE DEF x
<1> QED BY <1>1, <1>2, <1>3, <1>4, <1>6 DEF ExchangeOK, x

\* A call that returns once it has made waiting tasks go on.
LEMMA WakesKeepsInv ==
    ASSUME MailboxInv, Running, UNCHANGED ProcessList, NEW pd, Prepared(pd),
           NEW f \in Seq(Process), Wakes(pd, f), NEW error \in Errors, Return(error, f)
    PROVE  Inv' /\ DOMAIN PD' = DOMAIN PD
<1>0. /\ Inv /\ Table(pd, ProcessList) /\ OnlyCurrentRuns(pd)
      /\ DOMAIN pd = DOMAIN PD /\ Len(pd) = Len(PD) /\ pd \in Seq(Process)
      /\ pd[Current_Process].state = PD[Current_Process].state
      /\ Current_Process \in DOMAIN PD
  BY PreparedFacts, CallFacts DEF MailboxInv
<1>1. f = [p \in DOMAIN pd |-> f[p]]
  BY LenProperties DEF Wakes
<1>2. ASSUME NEW p \in DOMAIN pd
      PROVE  /\ f[p] \in Process
             /\ f[p].state = "DEAD" <=> pd[p].state = "DEAD"
             /\ f[p].state = "SUSPENDED" => f[p].last_state \in {"READY", "SLEEPING"}
             /\ f[p].state = "RUNNING" => p = Current_Process
             /\ pd[p].state = "RUNNING" => f[p] = pd[p]
  <2>1. pd[p] \in Process
    BY <1>0, ElementOfSeq, LenProperties
  <2>2. CASE pd[p].state = "WAIT_MAILBOX" /\ f[p] = [pd[p] EXCEPT !.state = "READY"]
    BY <2>1, <2>2 DEF Process, States
  <2>3. CASE f[p] = pd[p]
    BY <1>0, <2>1, <2>3 DEF Table, OnlyCurrentRuns
  <2> QED BY <2>2, <2>3 DEF Wakes
<1>3. Table(f, ProcessList) /\ DOMAIN f = DOMAIN PD /\ Len(f) = Len(PD)
  BY <1>0, <1>1, <1>2, TableKept
<1>4. OnlyCurrentRuns(f)
  BY <1>0, <1>2, <1>3 DEF OnlyCurrentRuns
<1>5. CallerRuns => (~SelfSuspend /\ mode = "task" => f[Current_Process].state = "RUNNING")
  BY <1>0, <1>2 DEF CallerRuns, CurrentIsRunning
<1>6. Inv'
  BY <1>0, <1>3, <1>4, <1>5, CallFacts, ReturnKeepsInv
<1> QED BY <1>3, <1>6 DEF Return

\* One mailbox is replaced.
LEMMA BoxReplaced ==
    ASSUME MailboxInv, NEW mb \in ToSet(MailboxList), NEW box, BoxOK(box, DOMAIN PD),
           mailbox' = [mailbox EXCEPT ![mb] = box]
    PROVE  /\ mailbox' \in Seq(MailboxType) /\ Len(mailbox') = Len(mailbox)
           /\ DOMAIN mailbox' = DOMAIN mailbox
           /\ mailbox'[mb] = box
           /\ \A m \in DOMAIN mailbox : m # mb => mailbox'[m] = mailbox[m]
           /\ \A m \in DOMAIN mailbox' : BoxOK(mailbox'[m], DOMAIN PD)
<1>1. mailbox \in Seq(MailboxType) /\ mb \in DOMAIN mailbox /\ box \in MailboxType
  BY ListedBox DEF MailboxInv, BoxesOK, BoxOK
<1>2. /\ mailbox' \in Seq(MailboxType) /\ Len(mailbox') = Len(mailbox)
      /\ DOMAIN mailbox' = DOMAIN mailbox
  BY <1>1, ExceptSeq, LenProperties
<1>3. \A m \in DOMAIN mailbox : mailbox'[m] = IF m = mb THEN box ELSE mailbox[m]
  BY <1>1
<1> QED BY <1>1, <1>2, <1>3 DEF MailboxInv, BoxesOK

\* The end of a call that returns.
LEMMA FinishKeeps ==
    ASSUME MailboxInv, Call, NEW pd, Prepared(pd), NEW mb \in ToSet(MailboxList),
           NEW x, ExchangeOK(x), x.pd = pd, NEW y, Continues(x, y), Finish(mb, y)
    PROVE  MailboxInv' /\ DOMAIN PD' = DOMAIN PD
<1>1. /\ ExchangeOK(y) /\ Wakes(pd, y.pd) /\ y \in Exchanges
      /\ y.pd \in Seq(Process) /\ y.error \in Errors
  BY DEF Continues, ExchangeOK, Exchanges
<1>2. Inv' /\ DOMAIN PD' = DOMAIN PD
  BY <1>1, WakesKeepsInv DEF Call, Finish
<1>3. ArgumentsOK'
  BY <1>1 DEF Finish, ArgumentsOK, Exchanges
<1>4. BoxOK(y.box, DOMAIN PD)
  <2>1. DOMAIN y.pd = DOMAIN PD
    BY <1>1, PreparedFacts DEF Wakes, Call
  <2> QED BY <1>1, <2>1 DEF ExchangeOK
<1>5. /\ mailbox' \in Seq(MailboxType) /\ Len(mailbox') = Len(mailbox)
      /\ DOMAIN mailbox' = DOMAIN mailbox
      /\ \A m \in DOMAIN mailbox' : BoxOK(mailbox'[m], DOMAIN PD)
  BY <1>4, BoxReplaced DEF Finish
<1>6. BoxesOK'
  BY <1>2, <1>5 DEF BoxesOK, MailboxInv, Call
<1> QED BY <1>2, <1>3, <1>6 DEF MailboxInv

LEMMA StoredKeeps ==
    ASSUME MailboxInv, NEW pd, Prepared(pd), NEW mb \in ToSet(MailboxList),
           NEW noRoom \in Shortages(mb), NEW msg \in Messages, Stored(mb, msg, pd, noRoom)
    PROVE  MailboxInv' /\ DOMAIN PD' = DOMAIN PD
<1> DEFINE x == Exchange(mb, msg, pd, noRoom)
<1>0. Running /\ msg \in Messages \cup {"MAIL"} /\ noRoom \in Shortages(mb)
  BY DEF Stored, Call
<1>1. ExchangeOK(x) /\ Current_Process \in DOMAIN x.pd /\ x.box = mailbox[mb] /\ x.pd = pd
  <2>1. ExchangeOK(x)
    BY <1>0, ExchangeStarts
  <2>2. x.pd = pd /\ x.box = mailbox[mb]
    BY DEF Exchange
  <2>3. Current_Process \in DOMAIN pd
    BY <1>0, PreparedFacts, CallFacts DEF MailboxInv
  <2> QED BY <2>1, <2>2, <2>3
<1>2. ~IsFull(x.box) /\ Finish(mb, Store(x, Current_Process, ServeAll)) /\ Call
  BY <1>1 DEF Stored
<1> HIDE DEF x
<1>3. Continues(x, Store(x, Current_Process, ServeAll))
  BY <1>1, <1>2, ServeAllSound, StoreContinues
<1> QED BY <1>1, <1>2, <1>3, FinishKeeps

LEMMA FetchedKeeps ==
    ASSUME MailboxInv, NEW pd, Prepared(pd), NEW mb \in ToSet(MailboxList),
           NEW noRoom \in Shortages(mb), Fetched(mb, pd, noRoom)
    PROVE  MailboxInv' /\ DOMAIN PD' = DOMAIN PD
<1> DEFINE x == Exchange(mb, "MAIL", pd, noRoom)
<1>0. Running /\ "MAIL" \in Messages \cup {"MAIL"} /\ noRoom \in Shortages(mb)
  BY DEF Fetched, Call
<1>1. ExchangeOK(x) /\ Current_Process \in DOMAIN x.pd /\ x.box = mailbox[mb] /\ x.pd = pd
  <2>1. ExchangeOK(x)
    BY <1>0, ExchangeStarts
  <2>2. x.pd = pd /\ x.box = mailbox[mb]
    BY DEF Exchange
  <2>3. Current_Process \in DOMAIN pd
    BY <1>0, PreparedFacts, CallFacts DEF MailboxInv
  <2> QED BY <2>1, <2>2, <2>3
<1>2. x.box.mails # <<>> /\ Finish(mb, Fetch(x, Current_Process, ServeAll)) /\ Call
  BY <1>1 DEF Fetched
<1> HIDE DEF x
<1>3. Continues(x, Fetch(x, Current_Process, ServeAll))
  BY <1>1, <1>2, ServeAllSound, FetchContinues
<1> QED BY <1>1, <1>2, <1>3, FinishKeeps

\* A receive that finds nothing and does not wait.
LEMMA MissedEffect ==
    ASSUME MailboxInv, NEW pd, Prepared(pd), NEW mb \in ToSet(MailboxList), Missed(mb, pd)
    PROVE  /\ MailboxInv' /\ DOMAIN PD' = DOMAIN PD
           /\ PD' = pd /\ UNCHANGED mailbox
           /\ request' = [request EXCEPT ![Current_Process] = "NULL"]
           /\ received' = [received EXCEPT ![Current_Process] = "NULL"]
<1> DEFINE c == Current_Process
           x == Exchange(mb, "MAIL", pd, {})
           y == [x EXCEPT !.received[c] = "NULL"]
<1>1. {} \in Shortages(mb)
  BY DEF Shortages
<1>2. /\ ExchangeOK(x) /\ c \in 1..MaxPid
      /\ x.box = mailbox[mb] /\ x.pd = pd /\ x.received = received
      /\ x.request = [request EXCEPT ![c] = "MAIL"]
  BY <1>1, ExchangeStarts DEF Missed, Call
<1>3. Finish(mb, y) /\ Call
  BY DEF Missed
<1> HIDE DEF x
<1>4. /\ y.box = x.box /\ y.pd = x.pd /\ y.noRoom = x.noRoom /\ y.request = x.request
      /\ y.received = [x.received EXCEPT ![c] = "NULL"] /\ y \in Exchanges
  BY <1>2 DEF ExchangeOK, Exchanges
<1> HIDE DEF y
<1>5. Continues(x, y)
  <2>1. Waiters(x.box) \in Nat
    BY <1>2, ExchangeTypes
  <2>2. Waiters(y.box) <= Waiters(x.box)
    BY <1>4, <2>1
  <2> QED BY <1>2, <1>4, <2>2 DEF Continues, ExchangeOK, Wakes
<1>6. MailboxInv' /\ DOMAIN PD' = DOMAIN PD
  BY <1>2, <1>3, <1>5, FinishKeeps
<1>7. mailbox' = mailbox
  <2>1. mailbox' = [mailbox EXCEPT ![mb] = mailbox[mb]]
    BY <1>2, <1>3, <1>4 DEF Finish
  <2>2. mailbox \in Seq(MailboxType) /\ mb \in DOMAIN mailbox
    BY ListedBox DEF MailboxInv, BoxesOK
  <2> QED BY <2>1, <2>2, LenProperties
<1>8. request' = [request EXCEPT ![c] = "NULL"]
  BY <1>2, <1>3, <1>4 DEF Finish, MailboxInv, ArgumentsOK
<1> QED BY <1>2, <1>3, <1>4, <1>6, <1>7, <1>8 DEF Finish, Return

\* One more in a queue.
LEMMA JoinsQueue ==
    ASSUME NEW tasks, NEW box, BoxOK(box, tasks), NEW p \in Nat, p \in tasks
    PROVE  /\ BoxOK([box EXCEPT !.send_queue = Append(@, p)], tasks)
           /\ BoxOK([box EXCEPT !.recv_queue = Append(@, p)], tasks)
<1>1. ASSUME NEW q \in Seq(Nat), ToSet(q) \subseteq tasks
      PROVE  Append(q, p) \in Seq(Nat) /\ ToSet(Append(q, p)) \subseteq tasks
  <2> DEFINE r == Append(q, p)
  <2>1. /\ r \in Seq(Nat) /\ Len(r) = Len(q) + 1 /\ Len(q) \in Nat
        /\ r[Len(q) + 1] = p /\ \A i \in 1..Len(q) : r[i] = q[i]
    BY AppendProperties, LenProperties
  <2> HIDE DEF r
  <2>2. DOMAIN r = 1..(Len(q) + 1) /\ DOMAIN q = 1..Len(q)
    BY <2>1, LenProperties
  <2>3. ASSUME NEW i \in DOMAIN r PROVE r[i] \in tasks
    BY <1>1, <2>1, <2>2 DEF ToSet
  <2> QED BY <2>1, <2>3 DEF ToSet, r
<1>2. box \in MailboxType /\ ToSet(box.send_queue) \subseteq tasks /\ ToSet(box.recv_queue) \subseteq tasks
  BY DEF BoxOK, Waits
<1>3. ASSUME NEW y, y = [box EXCEPT !.send_queue = Append(@, p)] PROVE BoxOK(y, tasks)
  <2>1. box.send_queue \in Seq(Nat)
    BY <1>2 DEF MailboxType
  <2>2. /\ Append(box.send_queue, p) \in Seq(Nat)
        /\ ToSet(Append(box.send_queue, p)) \subseteq tasks
    BY <1>1, <1>2, <2>1
  <2>3. /\ y \in MailboxType /\ y.mails = box.mails /\ y.capacity = box.capacity
        /\ y.send_queue = Append(box.send_queue, p) /\ y.recv_queue = box.recv_queue
    BY <1>2, <1>3, <2>2 DEF MailboxType
  <2> QED BY <1>2, <2>2, <2>3 DEF BoxOK, Waits
<1>4. ASSUME NEW y, y = [box EXCEPT !.recv_queue = Append(@, p)] PROVE BoxOK(y, tasks)
  <2>1. box.recv_queue \in Seq(Nat)
    BY <1>2 DEF MailboxType
  <2>2. /\ Append(box.recv_queue, p) \in Seq(Nat)
        /\ ToSet(Append(box.recv_queue, p)) \subseteq tasks
    BY <1>1, <1>2, <2>1
  <2>3. /\ y \in MailboxType /\ y.mails = box.mails /\ y.capacity = box.capacity
        /\ y.recv_queue = Append(box.recv_queue, p) /\ y.send_queue = box.send_queue
    BY <1>2, <1>4, <2>2 DEF MailboxType
  <2> QED BY <1>2, <2>2, <2>3 DEF BoxOK, Waits
<1> QED BY <1>3, <1>4

\* The caller begins to wait, whatever becomes of it in the context switch.
LEMMA BlockEffect ==
    ASSUME MailboxInv, Call, NEW pd, Prepared(pd), NEW mb \in ToSet(MailboxList),
           NEW queue \in {"send_queue", "recv_queue"}, NEW arg \in Messages \cup {"MAIL"},
           Block(mb, queue, arg, pd)
    PROVE  /\ MailboxInv' /\ OthersAge({Current_Process})
           /\ \E a \in Process : /\ a.state = "WAIT_MAILBOX"
                                 /\ a.request_timeout = pd[Current_Process].request_timeout
                                 /\ Aged(a, PD'[Current_Process])
           /\ mailbox' = [mailbox EXCEPT ![mb] =
                 IF queue = "send_queue"
                 THEN [mailbox[mb] EXCEPT !.send_queue = Append(@, Current_Process)]
                 ELSE [mailbox[mb] EXCEPT !.recv_queue = Append(@, Current_Process)]]
           /\ request' = [request EXCEPT ![Current_Process] = arg]
           /\ UNCHANGED received
<1> DEFINE c == Current_Process
           q == [pd[c] EXCEPT !.state = "WAIT_MAILBOX"]
           box == IF queue = "send_queue"
                  THEN [mailbox[mb] EXCEPT !.send_queue = Append(@, c)]
                  ELSE [mailbox[mb] EXCEPT !.recv_queue = Append(@, c)]
<1>0. Inv /\ Running /\ UNCHANGED ProcessList
  BY DEF MailboxInv, Call
<1>1. /\ c \in DOMAIN PD /\ PD[c].state # "DEAD" /\ c \in Nat /\ c \in 1..MaxPid
      /\ pd \in Seq(Process) /\ DOMAIN pd = DOMAIN PD /\ pd[c] \in Process
      /\ \A p \in DOMAIN PD : p # c => pd[p] = PD[p]
  <2>1. c \in DOMAIN PD /\ PD[c].state # "DEAD"
    BY <1>0, CallFacts DEF Table
  <2>2. c \in 1..MaxPid
    BY <1>0, <2>1, CallFacts, EnvironmentAssumption
  <2>3. /\ pd \in Seq(Process) /\ DOMAIN pd = DOMAIN PD
        /\ \A p \in DOMAIN PD : p # c => pd[p] = PD[p]
    BY <1>0, PreparedFacts
  <2>4. pd[c] \in Process
    BY <2>1, <2>3, ElementOfSeq, LenProperties
  <2> QED BY <2>1, <2>2, <2>3, <2>4
<1>2. /\ q \in Process /\ q.state = "WAIT_MAILBOX"
      /\ q.request_timeout = pd[c].request_timeout
  BY <1>1 DEF Process, States
<1>3. [pd EXCEPT ![c].state = "WAIT_MAILBOX"] = [PD EXCEPT ![c] = q]
  <2>1. PD \in Seq(Process)
    BY <1>0, CallFacts DEF Table
  <2>2. PD = [p \in DOMAIN PD |-> PD[p]] /\ pd = [p \in DOMAIN PD |-> pd[p]]
    BY <1>1, <2>1, LenProperties
  <2>3. [pd EXCEPT ![c] = q] = [PD EXCEPT ![c] = q]
    <3> HIDE DEF q
    <3> QED BY <1>1, <2>2
  <2> QED BY <2>3
<1>4. Switch("NO_ERR", [PD EXCEPT ![c] = q])
  BY <1>3 DEF Block
<1> HIDE DEF q
<1>5. Inv' /\ Aged(q, PD'[c]) /\ OthersAge({c})
  BY <1>0, <1>1, <1>2, <1>4, SwitchMoves
<1>6. mailbox \in Seq(MailboxType) /\ mb \in DOMAIN mailbox /\ BoxOK(mailbox[mb], DOMAIN PD)
  BY ListedBox DEF MailboxInv, BoxesOK
<1>7. mailbox' = [mailbox EXCEPT ![mb] = box]
  <2>1. mailbox[mb] \in MailboxType
    BY <1>6 DEF BoxOK
  <2> QED BY <1>6, <2>1 DEF Block, MailboxType
<1>8. BoxOK(box, DOMAIN PD)
  BY <1>1, <1>6, JoinsQueue
<1> HIDE DEF box
<1>9. /\ mailbox' \in Seq(MailboxType) /\ Len(mailbox') = Len(mailbox)
      /\ DOMAIN mailbox' = DOMAIN mailbox
      /\ \A m \in DOMAIN mailbox' : BoxOK(mailbox'[m], DOMAIN PD)
  BY <1>7, <1>8, BoxReplaced
<1>10. BoxesOK'
  BY <1>5, <1>9 DEF BoxesOK, MailboxInv, Call, OthersAge
<1>11. request' = [request EXCEPT ![c] = arg] /\ UNCHANGED received
  BY DEF Block
<1>12. ArgumentsOK'
  BY <1>11 DEF ArgumentsOK, MailboxInv, Contents
<1> QED BY <1>2, <1>5, <1>7, <1>10, <1>11, <1>12 DEF MailboxInv, box

LEMMA RefusedEffect ==
    ASSUME MailboxInv, Refused
    PROVE  MailboxInv' /\ DOMAIN PD' = DOMAIN PD /\ \E pd : Prepared(pd) /\ PD' = pd
<1>0. PICK error \in Errors : \E pd : Prepared(pd) /\ Return(error, pd)
  BY DEF Refused
<1>1. PICK pd : Prepared(pd) /\ Return(error, pd)
  BY <1>0
<1>2. PD' = pd /\ UNCHANGED mailboxVars /\ UNCHANGED ProcessList
  BY <1>1 DEF Return, Refused
<1>3. CASE pd = PD
  <2>1. Inv'
    BY <1>1, <1>3, RefusalKeepsInv DEF MailboxInv, Refused
  <2>2. BoxesOK' /\ ArgumentsOK'
    BY <1>2, <1>3, BoxesKept DEF MailboxInv, ArgumentsOK, mailboxVars
  <2> QED BY <1>1, <1>2, <1>3, <2>1, <2>2 DEF MailboxInv
<1>4. CASE Running
  <2>1. pd \in Seq(Process) /\ DOMAIN pd = DOMAIN PD
    BY <1>1, <1>4, PreparedFacts
  <2>2. Inv'
    BY <1>1, <1>2, <1>4, <2>1, WakesKeepsInv DEF Wakes
  <2>3. BoxesOK' /\ ArgumentsOK'
    BY <1>2, <2>1, BoxesKept DEF MailboxInv, ArgumentsOK, mailboxVars
  <2> QED BY <1>1, <1>2, <2>1, <2>2, <2>3 DEF MailboxInv
<1> QED BY <1>1, <1>3, <1>4 DEF Prepared

LEMMA StoppedKeeps ==
    ASSUME MailboxInv, Stopped
    PROVE  MailboxInv'
<1>1. Inv' /\ PD' = PD /\ UNCHANGED mailboxVars
  BY StopKeepsInv DEF MailboxInv, Stopped
<1>2. BoxesOK' /\ ArgumentsOK'
  BY <1>1, BoxesKept DEF MailboxInv, ArgumentsOK, mailboxVars
<1> QED BY <1>1, <1>2 DEF MailboxInv

LEMMA DroppedEffect ==
    ASSUME MailboxInv, Dropped
    PROVE  MailboxInv' /\ PD' = PD /\ UNCHANGED <<mailbox, request, MailboxList>>
           /\ received' = [received EXCEPT ![Current_Process] = "NULL"]
<1>1. /\ PD' = PD /\ UNCHANGED <<mailbox, request, MailboxList>>
      /\ received' = [received EXCEPT ![Current_Process] = "NULL"]
      /\ "NO_ERR" \in Errors /\ mode \in {"boot", "task"}
  BY DEF Dropped, Call, Return, Errors, Running
<1>2. Inv'
  BY <1>1, RefusalKeepsInv DEF MailboxInv, Dropped, Call
<1>3. BoxesOK' /\ ArgumentsOK'
  BY <1>1, BoxesKept DEF MailboxInv, ArgumentsOK
<1> QED BY <1>1, <1>2, <1>3 DEF MailboxInv

LEMMA EmptyBox ==
    ASSUME NEW capacity \in Nat, NEW tasks
    PROVE  /\ BoxOK(NewMailbox(capacity), tasks)
           /\ NewMailbox(capacity).capacity = capacity /\ NewMailbox(capacity).mails = <<>>
           /\ NewMailbox(capacity).send_queue = <<>> /\ NewMailbox(capacity).recv_queue = <<>>
<1>1. /\ <<>> \in Seq(Nat) /\ <<>> \in Seq(Contents)
      /\ ToSet(<<>>) = {} /\ Len(<<>>) = 0
  BY DEF ToSet
<1> QED BY <1>1 DEF NewMailbox, BoxOK, MailboxType, Waits

\* A new mailbox is empty, and the others stay as they are.
LEMMA CreatedEffect ==
    ASSUME MailboxInv, NEW capacity \in Capacities, Created(capacity)
    PROVE  LET n == Len(mailbox) + 1
           IN /\ MailboxInv' /\ PD' = PD /\ UNCHANGED <<request, received>>
              /\ n \in 1..MaxMailboxID /\ n \notin DOMAIN mailbox
              /\ DOMAIN mailbox' = DOMAIN mailbox \cup {n}
              /\ mailbox'[n] = NewMailbox(capacity)
              /\ \A mb \in DOMAIN mailbox : mailbox'[mb] = mailbox[mb]
<1> DEFINE m == Len(mailbox)
           n == m + 1
           box == NewMailbox(capacity)
<1>1. Inv' /\ PD' = PD /\ UNCHANGED <<request, received>>
  BY RefusalKeepsInv DEF MailboxInv, Created, Return
<1>2. /\ mailbox \in Seq(MailboxType) /\ MailboxList \in Seq(DOMAIN mailbox)
      /\ m \in Nat /\ DOMAIN mailbox = 1..m
  BY LenProperties DEF MailboxInv, BoxesOK
<1>3. BoxOK(box, DOMAIN PD) /\ box \in MailboxType
  BY EmptyBox, MailboxAssumption DEF BoxOK
<1>4. m < MaxMailboxID /\ mailbox' = Append(mailbox, box) /\ MailboxList' = Append(MailboxList, n)
  BY DEF Created, Last_MailboxID
<1> HIDE DEF box
<1>5. /\ mailbox' \in Seq(MailboxType) /\ Len(mailbox') = m + 1
      /\ mailbox'[m + 1] = box /\ \A mb \in 1..m : mailbox'[mb] = mailbox[mb]
  <2>1. m = Len(mailbox)
    OBVIOUS
  <2> HIDE DEF m
  <2> QED BY <1>2, <1>3, <1>4, <2>1, AppendProperties
<1> HIDE DEF m
<1>6. /\ n \in 1..MaxMailboxID /\ Len(mailbox') <= MaxMailboxID /\ n \notin DOMAIN mailbox
      /\ DOMAIN mailbox' = 1..(m + 1) /\ 1..(m + 1) = 1..m \cup {n}
  <2>1. DOMAIN mailbox' = 1..(m + 1)
    BY <1>5, LenProperties
  <2> QED BY <1>2, <1>4, <1>5, <2>1, MailboxAssumption
<1>7. MailboxList' \in Seq(DOMAIN mailbox')
  <2>1. MailboxList \in Seq(DOMAIN mailbox')
    BY <1>2, <1>6, SeqMonotonic
  <2>2. n \in DOMAIN mailbox'
    BY <1>6
  <2> HIDE DEF n
  <2> QED BY <1>4, <2>1, <2>2, AppendProperties
<1>8. ASSUME NEW mb \in DOMAIN mailbox' PROVE BoxOK(mailbox'[mb], DOMAIN PD)
  <2>1. CASE mb = n
    BY <1>3, <1>5, <2>1
  <2>2. CASE mb # n
    BY <1>2, <1>5, <1>6, <2>2 DEF MailboxInv, BoxesOK
  <2> QED BY <2>1, <2>2
<1>9. BoxesOK' /\ ArgumentsOK'
  BY <1>1, <1>5, <1>6, <1>7, <1>8 DEF BoxesOK, ArgumentsOK, MailboxInv
<1> QED BY <1>1, <1>2, <1>5, <1>6, <1>9 DEF MailboxInv, m, box

\* A destroyed mailbox is empty.
LEMMA DestroyedEffect ==
    ASSUME MailboxInv, NEW mb \in ToSet(MailboxList), Destroyed(mb)
    PROVE  /\ MailboxInv' /\ PD' = PD /\ UNCHANGED <<request, received>>
           /\ mb \in DOMAIN mailbox /\ DOMAIN mailbox' = DOMAIN mailbox
           /\ mailbox'[mb] = NewMailbox(mailbox[mb].capacity)
           /\ \A m \in DOMAIN mailbox : m # mb => mailbox'[m] = mailbox[m]
<1>1. /\ PD' = PD /\ UNCHANGED <<request, received>>
      /\ "NO_ERR" \in Errors /\ mode \in {"boot", "task"}
  BY DEF Destroyed, Return, Errors, Running
<1>2. Inv'
  BY <1>1, RefusalKeepsInv DEF MailboxInv, Destroyed
<1>3. mb \in DOMAIN mailbox /\ mailbox[mb].capacity \in Nat
  BY ListedBox DEF MailboxType
<1>4. BoxOK(NewMailbox(mailbox[mb].capacity), DOMAIN PD)
  BY <1>3, EmptyBox
<1>5. /\ mailbox' \in Seq(MailboxType) /\ Len(mailbox') = Len(mailbox)
      /\ DOMAIN mailbox' = DOMAIN mailbox
      /\ mailbox'[mb] = NewMailbox(mailbox[mb].capacity)
      /\ \A m \in DOMAIN mailbox : m # mb => mailbox'[m] = mailbox[m]
      /\ \A m \in DOMAIN mailbox' : BoxOK(mailbox'[m], DOMAIN PD)
  BY <1>4, BoxReplaced DEF Destroyed
<1>6. MailboxList' \in Seq(DOMAIN mailbox)
  <2>1. MailboxList \in Seq(DOMAIN mailbox)
    BY DEF MailboxInv, BoxesOK
  <2>2. PICK i \in 1..Len(MailboxList) : MailboxList' = RemoveAt(MailboxList, i)
    BY <2>1, LenProperties DEF Destroyed
  <2> QED BY <2>1, <2>2, RemoveAtFacts
<1>7. BoxesOK' /\ ArgumentsOK'
  BY <1>1, <1>5, <1>6 DEF BoxesOK, ArgumentsOK, MailboxInv
<1> QED BY <1>1, <1>2, <1>3, <1>5, <1>7 DEF MailboxInv

\* Every step keeps the types.
LEMMA StepKeepsMailboxInv ==
    ASSUME MailboxInv, [MailboxNext]_allVars
    PROVE  MailboxInv'
<1>0. Outcome
  BY StepOutcome DEF MailboxInv, Inv, VarTypes
<1>1. CASE [Next]_vars /\ UNCHANGED mailboxVars
  <2>1. Inv' /\ Fates
    BY <1>1, NextKeepsInv, NextFates DEF MailboxInv
  <2>2. BoxesOK' /\ ArgumentsOK'
    BY <1>1, <2>1, BoxesKept DEF MailboxInv, ArgumentsOK, mailboxVars, Fates
  <2> QED BY <2>1, <2>2 DEF MailboxInv
<1>2. CASE Refused \/ Stopped \/ Dropped
  BY <1>2, RefusedEffect, StoppedKeeps, DroppedEffect
<1>3. ASSUME NEW capacity \in Capacities, Created(capacity) PROVE MailboxInv'
  BY <1>3, CreatedEffect
<1>4. ASSUME NEW mb \in ToSet(MailboxList), Destroyed(mb) PROVE MailboxInv'
  BY <1>4, DestroyedEffect
<1>5. ASSUME NEW mb \in ToSet(MailboxList), NEW pd, Prepared(pd), NEW msg \in Messages,
             SendBlocked(mb, msg, pd)
      PROVE  MailboxInv'
  BY <1>5, BlockEffect DEF SendBlocked
<1>6. ASSUME NEW mb \in ToSet(MailboxList), NEW pd, Prepared(pd), RecvBlocked(mb, pd)
      PROVE  MailboxInv'
  BY <1>6, BlockEffect DEF RecvBlocked
<1>7. ASSUME NEW mb \in ToSet(MailboxList), NEW pd, Prepared(pd), Missed(mb, pd)
      PROVE  MailboxInv'
  BY <1>7, MissedEffect
<1>8. ASSUME NEW mb \in ToSet(MailboxList), NEW pd, Prepared(pd),
             NEW noRoom \in Shortages(mb), Fetched(mb, pd, noRoom)
      PROVE  MailboxInv'
  BY <1>8, FetchedKeeps
<1>9. ASSUME NEW mb \in ToSet(MailboxList), NEW pd, Prepared(pd),
             NEW noRoom \in Shortages(mb), NEW msg \in Messages, Stored(mb, msg, pd, noRoom)
      PROVE  MailboxInv'
  BY <1>9, StoredKeeps
<1> QED BY <1>0, <1>1, <1>2, <1>3, <1>4, <1>5, <1>6, <1>7, <1>8, <1>9 DEF Outcome

LEMMA MailboxInitEstablishes == MailboxInit => MailboxInv
<1> SUFFICES ASSUME MailboxInit PROVE MailboxInv
  OBVIOUS
<1>1. Inv
  BY InitEstablishesInv DEF MailboxInit
<1>2. mailbox = <<>> /\ MailboxList = <<>> /\ <<>> \in Seq(MailboxType)
      /\ DOMAIN mailbox = {} /\ <<>> \in Seq(DOMAIN mailbox) /\ Len(<<>>) = 0
  BY DEF MailboxInit
<1>3. BoxesOK
  BY <1>2, MailboxAssumption DEF BoxesOK
<1>4. ArgumentsOK
  BY DEF MailboxInit, ArgumentsOK
<1> QED BY <1>1, <1>3, <1>4 DEF MailboxInv

-----------------------------------------------------------------------------
(* Exchanges in which nobody waits in vain.                                *)

Distinct(q) == \A i, j \in DOMAIN q : q[i] = q[j] => i = j

\* The tasks in the queues are in the calls that put them there.
SendersWait(q, pd, args) ==
    Distinct(q) /\ \A p \in ToSet(q) : pd[p].state = "WAIT_MAILBOX" /\ args[p] \in Messages

ReceiversWait(q, pd, args) ==
    Distinct(q) /\ \A p \in ToSet(q) : pd[p].state = "WAIT_MAILBOX" /\ args[p] = "MAIL"

BoxWaits(box, pd, args) ==
    /\ SendersWait(box.send_queue, pd, args)
    /\ ReceiversWait(box.recv_queue, pd, args)
    /\ box.send_queue # <<>> => IsFull(box)
    /\ box.recv_queue # <<>> => box.mails = <<>>
    /\ box.mails \in Seq(Messages)

\* From x to y some tasks that waited go on, and nothing else happens to tasks.
Serves(x, y) ==
    /\ Waits(y.box) \subseteq Waits(x.box)
    /\ \A p \in DOMAIN x.pd : p \notin Waits(x.box) \/ p \in Waits(y.box) =>
          y.pd[p] = x.pd[p] /\ y.request[p] = x.request[p]

LEMMA ServesTransitive ==
    ASSUME NEW x, NEW y, NEW z, DOMAIN y.pd = DOMAIN x.pd, Serves(x, y), Serves(y, z)
    PROVE  Serves(x, z)
<1>1. Waits(z.box) \subseteq Waits(y.box) /\ Waits(y.box) \subseteq Waits(x.box)
  BY DEF Serves
<1>2. ASSUME NEW p \in DOMAIN x.pd, p \notin Waits(x.box) \/ p \in Waits(z.box)
      PROVE  z.pd[p] = x.pd[p] /\ z.request[p] = x.request[p]
  <2>1. p \notin Waits(x.box) \/ p \in Waits(y.box)
    BY <1>1, <1>2
  <2>2. p \notin Waits(y.box) \/ p \in Waits(z.box)
    BY <1>1, <1>2
  <2>3. y.pd[p] = x.pd[p] /\ y.request[p] = x.request[p]
    BY <2>1 DEF Serves
  <2>4. z.pd[p] = y.pd[p] /\ z.request[p] = y.request[p]
    BY <2>2 DEF Serves
  <2> QED BY <2>3, <2>4
<1> QED BY <1>1, <1>2 DEF Serves

\* The loops have nothing to do.
LEMMA RecvIdle ==
    ASSUME NEW x, ExchangeOK(x), x.box.recv_queue = <<>> \/ x.box.mails = <<>>
    PROVE  ServeAll.recv[x] = x
<1>1. ServeAll.recv[x] = Kernel_Mailbox_Recv_From_Queue(x, ServeAll)
  BY ServeIsRecursive
<1> QED BY <1>1, RecvLoops DEF RecvLoop

LEMMA SendIdle ==
    ASSUME NEW x, ExchangeOK(x), x.box.send_queue = <<>> \/ IsFull(x.box)
    PROVE  ServeAll.send[x] = x
<1>1. ServeAll.send[x] = Kernel_Mailbox_Send_From_Queue(x, ServeAll)
  BY ServeIsRecursive
<1> QED BY <1>1, SendLoops DEF SendLoop

\* The loops serve the first task.
LEMMA RecvServes ==
    ASSUME NEW x, ExchangeOK(x), x.box.recv_queue # <<>>, x.box.mails # <<>>,
           x.pd[Head(x.box.recv_queue)].state = "WAIT_MAILBOX"
    PROVE  LET p == Head(x.box.recv_queue)
               y == [x EXCEPT !.box.recv_queue = Tail(x.box.recv_queue)]
           IN ServeAll.recv[x] = ServeAll.recv[Woken(Fetch(y, p, ServeAll), p)]
<1>1. ServeAll.recv[x] = Kernel_Mailbox_Recv_From_Queue(x, ServeAll)
  BY ServeIsRecursive
<1> QED BY <1>1, RecvLoops DEF RecvLoop

LEMMA SendServes ==
    ASSUME NEW x, ExchangeOK(x), x.box.send_queue # <<>>, ~IsFull(x.box),
           x.pd[Head(x.box.send_queue)].state = "WAIT_MAILBOX"
    PROVE  LET p == Head(x.box.send_queue)
               y == [x EXCEPT !.box.send_queue = Tail(x.box.send_queue)]
           IN ServeAll.send[x] = ServeAll.send[Woken(Store(y, p, ServeAll), p)]
<1>1. ServeAll.send[x] = Kernel_Mailbox_Send_From_Queue(x, ServeAll)
  BY ServeIsRecursive
<1> QED BY <1>1, SendLoops DEF SendLoop

\* The rest of a queue that holds nothing twice.
LEMMA RestDistinct ==
    ASSUME NEW S, NEW q \in Seq(S), q # <<>>, Distinct(q)
    PROVE  Distinct(Tail(q)) /\ Head(q) \notin ToSet(Tail(q))
           /\ ToSet(q) = ToSet(Tail(q)) \cup {Head(q)}
<1>1. Len(q) \in Nat /\ DOMAIN q = 1..Len(q) /\ Len(q) # 0 /\ Head(q) = q[1]
  BY LenProperties, EmptySeq, HeadTailProperties
<1>2. /\ Tail(q) \in Seq(S) /\ Len(Tail(q)) = Len(q) - 1
      /\ \A i \in 1..(Len(q) - 1) : Tail(q)[i] = q[i + 1]
  BY DequeueFacts
<1>3. DOMAIN Tail(q) = 1..(Len(q) - 1)
  BY <1>2, LenProperties
<1> DEFINE n == Len(q) - 1
           t == Tail(q)
<1>4. \A i \in 1..n : t[i] = q[i + 1] /\ i + 1 \in DOMAIN q /\ i + 1 # 1
  BY <1>1, <1>2
<1>5. Distinct(t)
  <2> SUFFICES ASSUME NEW i \in 1..n, NEW j \in 1..n, t[i] = t[j] PROVE i = j
    BY <1>3 DEF Distinct
  <2> HIDE DEF t, n
  <2>1. q[i + 1] = q[j + 1] /\ i + 1 \in DOMAIN q /\ j + 1 \in DOMAIN q
    BY <1>4
  <2>2. i + 1 = j + 1
    BY <2>1 DEF Distinct
  <2>3. i \in Int /\ j \in Int
    BY <1>1 DEF n
  <2> QED BY <2>2, <2>3
<1>6. Head(q) \notin ToSet(t)
  <2> SUFFICES ASSUME NEW i \in 1..n, t[i] = Head(q) PROVE FALSE
    BY <1>3 DEF ToSet
  <2> HIDE DEF t, n
  <2>1. q[i + 1] = q[1] /\ i + 1 \in DOMAIN q /\ 1 \in DOMAIN q
    BY <1>1, <1>4
  <2> QED BY <1>4, <2>1 DEF Distinct
<1>7. ToSet(q) \subseteq ToSet(t) \cup {Head(q)}
  <2> SUFFICES ASSUME NEW i \in 1..Len(q) PROVE q[i] \in ToSet(t) \cup {Head(q)}
    BY <1>1 DEF ToSet
  <2>1. CASE i = 1
    BY <1>1, <2>1
  <2>2. CASE i # 1
    <3>1. i - 1 \in 1..n /\ (i - 1) + 1 = i
      BY <1>1, <2>2
    <3>2. t[i - 1] = q[i] /\ i - 1 \in DOMAIN t
      BY <1>3, <1>4, <3>1
    <3> QED BY <3>2 DEF ToSet
  <2> QED BY <2>1, <2>2
<1>8. ToSet(t) \cup {Head(q)} \subseteq ToSet(q)
  BY DequeueFacts
<1> QED BY <1>5, <1>6, <1>7, <1>8

\* A task that has been taken out of its queue goes on, and no other does.
LEMMA WokenServes ==
    ASSUME NEW x, ExchangeOK(x), NEW p \in DOMAIN x.pd, NEW y, ExchangeOK(y),
           y.pd = x.pd, y.request = x.request, y.pd[p].state = "WAIT_MAILBOX",
           Waits(y.box) \subseteq Waits(x.box), p \in Waits(x.box), p \notin Waits(y.box)
    PROVE  LET z == Woken(y, p)
           IN /\ Continues(y, z) /\ Serves(x, z) /\ z.box = y.box /\ z.noRoom = y.noRoom
              /\ z.received = y.received /\ DOMAIN z.pd = DOMAIN x.pd
              /\ z.request = [x.request EXCEPT ![p] = "NULL"]
<1> DEFINE z == Woken(y, p)
<1>1. /\ Continues(y, z) /\ z.box = y.box /\ z.noRoom = y.noRoom
      /\ z.received = y.received
      /\ z.pd = [y.pd EXCEPT ![p] = [y.pd[p] EXCEPT !.state = "READY"]]
      /\ z.request = [y.request EXCEPT ![p] = "NULL"]
  BY WokenFacts
<1> HIDE DEF z
<1>2. /\ DOMAIN z.pd = DOMAIN x.pd
      /\ \A r \in DOMAIN x.pd : r # p => z.pd[r] = x.pd[r] /\ z.request[r] = x.request[r]
  <2>1. x.request \in [1..MaxPid -> Contents \cup {"NULL", "MAIL"}] /\ DOMAIN x.pd \subseteq 1..MaxPid
    BY ExchangeTypes
  <2> QED BY <1>1, <2>1
<1>3. Serves(x, z)
  BY <1>1, <1>2 DEF Serves
<1> QED BY <1>1, <1>2, <1>3 DEF z

\* A message that finds room is stored, handed to the task that has waited for
\* one longest, or lost for want of memory.
LEMMA StoreEffect ==
    ASSUME NEW x, ExchangeOK(x), BoxWaits(x.box, x.pd, x.request), ~IsFull(x.box),
           NEW c \in DOMAIN x.pd, x.request[c] \in Messages
    PROVE  LET z == Store(x, c, ServeAll)
               q == x.box.recv_queue
           IN /\ Serves(x, z)
              /\ \/ c \in x.noRoom /\ z.box = x.box /\ z.received = x.received
                 \/ /\ q = <<>>
                    /\ z.box = [x.box EXCEPT !.mails = Append(x.box.mails, x.request[c])]
                    /\ z.received = x.received
                 \/ /\ q # <<>>
                    /\ z.box = [x.box EXCEPT !.recv_queue = Tail(q)]
                    /\ z.received = [x.received EXCEPT ![Head(q)] = x.request[c]]
<1> DEFINE q == x.box.recv_queue
           m == x.request[c]
           a == [x EXCEPT !.box.mails = Append(x.box.mails, MessageOf(x, c))]
           z == Store(x, c, ServeAll)
<1>0. x.box \in MailboxType /\ MessageOf(x, c) = m
  BY DEF ExchangeOK, BoxOK, MessageOf
<1>1. CASE c \in x.noRoom
  <2>1. z = [x EXCEPT !.error = "MALLOC_FAILED_ERR"]
    BY <1>1 DEF Store
  <2>2. z.box = x.box /\ z.pd = x.pd /\ z.request = x.request /\ z.received = x.received
    BY <2>1 DEF ExchangeOK, Exchanges
  <2> HIDE DEF z
  <2>3. Serves(x, z)
    BY <2>2 DEF Serves
  <2> QED BY <1>1, <2>2, <2>3 DEF z
<1>2. CASE c \notin x.noRoom
  <2>1. /\ Continues(x, a) /\ a.pd = x.pd /\ a.request = x.request /\ a.received = x.received
        /\ a.box = [x.box EXCEPT !.mails = Append(x.box.mails, m)]
    <3>1. /\ Continues(x, a) /\ a.pd = x.pd /\ a.request = x.request /\ a.received = x.received
          /\ a.box = [x.box EXCEPT !.mails = Append(x.box.mails, MessageOf(x, c))]
      BY AppendedFacts
    <3> HIDE DEF a
    <3> QED BY <1>0, <3>1
  <2>2. z = ServeAll.recv[a]
    BY <1>2 DEF Store
  <2> HIDE DEF a, z, m
  <2>3. /\ a.box.mails = Append(x.box.mails, m) /\ a.box.recv_queue = q
        /\ a.box.send_queue = x.box.send_queue /\ a.box.capacity = x.box.capacity
    BY <1>0, <2>1 DEF MailboxType
  <2>4. ExchangeOK(a) /\ DOMAIN a.pd = DOMAIN x.pd
    BY <2>1 DEF Continues
  <2>5. CASE q = <<>>
    <3>1. z = a
      BY <2>2, <2>3, <2>4, <2>5, RecvIdle
    <3>2. Serves(x, a)
      BY <2>1, <2>3 DEF Serves, Waits
    <3> QED BY <2>1, <2>5, <3>1, <3>2 DEF z, m
  <2>6. CASE q # <<>>
    <3> DEFINE p == Head(q)
               y == [a EXCEPT !.box.recv_queue = Tail(a.box.recv_queue)]
               d == Delivered(y, p)
               w == Woken(d, p)
    <3>1. /\ x.box.mails = <<>> /\ x.box.send_queue = <<>>
          /\ a.box.mails = <<m>> /\ a.box.mails # <<>>
      <4>1. x.box.mails = <<>> /\ x.box.send_queue = <<>>
        BY <2>6 DEF BoxWaits
      <4> QED BY <2>3, <4>1
    <3>2. q \in Seq(DOMAIN x.pd) /\ Distinct(q)
      BY ExchangeTypes DEF BoxWaits, ReceiversWait
    <3>3. p \in ToSet(q) /\ p \in DOMAIN x.pd /\ x.pd[p].state = "WAIT_MAILBOX" /\ x.request[p] = "MAIL"
      BY <2>6, <3>2, DequeueFacts DEF BoxWaits, ReceiversWait
    <3>4. /\ ExchangeOK(y) /\ y.pd = a.pd /\ y.request = a.request /\ y.received = a.received
          /\ y.box = [a.box EXCEPT !.recv_queue = Tail(q)] /\ y.noRoom = a.noRoom
      <4>1. a.box.recv_queue # <<>>
        BY <2>3, <2>6
      <4>2. /\ ExchangeOK(y) /\ y.pd = a.pd /\ y.request = a.request /\ y.received = a.received
            /\ y.box = [a.box EXCEPT !.recv_queue = Tail(a.box.recv_queue)] /\ y.noRoom = a.noRoom
        BY <2>4, <4>1, LeavesReceivers
      <4> HIDE DEF y
      <4> QED BY <2>3, <4>2
    <3> HIDE DEF y
    <3>5. /\ y.box.mails = <<m>> /\ y.box.mails # <<>> /\ y.box.recv_queue = Tail(q)
          /\ y.box.send_queue = <<>>
      <4>1. a.box \in MailboxType
        BY <2>4 DEF ExchangeOK, BoxOK
      <4> QED BY <2>3, <3>1, <3>4, <4>1 DEF MailboxType
    <3>6. /\ Continues(y, d) /\ d.pd = y.pd /\ d.noRoom = y.noRoom
          /\ d.box = [y.box EXCEPT !.mails = Tail(y.box.mails)]
          /\ d.received = [y.received EXCEPT ![p] = Head(y.box.mails)]
          /\ d.request = y.request
      <4>1. y.request[p] = "MAIL" /\ p \in DOMAIN y.pd
        BY <2>1, <3>3, <3>4
      <4>2. ExchangeOK(y) /\ y.box.mails # <<>>
        BY <3>4, <3>5
      <4> HIDE DEF p
      <4>3. /\ Continues(y, d) /\ d.pd = y.pd /\ d.noRoom = y.noRoom
            /\ d.box = [y.box EXCEPT !.mails = Tail(y.box.mails)]
            /\ y.request[p] = "MAIL" =>
                  /\ d.received = [y.received EXCEPT ![p] = Head(y.box.mails)]
                  /\ d.request = y.request
        BY <4>1, <4>2, DeliveredFacts
      <4> HIDE DEF d
      <4> QED BY <4>1, <4>3
    <3> HIDE DEF d
    <3>7. /\ ExchangeOK(d) /\ d.box.mails = <<>> /\ d.box.send_queue = <<>>
          /\ d.box.recv_queue = Tail(q)
          /\ d.box = [x.box EXCEPT !.recv_queue = Tail(q)]
          /\ d.received = [x.received EXCEPT ![p] = m]
      <4>1. Tail(<<m>>) = <<>> /\ Head(<<m>>) = m
        OBVIOUS
      <4>2. y.box \in MailboxType /\ a.box \in MailboxType
        BY <2>4, <3>4 DEF ExchangeOK, BoxOK
      <4>3. /\ d.box.mails = <<>> /\ d.box.send_queue = <<>>
            /\ d.box.recv_queue = Tail(q) /\ d.box.capacity = x.box.capacity
        BY <2>3, <3>4, <3>5, <3>6, <4>1, <4>2 DEF MailboxType
      <4>4. ExchangeOK(d) /\ d.box \in MailboxType
        BY <3>6 DEF Continues, ExchangeOK, BoxOK
      <4>5. d.box = [x.box EXCEPT !.recv_queue = Tail(q)]
        BY <1>0, <3>1, <4>3, <4>4 DEF MailboxType
      <4> QED BY <2>1, <3>4, <3>5, <3>6, <4>1, <4>3, <4>4, <4>5
    <3>8. Fetch(y, p, ServeAll) = d
      BY <3>7, SendIdle DEF Fetch, d
    <3>9. z = ServeAll.recv[w]
      <4>1. /\ a.box.recv_queue # <<>> /\ a.box.mails # <<>> /\ Head(a.box.recv_queue) = p
            /\ a.pd[Head(a.box.recv_queue)].state = "WAIT_MAILBOX"
        BY <2>1, <2>3, <2>6, <3>1, <3>3
      <4>2. ServeAll.recv[a] =
              ServeAll.recv[Woken(Fetch(y, Head(a.box.recv_queue), ServeAll), Head(a.box.recv_queue))]
        BY <2>4, <4>1, RecvServes DEF y
      <4> HIDE DEF p
      <4> QED BY <2>2, <3>8, <4>1, <4>2
    <3>10. /\ Continues(d, w) /\ Serves(x, w) /\ w.box = d.box /\ w.received = d.received
      <4>1. d.pd = x.pd /\ d.request = x.request
        BY <2>1, <3>4, <3>6
      <4>2. /\ Waits(d.box) \subseteq Waits(x.box) /\ p \in Waits(x.box) /\ p \notin Waits(d.box)
        BY <2>6, <3>2, <3>3, <3>7, RestDistinct DEF Waits, ToSet
      <4>3. d.pd[p].state = "WAIT_MAILBOX"
        BY <3>3, <4>1
      <4>4. p \in DOMAIN x.pd /\ ExchangeOK(d)
        BY <3>3, <3>7
      <4> HIDE DEF p, q
      <4>5. Serves(x, w)
        BY <4>1, <4>2, <4>3, <4>4, WokenServes
      <4>6. Continues(d, w)
        BY <4>1, <4>2, <4>3, <4>4, WokenServes
      <4>7. w.box = d.box /\ w.received = d.received
        BY <4>4 DEF Woken, ExchangeOK, Exchanges
      <4> QED BY <4>5, <4>6, <4>7
    <3> HIDE DEF w
    <3>11. z = w
      <4>1. ExchangeOK(w) /\ w.box.mails = <<>>
        BY <3>7, <3>10 DEF Continues
      <4> QED BY <3>9, <4>1, RecvIdle
    <3> QED BY <2>6, <3>7, <3>10, <3>11 DEF z, m
  <2> QED BY <2>5, <2>6
<1> QED BY <1>1, <1>2

\* What is left of a queue when k have left it.
After(q, k) == SubSeq(q, k + 1, Len(q))

LEMMA AfterFacts ==
    ASSUME NEW S, NEW q \in Seq(S), NEW k \in 0..Len(q)
    PROVE  /\ After(q, k) \in Seq(S) /\ Len(After(q, k)) = Len(q) - k
           /\ \A i \in 1..(Len(q) - k) : After(q, k)[i] = q[k + i]
<1> DEFINE n == Len(q)
<1>1. n \in Nat /\ DOMAIN q = 1..n /\ k \in 0..n
  BY LenProperties
<1>2. \A i \in 1..n : q[i] \in S
  BY <1>1, ElementOfSeq
<1> HIDE DEF n
<1>3. k + 1 \in Int /\ n \in Int /\ (k + 1)..n \subseteq 1..n
  BY <1>1
<1>4. /\ SubSeq(q, k + 1, n) \in Seq(S)
      /\ Len(SubSeq(q, k + 1, n)) = IF k + 1 <= n THEN n - (k + 1) + 1 ELSE 0
      /\ \A i \in 1..(n - (k + 1) + 1) : SubSeq(q, k + 1, n)[i] = q[(k + 1) + i - 1]
  BY <1>2, <1>3, SubSeqProperties
<1>5. /\ n - (k + 1) + 1 = n - k /\ ~(k + 1 <= n) => n - k = 0
      /\ \A i \in 1..(n - k) : (k + 1) + i - 1 = k + i
  BY <1>1
<1> HIDE DEF n
<1>6. After(q, k) = SubSeq(q, k + 1, n)
  BY DEF After, n
<1>7. /\ After(q, k) \in Seq(S) /\ Len(After(q, k)) = n - k
      /\ \A i \in 1..(n - k) : After(q, k)[i] = q[k + i]
  BY <1>1, <1>4, <1>5, <1>6
<1> QED BY <1>7 DEF n

LEMMA AfterAll ==
    ASSUME NEW S, NEW q \in Seq(S)
    PROVE  After(q, 0) = q /\ After(q, Len(q)) = <<>>
<1>1. Len(q) \in Nat
  BY LenProperties
<1>2. After(q, 0) = q
  BY <1>1, SubSeqFull DEF After
<1>3. After(q, Len(q)) = <<>>
  BY <1>1, SubSeqEmpty DEF After
<1> QED BY <1>2, <1>3

LEMMA AfterTail ==
    ASSUME NEW S, NEW q \in Seq(S), q # <<>>, NEW k \in 0..Len(Tail(q))
    PROVE  /\ k + 1 \in 0..Len(q) /\ After(Tail(q), k) = After(q, k + 1)
           /\ k = Len(Tail(q)) => k + 1 = Len(q)
           /\ k # 0 => Tail(q)[k] = q[k + 1]
<1> DEFINE n == Len(q)
           t == Tail(q)
<1>1. /\ n \in Nat /\ n # 0 /\ t \in Seq(S) /\ Len(t) = n - 1
      /\ \A i \in 1..(n - 1) : t[i] = q[i + 1]
  BY LenProperties, EmptySeq, DequeueFacts
<1>2. k \in 0..(n - 1) /\ k \in 0..Len(t) /\ k + 1 \in 0..n
  BY <1>1
<1> DEFINE a == After(t, k)
           b == After(q, k + 1)
<1>3. /\ a \in Seq(S) /\ Len(a) = (n - 1) - k
      /\ \A i \in 1..((n - 1) - k) : a[i] = t[k + i]
  <2> HIDE DEF t
  <2>1. /\ a \in Seq(S) /\ Len(a) = Len(t) - k
        /\ \A i \in 1..(Len(t) - k) : a[i] = t[k + i]
    <3>1. t \in Seq(S) /\ k \in 0..Len(t)
      BY <1>1, <1>2
    <3> QED BY <3>1, AfterFacts
  <2> HIDE DEF a, n
  <2> QED BY <1>1, <2>1
<1>4. /\ b \in Seq(S) /\ Len(b) = n - (k + 1)
      /\ \A i \in 1..(n - (k + 1)) : b[i] = q[(k + 1) + i]
  BY <1>2, AfterFacts
<1> HIDE DEF t, a, b, n
<1>5. /\ (n - 1) - k = n - (k + 1)
      /\ \A i \in 1..((n - 1) - k) : k + i \in 1..(n - 1) /\ (k + i) + 1 = (k + 1) + i
  BY <1>1, <1>2
<1>6. \A i \in 1..Len(a) : a[i] = b[i]
  BY <1>1, <1>3, <1>4, <1>5
<1>7. a = b
  BY <1>3, <1>4, <1>5, <1>6, SeqEqual
<1>8. k = Len(t) => k + 1 = n
  BY <1>1, <1>2
<1>9. k # 0 => t[k] = q[k + 1]
  BY <1>1, <1>2
<1> QED BY <1>2, <1>7, <1>8, <1>9 DEF a, b, t, n

LEMMA AfterOne ==
    ASSUME NEW S, NEW q \in Seq(S), q # <<>>
    PROVE  After(q, 1) = Tail(q) /\ 1 \in 0..Len(q) /\ q[1] = Head(q)
<1>1. Tail(q) \in Seq(S) /\ Len(q) \in Nat /\ Len(q) # 0
  BY DequeueFacts, LenProperties, EmptySeq
<1>2. 0 \in 0..Len(Tail(q))
  BY <1>1, LenProperties
<1>3. After(Tail(q), 0) = After(q, 0 + 1)
  BY <1>2, AfterTail
<1>4. After(Tail(q), 0) = Tail(q)
  BY <1>1, AfterAll
<1> QED BY <1>1, <1>3, <1>4, HeadTailProperties

\* A mail has been received from a mailbox that was full, if anybody waits to
\* send; then nobody waits to receive.
RoomForOne(x) ==
    /\ ExchangeOK(x) /\ x.box.recv_queue = <<>>
    /\ SendersWait(x.box.send_queue, x.pd, x.request)
    /\ x.box.send_queue # <<>> => Len(x.box.mails) + 1 = x.box.capacity

\* The first k senders go on.  The messages of all but the last, or of all of
\* them when they are all there are, found no memory.
MovesUp(x, z) ==
    LET q == x.box.send_queue
    IN /\ Continues(x, z) /\ Serves(x, z)
       /\ z.received = x.received /\ z.box.recv_queue = <<>>
       /\ \E k \in 0..Len(q) :
             /\ z.box.send_queue = After(q, k)
             /\ \/ k = Len(q) /\ z.box.mails = x.box.mails /\ (k # 0 => x.noRoom # {})
                \/ /\ k # 0 /\ (k # 1 => x.noRoom # {})
                   /\ z.box.mails = Append(x.box.mails, x.request[q[k]])

\* The first sender is taken out of the queue ...
LEMMA SenderLeaves ==
    ASSUME NEW x, RoomForOne(x), x.box.send_queue # <<>>
    PROVE  LET q == x.box.send_queue
               p == Head(q)
               y == [x EXCEPT !.box.send_queue = Tail(q)]
           IN /\ p \in DOMAIN x.pd /\ x.pd[p].state = "WAIT_MAILBOX" /\ x.request[p] \in Messages
              /\ ~IsFull(x.box) /\ ~IsFull(y.box)
              /\ ExchangeOK(y) /\ Continues(x, y) /\ y.pd = x.pd /\ y.noRoom = x.noRoom
              /\ y.request = x.request /\ y.received = x.received
              /\ y.box.mails = x.box.mails /\ y.box.capacity = x.box.capacity
              /\ y.box.send_queue = Tail(q) /\ y.box.recv_queue = <<>>
              /\ Waiters(y.box) = Waiters(x.box) - 1
              /\ Waits(y.box) \subseteq Waits(x.box) /\ p \in Waits(x.box) /\ p \notin Waits(y.box)
              /\ SendersWait(Tail(q), x.pd, x.request)
<1> DEFINE q == x.box.send_queue
           p == Head(q)
           y == [x EXCEPT !.box.send_queue = Tail(q)]
<1>0. /\ ExchangeOK(x) /\ x.box.recv_queue = <<>> /\ SendersWait(q, x.pd, x.request)
      /\ Len(x.box.mails) + 1 = x.box.capacity /\ x.box \in MailboxType
  BY DEF RoomForOne, ExchangeOK, BoxOK
<1>1. q \in Seq(DOMAIN x.pd) /\ Len(x.box.mails) \in Nat /\ Distinct(q)
  BY <1>0, ExchangeTypes DEF SendersWait
<1>2. p \in ToSet(q) /\ p \in DOMAIN x.pd /\ x.pd[p].state = "WAIT_MAILBOX" /\ x.request[p] \in Messages
  BY <1>0, <1>1, DequeueFacts DEF SendersWait
<1>3. /\ ExchangeOK(y) /\ Continues(x, y) /\ Waiters(y.box) = Waiters(x.box) - 1
      /\ y.pd = x.pd /\ y.noRoom = x.noRoom
      /\ y.box = [x.box EXCEPT !.send_queue = Tail(q)]
      /\ y.request = x.request /\ y.received = x.received
  BY <1>0, LeavesSenders
<1> HIDE DEF y
<1>4. /\ y.box.mails = x.box.mails /\ y.box.capacity = x.box.capacity
      /\ y.box.send_queue = Tail(q) /\ y.box.recv_queue = <<>>
  BY <1>0, <1>3 DEF MailboxType
<1>5. ~IsFull(x.box) /\ ~IsFull(y.box)
  <2>1. ~(Len(x.box.mails) >= x.box.capacity)
    BY <1>0, <1>1
  <2> QED BY <1>4, <2>1 DEF IsFull
<1>6. Distinct(Tail(q)) /\ p \notin ToSet(Tail(q)) /\ ToSet(q) = ToSet(Tail(q)) \cup {p}
  BY <1>1, RestDistinct
<1>7. SendersWait(Tail(q), x.pd, x.request)
  BY <1>0, <1>6 DEF SendersWait
<1>8. Waits(y.box) \subseteq Waits(x.box) /\ p \in Waits(x.box) /\ p \notin Waits(y.box)
  <2>1. ToSet(<<>>) = {}
    BY DEF ToSet
  <2> HIDE DEF p
  <2> QED BY <1>0, <1>2, <1>4, <1>6, <2>1 DEF Waits
<1> QED BY <1>2, <1>3, <1>4, <1>5, <1>7, <1>8 DEF y

\* ... and loses its message, or sees it stored: then the mailbox is full again.
LEMMA SenderGoesOn ==
    ASSUME NEW x, RoomForOne(x), x.box.send_queue # <<>>
    PROVE  LET q == x.box.send_queue
               p == Head(q)
           IN \E w : /\ ServeAll.send[x] = ServeAll.send[w]
                     /\ Continues(x, w) /\ Serves(x, w) /\ DOMAIN w.pd = DOMAIN x.pd
                     /\ w.received = x.received /\ w.noRoom = x.noRoom
                     /\ w.request = [x.request EXCEPT ![p] = "NULL"]
                     /\ w.box.send_queue = Tail(q) /\ w.box.recv_queue = <<>>
                     /\ \/ p \in x.noRoom /\ w.box.mails = x.box.mails
                        \/ IsFull(w.box) /\ w.box.mails = Append(x.box.mails, x.request[p])
<1> DEFINE q == x.box.send_queue
           p == Head(q)
           y == [x EXCEPT !.box.send_queue = Tail(q)]
           s == Store(y, p, ServeAll)
           w == Woken(s, p)
<1>0. ExchangeOK(x) /\ Len(x.box.mails) + 1 = x.box.capacity /\ x.box.mails \in Seq(Contents)
  BY ExchangeTypes DEF RoomForOne
<1>1. /\ p \in DOMAIN x.pd /\ x.pd[p].state = "WAIT_MAILBOX" /\ x.request[p] \in Messages
      /\ ~IsFull(x.box) /\ ~IsFull(y.box)
      /\ ExchangeOK(y) /\ Continues(x, y) /\ y.pd = x.pd /\ y.noRoom = x.noRoom
      /\ y.request = x.request /\ y.received = x.received
      /\ y.box.mails = x.box.mails /\ y.box.capacity = x.box.capacity
      /\ y.box.send_queue = Tail(q) /\ y.box.recv_queue = <<>>
      /\ Waits(y.box) \subseteq Waits(x.box) /\ p \in Waits(x.box) /\ p \notin Waits(y.box)
  BY SenderLeaves
<1>2. ServeAll.send[x] = ServeAll.send[w]
  BY <1>0, <1>1, SendServes
<1> HIDE DEF y
<1>3. /\ Continues(y, s) /\ ExchangeOK(s) /\ s.pd = x.pd /\ s.request = x.request
      /\ s.received = x.received /\ s.noRoom = x.noRoom
      /\ s.box.send_queue = Tail(q) /\ s.box.recv_queue = <<>>
      /\ \/ p \in x.noRoom /\ s.box.mails = x.box.mails
         \/ IsFull(s.box) /\ s.box.mails = Append(x.box.mails, x.request[p])
  <2>1. CASE p \in y.noRoom
    <3>1. s = [y EXCEPT !.error = "MALLOC_FAILED_ERR"]
      BY <2>1 DEF Store
    <3> HIDE DEF s
    <3>2. /\ Continues(y, s) /\ s.box = y.box /\ s.pd = y.pd /\ s.noRoom = y.noRoom
          /\ s.request = y.request /\ s.received = y.received
      <4>1. "MALLOC_FAILED_ERR" \in Errors
        BY DEF Errors
      <4> QED BY <1>1, <3>1, <4>1, ErrorChanges
    <3> QED BY <1>1, <2>1, <3>2 DEF Continues
  <2>2. CASE p \notin y.noRoom
    <3> DEFINE a == [y EXCEPT !.box.mails = Append(y.box.mails, MessageOf(y, p))]
    <3>1. /\ Continues(y, a) /\ a.pd = y.pd /\ a.noRoom = y.noRoom
          /\ a.request = y.request /\ a.received = y.received
          /\ a.box = [y.box EXCEPT !.mails = Append(y.box.mails, MessageOf(y, p))]
      <4>1. p \in DOMAIN y.pd /\ ExchangeOK(y) /\ ~IsFull(y.box)
        BY <1>1
      <4> HIDE DEF p
      <4> QED BY <4>1, AppendedFacts
    <3>2. s = ServeAll.recv[a]
      BY <2>2 DEF Store
    <3>3. MessageOf(y, p) = x.request[p]
      BY <1>1 DEF MessageOf
    <3> HIDE DEF a, s, p
    <3>4. /\ a.box.mails = Append(x.box.mails, x.request[p]) /\ a.box.capacity = x.box.capacity
          /\ a.box.send_queue = Tail(q) /\ a.box.recv_queue = <<>>
      <4>1. y.box \in MailboxType
        BY <1>1 DEF ExchangeOK, BoxOK
      <4> QED BY <1>1, <3>1, <3>3, <4>1 DEF MailboxType
    <3>5. ExchangeOK(a)
      BY <3>1 DEF Continues
    <3>6. s = a
      BY <3>2, <3>4, <3>5, RecvIdle
    <3>7. IsFull(a.box)
      <4>1. x.request[p] \in Contents
        BY <1>1 DEF Contents
      <4>2. Len(a.box.mails) = Len(x.box.mails) + 1
        BY <1>0, <3>4, <4>1, AppendProperties
      <4>3. Len(a.box.mails) = a.box.capacity /\ a.box.capacity \in Nat
        BY <1>0, <3>4, <3>5, <4>2, ExchangeTypes
      <4> QED BY <4>3 DEF IsFull
    <3> QED BY <1>1, <3>1, <3>4, <3>5, <3>6, <3>7
  <2> QED BY <2>1, <2>2
<1> HIDE DEF s
<1>4. /\ Waits(s.box) \subseteq Waits(x.box) /\ p \notin Waits(s.box)
  BY <1>1, <1>3 DEF Waits
<1>5. s.pd[p].state = "WAIT_MAILBOX" /\ p \in DOMAIN s.pd
  BY <1>1, <1>3
<1>6. Serves(x, w)
  <2>1. p \in DOMAIN x.pd /\ p \in Waits(x.box) /\ ExchangeOK(s) /\ s.pd = x.pd /\ s.request = x.request
    BY <1>1, <1>3
  <2> HIDE DEF p, q
  <2> QED BY <1>0, <1>4, <1>5, <2>1, WokenServes
<1>7. Continues(x, w)
  <2>1. Continues(s, w)
    <3> HIDE DEF p
    <3> QED BY <1>3, <1>5, WokenFacts
  <2>2. Continues(x, s)
    BY <1>0, <1>1, <1>3, ContinuesTransitive
  <2> QED BY <1>0, <2>1, <2>2, ContinuesTransitive
<1>8. /\ w.box = s.box /\ w.received = s.received /\ w.noRoom = s.noRoom
      /\ w.request = [s.request EXCEPT ![p] = "NULL"]
  BY <1>3 DEF Woken, ExchangeOK, Exchanges
<1> HIDE DEF w
<1>9. DOMAIN w.pd = DOMAIN x.pd
  BY <1>7 DEF Continues, Wakes
<1> HIDE DEF p, q
<1>10. /\ w.received = x.received /\ w.noRoom = x.noRoom
       /\ w.request = [x.request EXCEPT ![p] = "NULL"]
       /\ w.box.send_queue = Tail(q) /\ w.box.recv_queue = <<>>
       /\ \/ p \in x.noRoom /\ w.box.mails = x.box.mails
          \/ IsFull(w.box) /\ w.box.mails = Append(x.box.mails, x.request[p])
  BY <1>3, <1>8
<1> QED BY <1>2, <1>6, <1>7, <1>9, <1>10 DEF p, q

\* What is to be shown of the exchanges in which n senders wait.
SendersServed(n) ==
    \A x : RoomForOne(x) /\ Len(x.box.send_queue) = n => MovesUp(x, ServeAll.send[x])

LEMMA NobodyToServe ==
    ASSUME NEW x, RoomForOne(x), x.box.send_queue = <<>>
    PROVE  MovesUp(x, ServeAll.send[x])
<1>1. ExchangeOK(x) /\ ServeAll.send[x] = x
  BY SendIdle DEF RoomForOne
<1>2. Continues(x, x) /\ Serves(x, x)
  BY <1>1, ContinuesReflexive DEF Serves
<1>3. x.box.send_queue \in Seq(DOMAIN x.pd) /\ Len(x.box.send_queue) = 0
  BY <1>1, ExchangeTypes
<1>4. 0 \in 0..Len(x.box.send_queue) /\ x.box.send_queue = After(x.box.send_queue, 0)
  <2>1. After(x.box.send_queue, 0) = x.box.send_queue
    BY <1>3, AfterAll
  <2> QED BY <1>3, <2>1
<1>5. x.box.recv_queue = <<>>
  BY DEF RoomForOne
<1>6. \E k \in 0..Len(x.box.send_queue) :
         /\ x.box.send_queue = After(x.box.send_queue, k)
         /\ k = Len(x.box.send_queue) /\ x.box.mails = x.box.mails /\ (k # 0 => x.noRoom # {})
  BY <1>3, <1>4
<1>7. MovesUp(x, x)
  BY <1>2, <1>5, <1>6 DEF MovesUp
<1> QED BY <1>1, <1>7

\* With the first sender out of the way, the others see the same room.
LEMMA NextSender ==
    ASSUME NEW x, RoomForOne(x), x.box.send_queue # <<>>, NEW w, Continues(x, w), Serves(x, w),
           w.request = [x.request EXCEPT ![Head(x.box.send_queue)] = "NULL"],
           w.box.send_queue = Tail(x.box.send_queue), w.box.recv_queue = <<>>,
           w.box.mails = x.box.mails
    PROVE  RoomForOne(w)
<1> DEFINE q == x.box.send_queue
<1>1. /\ ExchangeOK(x) /\ SendersWait(q, x.pd, x.request) /\ Len(x.box.mails) + 1 = x.box.capacity
      /\ q \in Seq(DOMAIN x.pd)
  BY ExchangeTypes DEF RoomForOne
<1>2. ExchangeOK(w) /\ w.box.capacity = x.box.capacity
  BY DEF Continues
<1>3. Distinct(Tail(q)) /\ ToSet(Tail(q)) \subseteq ToSet(q)
  BY <1>1, RestDistinct DEF SendersWait
<1>4. ToSet(q) \subseteq DOMAIN x.pd
  BY <1>1 DEF ExchangeOK, BoxOK, Waits
<1>5. ASSUME NEW r \in ToSet(Tail(q)) PROVE w.pd[r] = x.pd[r] /\ w.request[r] = x.request[r]
  <2>1. r \in DOMAIN x.pd /\ r \in Waits(w.box)
    BY <1>3, <1>4 DEF Waits
  <2> QED BY <2>1 DEF Serves
<1>6. SendersWait(Tail(q), w.pd, w.request)
  BY <1>1, <1>3, <1>5 DEF SendersWait
<1> QED BY <1>1, <1>2, <1>6 DEF RoomForOne

LEMMA FirstSender ==
    ASSUME NEW x, RoomForOne(x), x.box.send_queue # <<>>,
           SendersServed(Len(x.box.send_queue) - 1)
    PROVE  MovesUp(x, ServeAll.send[x])
<1> DEFINE q == x.box.send_queue
           p == Head(q)
<1>1. /\ ExchangeOK(x) /\ q \in Seq(DOMAIN x.pd) /\ Distinct(q)
  BY ExchangeTypes DEF RoomForOne, SendersWait
<1>2. /\ p \in ToSet(q) /\ Tail(q) \in Seq(DOMAIN x.pd) /\ Len(Tail(q)) = Len(q) - 1
      /\ p \notin ToSet(Tail(q))
  BY <1>1, DequeueFacts, RestDistinct
<1>3. PICK w : /\ ServeAll.send[x] = ServeAll.send[w]
               /\ Continues(x, w) /\ Serves(x, w) /\ DOMAIN w.pd = DOMAIN x.pd
               /\ w.received = x.received /\ w.noRoom = x.noRoom
               /\ w.request = [x.request EXCEPT ![p] = "NULL"]
               /\ w.box.send_queue = Tail(q) /\ w.box.recv_queue = <<>>
               /\ \/ p \in x.noRoom /\ w.box.mails = x.box.mails
                  \/ IsFull(w.box) /\ w.box.mails = Append(x.box.mails, x.request[p])
  BY SenderGoesOn
<1>4. ExchangeOK(w)
  BY <1>3 DEF Continues
<1>5. CASE IsFull(w.box) /\ w.box.mails = Append(x.box.mails, x.request[p])
  <2>1. ServeAll.send[x] = w
    BY <1>3, <1>4, <1>5, SendIdle
  <2>2. After(q, 1) = Tail(q) /\ 1 \in 0..Len(q) /\ q[1] = p
    BY <1>1, AfterOne
  <2> HIDE DEF p
  <2>3. \E k \in 0..Len(q) : /\ w.box.send_queue = After(q, k)
                             /\ k # 0 /\ (k # 1 => x.noRoom # {})
                             /\ w.box.mails = Append(x.box.mails, x.request[q[k]])
    <3>1. 1 # 0
      OBVIOUS
    <3> HIDE DEF q
    <3> QED BY <1>3, <1>5, <2>2, <3>1
  <2>4. MovesUp(x, w)
    BY <1>3, <2>3 DEF MovesUp
  <2> QED BY <2>1, <2>4
<1>6. CASE p \in x.noRoom /\ w.box.mails = x.box.mails
  <2> DEFINE z == ServeAll.send[w]
             t == Tail(q)
  <2>1. RoomForOne(w)
    BY <1>3, <1>6, NextSender
  <2>2. MovesUp(w, z)
    BY <1>2, <1>3, <2>1 DEF SendersServed
  <2> HIDE DEF z, t
  <2>3. /\ Continues(w, z) /\ Serves(w, z) /\ z.received = w.received /\ z.box.recv_queue = <<>>
    BY <2>2 DEF MovesUp
  <2>4. PICK j \in 0..Len(t) :
             /\ z.box.send_queue = After(t, j)
             /\ \/ j = Len(t) /\ z.box.mails = w.box.mails
                \/ j # 0 /\ z.box.mails = Append(w.box.mails, w.request[t[j]])
    BY <1>3, <2>2 DEF MovesUp, t
  <2>5. /\ j + 1 \in 0..Len(q) /\ After(t, j) = After(q, j + 1)
        /\ j = Len(t) => j + 1 = Len(q)
        /\ j # 0 => t[j] = q[j + 1]
    BY <1>1, <2>4, AfterTail DEF t
  <2>6. Continues(x, z) /\ Serves(x, z) /\ z.received = x.received
    BY <1>1, <1>3, <2>3, ContinuesTransitive, ServesTransitive
  <2>7. j # 0 => w.request[t[j]] = x.request[q[j + 1]]
    <3>1. ASSUME j # 0 PROVE t[j] \in ToSet(t)
      <4>1. t \in Seq(DOMAIN x.pd) /\ Len(t) \in Nat /\ j \in Nat
        BY <1>2, <2>4, LenProperties DEF t
      <4>2. j \in 1..Len(t) /\ DOMAIN t = 1..Len(t)
        BY <2>4, <3>1, <4>1, LenProperties
      <4> QED BY <4>2 DEF ToSet
    <3>2. j # 0 => t[j] # p
      BY <1>2, <3>1 DEF t
    <3>3. \A r \in DOMAIN x.request : r # p => w.request[r] = x.request[r]
      BY <1>3
    <3>4. j # 0 => t[j] \in DOMAIN x.request
      <4>1. DOMAIN x.pd \subseteq DOMAIN x.request /\ ToSet(t) \subseteq ToSet(q) /\ ToSet(q) \subseteq DOMAIN x.pd
        BY <1>1, ExchangeTypes, DequeueFacts DEF t, ExchangeOK, BoxOK, Waits
      <4> QED BY <3>1, <4>1
    <3> QED BY <2>5, <3>2, <3>3, <3>4
  <2>8. x.noRoom # {}
    BY <1>6
  <2> DEFINE k == j + 1
  <2>9. k # 0
    BY <2>4
  <2> HIDE DEF k
  <2>10. /\ k \in 0..Len(q) /\ z.box.send_queue = After(q, k)
         /\ \/ k = Len(q) /\ z.box.mails = x.box.mails
            \/ z.box.mails = Append(x.box.mails, x.request[q[k]])
    <3> HIDE DEF q, t
    <3> QED BY <1>6, <2>4, <2>5, <2>7 DEF k
  <2>11. MovesUp(x, z)
    <3> HIDE DEF p
    <3> QED BY <2>3, <2>6, <2>8, <2>9, <2>10 DEF MovesUp
  <2> QED BY <1>3, <2>11 DEF z
<1> QED BY <1>3, <1>5, <1>6

\* The senders that wait are served until the mailbox is full again.
LEMMA SendersMoveUp == \A n \in Nat : SendersServed(n)
<1>1. SendersServed(0)
  <2> SUFFICES ASSUME NEW x, RoomForOne(x), Len(x.box.send_queue) = 0
               PROVE  MovesUp(x, ServeAll.send[x])
    BY DEF SendersServed
  <2>1. x.box.send_queue \in Seq(DOMAIN x.pd)
    BY ExchangeTypes DEF RoomForOne
  <2>2. x.box.send_queue = <<>>
    BY <2>1, EmptySeq
  <2> QED BY <2>2, NobodyToServe
<1>2. ASSUME NEW n \in Nat, SendersServed(n) PROVE SendersServed(n + 1)
  <2> SUFFICES ASSUME NEW x, RoomForOne(x), Len(x.box.send_queue) = n + 1
               PROVE  MovesUp(x, ServeAll.send[x])
    BY DEF SendersServed
  <2>1. x.box.send_queue # <<>> /\ Len(x.box.send_queue) - 1 = n
    OBVIOUS
  <2> QED BY <1>2, <2>1, FirstSender
<1> DEFINE T == {n \in Nat : ~SendersServed(n)}
<1>3. CASE T = {}
  BY <1>3
<1>4. CASE T # {}
  <2>1. PICK n \in T : \A l \in T : n <= l
    <3>1. T \subseteq Nat
      OBVIOUS
    <3> HIDE DEF T
    <3> QED BY <1>4, <3>1, LeastElement
  <2>2. n \in Nat /\ n # 0 /\ ~SendersServed(n)
    BY <1>1, <2>1
  <2>3. n - 1 \in Nat /\ ~(n <= n - 1) /\ (n - 1) + 1 = n
    BY <2>2
  <2>4. SendersServed(n - 1)
    BY <2>1, <2>3
  <2>5. SendersServed((n - 1) + 1)
    BY <1>2, <2>3, <2>4
  <2> QED BY <2>2, <2>3, <2>5
<1> QED BY <1>3, <1>4

\* A task receives the first mail; then the senders that wait move up.
LEMMA FetchEffect ==
    ASSUME NEW x, ExchangeOK(x), BoxWaits(x.box, x.pd, x.request), x.box.mails # <<>>,
           NEW c \in DOMAIN x.pd, x.request[c] = "MAIL"
    PROVE  LET z == Fetch(x, c, ServeAll)
               q == x.box.send_queue
           IN /\ Continues(x, z) /\ Serves(x, z) /\ z.box.recv_queue = <<>>
              /\ z.received = [x.received EXCEPT ![c] = Head(x.box.mails)]
              /\ \E k \in 0..Len(q) :
                    /\ z.box.send_queue = After(q, k)
                    /\ \/ /\ k = Len(q) /\ z.box.mails = Tail(x.box.mails)
                          /\ k # 0 => x.noRoom # {}
                       \/ /\ k # 0 /\ (k # 1 => x.noRoom # {})
                          /\ z.box.mails = Append(Tail(x.box.mails), x.request[q[k]])
<1> DEFINE d == Delivered(x, c)
           z == Fetch(x, c, ServeAll)
           q == x.box.send_queue
<1>1. /\ Continues(x, d) /\ d.pd = x.pd /\ d.noRoom = x.noRoom
      /\ d.box = [x.box EXCEPT !.mails = Tail(x.box.mails)]
      /\ d.received = [x.received EXCEPT ![c] = Head(x.box.mails)]
      /\ d.request = x.request
  BY DeliveredFacts
<1>2. z = ServeAll.send[d]
  BY DEF Fetch
<1> HIDE DEF d, z
<1>3. x.box \in MailboxType /\ ExchangeOK(d)
  BY <1>1 DEF ExchangeOK, BoxOK, Continues
<1>4. /\ d.box.mails = Tail(x.box.mails) /\ d.box.capacity = x.box.capacity
      /\ d.box.send_queue = q /\ d.box.recv_queue = <<>>
  BY <1>1, <1>3 DEF MailboxType, BoxWaits
<1>5. Serves(x, d)
  <2>1. Waits(d.box) \subseteq Waits(x.box)
    <3>1. ToSet(<<>>) = {}
      BY DEF ToSet
    <3> QED BY <1>4, <3>1 DEF Waits
  <2> QED BY <1>1, <2>1 DEF Serves
<1>6. RoomForOne(d)
  <2>1. SendersWait(q, d.pd, d.request)
    BY <1>1 DEF BoxWaits
  <2>2. ASSUME q # <<>> PROVE Len(d.box.mails) + 1 = d.box.capacity
    <3>1. IsFull(x.box) /\ x.box.mails \in Seq(Contents) /\ x.box.capacity \in Nat
          /\ Len(x.box.mails) \in Nat /\ Len(x.box.mails) <= x.box.capacity
      BY <2>2, ExchangeTypes DEF BoxWaits, ExchangeOK, BoxOK
    <3>2. Len(x.box.mails) = x.box.capacity
      BY <3>1 DEF IsFull
    <3>3. Len(Tail(x.box.mails)) = Len(x.box.mails) - 1
      BY <3>1, DequeueFacts
    <3> QED BY <1>4, <3>1, <3>2, <3>3
  <2> QED BY <1>3, <1>4, <2>1, <2>2 DEF RoomForOne
<1>7. MovesUp(d, z)
  <2>1. Len(d.box.send_queue) \in Nat
    BY <1>3, ExchangeTypes, LenProperties
  <2> QED BY <1>2, <1>6, <2>1, SendersMoveUp DEF SendersServed
<1>8. Continues(d, z) /\ Serves(d, z) /\ z.received = d.received /\ z.box.recv_queue = <<>>
  BY <1>7 DEF MovesUp
<1>9. Continues(x, z)
  BY <1>1, <1>8, ContinuesTransitive
<1>10. Serves(x, z)
  BY <1>1, <1>5, <1>8, ServesTransitive
<1>11. \E k \in 0..Len(q) :
          /\ z.box.send_queue = After(q, k)
          /\ \/ k = Len(q) /\ z.box.mails = Tail(x.box.mails) /\ (k # 0 => x.noRoom # {})
             \/ /\ k # 0 /\ (k # 1 => x.noRoom # {})
                /\ z.box.mails = Append(Tail(x.box.mails), x.request[q[k]])
  <2> HIDE DEF q
  <2> QED BY <1>1, <1>4, <1>7 DEF MovesUp
<1> QED BY <1>1, <1>8, <1>9, <1>10, <1>11 DEF z, q

\* What is left of a queue waits as before.
LEMMA AfterDistinct ==
    ASSUME NEW S, NEW q \in Seq(S), Distinct(q), NEW k \in 0..Len(q)
    PROVE  Distinct(After(q, k)) /\ ToSet(After(q, k)) \subseteq ToSet(q)
<1> DEFINE a == After(q, k)
           n == Len(q)
<1>1. /\ a \in Seq(S) /\ Len(a) = n - k /\ n \in Nat /\ DOMAIN q = 1..n
      /\ \A i \in 1..(n - k) : a[i] = q[k + i]
  BY AfterFacts, LenProperties
<1>2. DOMAIN a = 1..(n - k)
  BY <1>1, LenProperties
<1> HIDE DEF a
<1>3. k \in Nat /\ \A i \in 1..(n - k) : k + i \in 1..n /\ i \in Int
  BY <1>1
<1>4. Distinct(a)
  <2> SUFFICES ASSUME NEW i \in 1..(n - k), NEW j \in 1..(n - k), a[i] = a[j] PROVE i = j
    BY <1>2 DEF Distinct
  <2>1. k + i = k + j
    BY <1>1, <1>3 DEF Distinct
  <2> QED BY <1>3, <2>1
<1>5. ToSet(a) \subseteq ToSet(q)
  BY <1>1, <1>2, <1>3 DEF ToSet
<1> QED BY <1>4, <1>5 DEF a

LEMMA SendersStillWait ==
    ASSUME NEW x, ExchangeOK(x), NEW z, Serves(x, z), SendersWait(x.box.send_queue, x.pd, x.request),
           Distinct(z.box.send_queue), ToSet(z.box.send_queue) \subseteq ToSet(x.box.send_queue)
    PROVE  SendersWait(z.box.send_queue, z.pd, z.request)
<1>1. ASSUME NEW p \in ToSet(z.box.send_queue) PROVE z.pd[p] = x.pd[p] /\ z.request[p] = x.request[p]
  <2>1. p \in DOMAIN x.pd /\ p \in Waits(z.box)
    BY DEF Waits, ExchangeOK, BoxOK
  <2> QED BY <2>1 DEF Serves
<1> QED BY <1>1 DEF SendersWait

LEMMA ReceiversStillWait ==
    ASSUME NEW x, ExchangeOK(x), NEW z, Serves(x, z), ReceiversWait(x.box.recv_queue, x.pd, x.request),
           Distinct(z.box.recv_queue), ToSet(z.box.recv_queue) \subseteq ToSet(x.box.recv_queue)
    PROVE  ReceiversWait(z.box.recv_queue, z.pd, z.request)
<1>1. ASSUME NEW p \in ToSet(z.box.recv_queue) PROVE z.pd[p] = x.pd[p] /\ z.request[p] = x.request[p]
  <2>1. p \in DOMAIN x.pd /\ p \in Waits(z.box)
    BY DEF Waits, ExchangeOK, BoxOK
  <2> QED BY <2>1 DEF Serves
<1> QED BY <1>1 DEF ReceiversWait

LEMMA NobodyWaits ==
    ASSUME NEW pd, NEW args
    PROVE  SendersWait(<<>>, pd, args) /\ ReceiversWait(<<>>, pd, args)
<1>1. ToSet(<<>>) = {} /\ Distinct(<<>>)
  BY DEF ToSet, Distinct
<1> QED BY <1>1 DEF SendersWait, ReceiversWait

\* After the exchange nobody waits in vain.
LEMMA StoreKeepsWaits ==
    ASSUME NEW x, ExchangeOK(x), BoxWaits(x.box, x.pd, x.request), ~IsFull(x.box),
           NEW c \in DOMAIN x.pd, x.request[c] \in Messages
    PROVE  LET z == Store(x, c, ServeAll) IN BoxWaits(z.box, z.pd, z.request)
<1> DEFINE z == Store(x, c, ServeAll)
           q == x.box.recv_queue
<1>1. /\ Serves(x, z)
      /\ \/ z.box = x.box
         \/ q = <<>> /\ z.box = [x.box EXCEPT !.mails = Append(x.box.mails, x.request[c])]
         \/ q # <<>> /\ z.box = [x.box EXCEPT !.recv_queue = Tail(q)]
  BY StoreEffect
<1> HIDE DEF z
<1>2. /\ x.box \in MailboxType /\ x.box.send_queue = <<>> /\ x.box.mails \in Seq(Messages)
      /\ q \in Seq(DOMAIN x.pd) /\ ReceiversWait(q, x.pd, x.request)
      /\ q # <<>> => x.box.mails = <<>>
  BY ExchangeTypes DEF ExchangeOK, BoxOK, BoxWaits
<1>3. z.box.send_queue = <<>> /\ (z.box.recv_queue = q \/ (q # <<>> /\ z.box.recv_queue = Tail(q)))
  BY <1>1, <1>2 DEF MailboxType
<1>4. z.box.mails \in Seq(Messages)
  <2>1. Append(x.box.mails, x.request[c]) \in Seq(Messages)
    BY <1>2, AppendProperties
  <2> QED BY <1>1, <1>2, <2>1 DEF MailboxType
<1>5. z.box.recv_queue # <<>> => z.box.mails = <<>>
  <2>1. Tail(q) # <<>> /\ q # <<>> => x.box.mails = <<>>
    BY <1>2
  <2> QED BY <1>1, <1>2, <2>1 DEF MailboxType
<1>6. ReceiversWait(z.box.recv_queue, z.pd, z.request)
  <2>1. Distinct(q)
    BY <1>2 DEF ReceiversWait
  <2>2. q # <<>> => Distinct(Tail(q)) /\ ToSet(Tail(q)) \subseteq ToSet(q)
    BY <1>2, <2>1, RestDistinct
  <2>3. Distinct(z.box.recv_queue) /\ ToSet(z.box.recv_queue) \subseteq ToSet(q)
    BY <1>3, <2>1, <2>2
  <2> QED BY <1>1, <1>2, <2>3, ReceiversStillWait
<1>7. BoxWaits(z.box, z.pd, z.request)
  BY <1>3, <1>4, <1>5, <1>6, NobodyWaits DEF BoxWaits
<1> QED BY <1>7 DEF z

LEMMA FetchKeepsWaits ==
    ASSUME NEW x, ExchangeOK(x), BoxWaits(x.box, x.pd, x.request), x.box.mails # <<>>,
           NEW c \in DOMAIN x.pd, x.request[c] = "MAIL"
    PROVE  LET z == Fetch(x, c, ServeAll) IN BoxWaits(z.box, z.pd, z.request)
<1> DEFINE z == Fetch(x, c, ServeAll)
           q == x.box.send_queue
<1>1. /\ Continues(x, z) /\ Serves(x, z) /\ z.box.recv_queue = <<>>
      /\ \E k \in 0..Len(q) :
            /\ z.box.send_queue = After(q, k)
            /\ \/ k = Len(q) /\ z.box.mails = Tail(x.box.mails)
               \/ k # 0 /\ z.box.mails = Append(Tail(x.box.mails), x.request[q[k]])
  <2>1. /\ Continues(x, z) /\ Serves(x, z) /\ z.box.recv_queue = <<>>
        /\ \E k \in 0..Len(q) :
              /\ z.box.send_queue = After(q, k)
              /\ \/ /\ k = Len(q) /\ z.box.mails = Tail(x.box.mails)
                    /\ k # 0 => x.noRoom # {}
                 \/ /\ k # 0 /\ (k # 1 => x.noRoom # {})
                    /\ z.box.mails = Append(Tail(x.box.mails), x.request[q[k]])
    BY FetchEffect
  <2> HIDE DEF z, q
  <2> QED BY <2>1
<1> HIDE DEF z
<1>2. PICK k \in 0..Len(q) :
          /\ z.box.send_queue = After(q, k)
          /\ \/ k = Len(q) /\ z.box.mails = Tail(x.box.mails)
             \/ k # 0 /\ z.box.mails = Append(Tail(x.box.mails), x.request[q[k]])
  BY <1>1
<1>3. /\ q \in Seq(DOMAIN x.pd) /\ SendersWait(q, x.pd, x.request) /\ Distinct(q)
      /\ x.box.mails \in Seq(Messages)
      /\ q # <<>> => IsFull(x.box)
      /\ x.box.capacity \in Nat /\ Len(x.box.mails) \in Nat
  BY ExchangeTypes DEF BoxWaits, SendersWait
<1>4. SendersWait(z.box.send_queue, z.pd, z.request)
  <2>1. Distinct(z.box.send_queue) /\ ToSet(z.box.send_queue) \subseteq ToSet(q)
    BY <1>2, <1>3, AfterDistinct
  <2> QED BY <1>1, <1>3, <2>1, SendersStillWait
<1>5. Tail(x.box.mails) \in Seq(Messages) /\ Len(Tail(x.box.mails)) = Len(x.box.mails) - 1
  BY <1>3, DequeueFacts
<1>6. CASE k = Len(q) /\ z.box.mails = Tail(x.box.mails)
  <2>1. z.box.send_queue = <<>>
    BY <1>2, <1>3, <1>6, AfterAll
  <2>2. z.box.mails \in Seq(Messages)
    BY <1>5, <1>6
  <2>3. BoxWaits(z.box, z.pd, z.request)
    BY <1>1, <1>4, <2>1, <2>2, NobodyWaits DEF BoxWaits
  <2> QED BY <2>3 DEF z
<1>7. CASE k # 0 /\ z.box.mails = Append(Tail(x.box.mails), x.request[q[k]])
  <2>1. k \in DOMAIN q /\ q # <<>>
    <3>1. Len(q) \in Nat /\ DOMAIN q = 1..Len(q)
      BY <1>3, LenProperties
    <3> QED BY <1>7, <3>1
  <2>2. x.request[q[k]] \in Messages
    BY <1>3, <2>1 DEF SendersWait, ToSet
  <2>3. z.box.mails \in Seq(Messages) /\ Len(z.box.mails) = Len(x.box.mails)
    <3>1. /\ Append(Tail(x.box.mails), x.request[q[k]]) \in Seq(Messages)
          /\ Len(Append(Tail(x.box.mails), x.request[q[k]])) = Len(Tail(x.box.mails)) + 1
      BY <1>5, <2>2, AppendProperties
    <3> HIDE DEF q
    <3> QED BY <1>3, <1>5, <1>7, <3>1
  <2>4. IsFull(z.box)
    <3>1. IsFull(x.box) /\ z.box.capacity = x.box.capacity
      BY <1>1, <1>3, <2>1 DEF Continues
    <3> QED BY <1>3, <2>3, <3>1 DEF IsFull
  <2>5. BoxWaits(z.box, z.pd, z.request)
    BY <1>1, <1>4, <2>3, <2>4, NobodyWaits DEF BoxWaits
  <2> QED BY <2>5 DEF z
<1> QED BY <1>2, <1>6, <1>7

-----------------------------------------------------------------------------
(* Nobody waits in vain.                                                   *)

\* The queues of all mailboxes, and the timers: as long as no call has a time
\* limit, no timer can take a task out of its call while it is in a queue.
WaitInv ==
    /\ AllTimely
    /\ \A mb \in DOMAIN mailbox : BoxWaits(mailbox[mb], PD, request)
    /\ \A m, n \in DOMAIN mailbox : m # n => Waits(mailbox[m]) \cap Waits(mailbox[n]) = {}

\* Nothing happens to the tasks in the queues of a mailbox.
LEMMA BoxStillWaits ==
    ASSUME NEW box, NEW pd, NEW args, BoxWaits(box, pd, args), NEW pd2, NEW args2,
           \A p \in Waits(box) : pd[p].state = "WAIT_MAILBOX" =>
               pd2[p].state = "WAIT_MAILBOX" /\ args2[p] = args[p]
    PROVE  BoxWaits(box, pd2, args2)
<1>1. SendersWait(box.send_queue, pd2, args2)
  BY DEF BoxWaits, SendersWait, Waits
<1>2. ReceiversWait(box.recv_queue, pd2, args2)
  BY DEF BoxWaits, ReceiversWait, Waits
<1> QED BY <1>1, <1>2 DEF BoxWaits

\* Who is in a queue waits; so the caller of a call is in none.
LEMMA QueuedTasks ==
    ASSUME MailboxInv, WaitInv, NEW mb \in DOMAIN mailbox
    PROVE  /\ Waits(mailbox[mb]) \subseteq DOMAIN PD
           /\ \A p \in Waits(mailbox[mb]) : PD[p].state = "WAIT_MAILBOX"
<1>1. BoxWaits(mailbox[mb], PD, request) /\ BoxOK(mailbox[mb], DOMAIN PD)
  BY DEF WaitInv, MailboxInv, BoxesOK
<1> QED BY <1>1 DEF BoxWaits, BoxOK, Waits, SendersWait, ReceiversWait

LEMMA CallerIsInNone ==
    ASSUME MailboxInv, WaitInv, ~SelfSuspend, Running
    PROVE  /\ Current_Process \in DOMAIN PD /\ PD[Current_Process].state = "RUNNING"
           /\ \A mb \in DOMAIN mailbox : Current_Process \notin Waits(mailbox[mb])
<1>1. Current_Process \in DOMAIN PD
  BY CallFacts DEF MailboxInv
<1>2. PD[Current_Process].state = "RUNNING"
  BY DEF MailboxInv, Inv, CallerRuns, CurrentIsRunning, Running
<1>3. ASSUME NEW mb \in DOMAIN mailbox, Current_Process \in Waits(mailbox[mb]) PROVE FALSE
  BY <1>2, <1>3, QueuedTasks
<1> QED BY <1>1, <1>2, <1>3

\* Every process has a slot for its arguments.
LEMMA TasksHaveRequests ==
    ASSUME MailboxInv, Running
    PROVE  /\ DOMAIN PD \subseteq DOMAIN request /\ DOMAIN request = 1..MaxPid
           /\ Current_Process \in DOMAIN PD /\ Current_Process \in 1..MaxPid
<1>1. DOMAIN PD = 1..Len(PD) /\ Len(PD) \in Nat /\ Len(PD) <= MaxPid /\ Current_Process \in DOMAIN PD
  BY CallFacts DEF MailboxInv
<1>2. DOMAIN request = 1..MaxPid
  BY DEF MailboxInv, ArgumentsOK
<1> QED BY <1>1, <1>2, EnvironmentAssumption

\* Setting a timer to no limit leaves everybody as timely as before.
LEMMA PreparedTimely ==
    ASSUME MailboxInv, WaitInv, Timeouts \subseteq {0}, NEW pd, Prepared(pd)
    PROVE  /\ DOMAIN pd = DOMAIN PD
           /\ \A p \in DOMAIN PD : Timely(pd[p]) /\ pd[p].state = PD[p].state
<1>1. CASE pd = PD
  BY <1>1 DEF WaitInv, AllTimely
<1>2. CASE Running
  <2> DEFINE c == Current_Process
  <2>1. /\ DOMAIN pd = DOMAIN PD
        /\ \A p \in DOMAIN PD : p # c => pd[p] = PD[p]
        /\ pd[c].state = PD[c].state /\ pd[c].last_state = PD[c].last_state
        /\ pd = PD \/ pd[c].request_timeout \in Timeouts
    BY <1>2, PreparedFacts
  <2>2. \A p \in DOMAIN PD : Timely(PD[p])
    BY DEF WaitInv, AllTimely
  <2>3. CASE pd[c].request_timeout = 0
    BY <2>1, <2>2, <2>3 DEF Timely
  <2> QED BY <1>1, <2>1, <2>3
<1> QED BY <1>1, <1>2 DEF Prepared

\* Steps that change no mailbox.
LEMMA SameBoxes ==
    ASSUME MailboxInv, WaitInv, mailbox' = mailbox, AllTimely',
           \A mb \in DOMAIN mailbox : \A p \in Waits(mailbox[mb]) :
               PD[p].state = "WAIT_MAILBOX" =>
                   PD'[p].state = "WAIT_MAILBOX" /\ request'[p] = request[p]
    PROVE  WaitInv'
<1>1. \A mb \in DOMAIN mailbox : BoxWaits(mailbox[mb], PD', request')
  <2> SUFFICES ASSUME NEW mb \in DOMAIN mailbox PROVE BoxWaits(mailbox[mb], PD', request')
    OBVIOUS
  <2>1. BoxWaits(mailbox[mb], PD, request)
    BY DEF WaitInv
  <2> QED BY <2>1, BoxStillWaits
<1> QED BY <1>1 DEF WaitInv

LEMMA RefusedKeepsWaitInv ==
    ASSUME MailboxInv, WaitInv, Timeouts \subseteq {0}, Refused
    PROVE  WaitInv'
<1>1. PICK pd : Prepared(pd) /\ PD' = pd
  BY RefusedEffect
<1>2. DOMAIN PD' = DOMAIN PD /\ \A p \in DOMAIN PD : Timely(PD'[p]) /\ PD'[p].state = PD[p].state
  BY <1>1, PreparedTimely
<1>3. AllTimely'
  BY <1>2 DEF AllTimely
<1>4. \A mb \in DOMAIN mailbox : Waits(mailbox[mb]) \subseteq DOMAIN PD
  BY QueuedTasks
<1> QED BY <1>2, <1>3, <1>4, SameBoxes DEF Refused, mailboxVars

LEMMA MissedKeepsWaitInv ==
    ASSUME MailboxInv, WaitInv, ~SelfSuspend, Timeouts \subseteq {0}, NEW pd, Prepared(pd),
           NEW mb \in ToSet(MailboxList), Missed(mb, pd)
    PROVE  WaitInv'
<1>1. /\ PD' = pd /\ UNCHANGED mailbox
      /\ request' = [request EXCEPT ![Current_Process] = "NULL"]
  BY MissedEffect
<1>2. DOMAIN PD' = DOMAIN PD /\ \A p \in DOMAIN PD : Timely(PD'[p]) /\ PD'[p].state = PD[p].state
  BY <1>1, PreparedTimely
<1>3. AllTimely'
  BY <1>2 DEF AllTimely
<1>4. /\ \A m \in DOMAIN mailbox : Current_Process \notin Waits(mailbox[m])
      /\ \A m \in DOMAIN mailbox : Waits(mailbox[m]) \subseteq DOMAIN PD
  BY CallerIsInNone, QueuedTasks DEF Missed, Call
<1>5. DOMAIN PD \subseteq DOMAIN request
  BY TasksHaveRequests DEF Missed, Call
<1>6. \A p \in DOMAIN request : p # Current_Process => request'[p] = request[p]
  BY <1>1
<1> QED BY <1>1, <1>2, <1>3, <1>4, <1>5, <1>6, SameBoxes

\* One mailbox gets another content, with no tasks in its queues that were in
\* those of another one.
LEMMA OneBoxChanges ==
    ASSUME MailboxInv, WaitInv, NEW mb, DOMAIN mailbox' = DOMAIN mailbox \cup {mb},
           \A m \in DOMAIN mailbox : m # mb => mailbox'[m] = mailbox[m],
           AllTimely', BoxWaits(mailbox'[mb], PD', request'),
           \A m \in DOMAIN mailbox \ {mb} : \A p \in Waits(mailbox[m]) :
               /\ p \notin Waits(mailbox'[mb])
               /\ PD[p].state = "WAIT_MAILBOX" =>
                     PD'[p].state = "WAIT_MAILBOX" /\ request'[p] = request[p]
    PROVE  WaitInv'
<1>1. ASSUME NEW m \in DOMAIN mailbox, m # mb PROVE BoxWaits(mailbox'[m], PD', request')
  <2>1. BoxWaits(mailbox[m], PD, request) /\ mailbox'[m] = mailbox[m]
    BY <1>1 DEF WaitInv
  <2>2. BoxWaits(mailbox[m], PD', request')
    BY <1>1, <2>1, BoxStillWaits
  <2> QED BY <2>1, <2>2
<1>2. \A m, n \in DOMAIN mailbox' : m # n => Waits(mailbox'[m]) \cap Waits(mailbox'[n]) = {}
  <2> SUFFICES ASSUME NEW m \in DOMAIN mailbox', NEW n \in DOMAIN mailbox', m # n
               PROVE  Waits(mailbox'[m]) \cap Waits(mailbox'[n]) = {}
    OBVIOUS
  <2>1. CASE m # mb /\ n # mb
    BY <2>1 DEF WaitInv
  <2>2. CASE m = mb
    <3>1. n \in DOMAIN mailbox \ {mb} /\ mailbox'[n] = mailbox[n]
      BY <2>2
    <3> QED BY <2>2, <3>1
  <2>3. CASE n = mb
    <3>1. m \in DOMAIN mailbox \ {mb} /\ mailbox'[m] = mailbox[m]
      BY <2>3
    <3> QED BY <2>3, <3>1
  <2> QED BY <2>1, <2>2, <2>3
<1> QED BY <1>1, <1>2 DEF WaitInv

LEMMA NewBoxWaits ==
    ASSUME NEW capacity \in Nat, NEW pd, NEW args
    PROVE  BoxWaits(NewMailbox(capacity), pd, args) /\ Waits(NewMailbox(capacity)) = {}
<1>1. ToSet(<<>>) = {} /\ <<>> \in Seq(Messages)
  BY DEF ToSet
<1> QED BY <1>1, EmptyBox, NobodyWaits DEF BoxWaits, Waits

LEMMA CreatedKeepsWaitInv ==
    ASSUME MailboxInv, WaitInv, NEW capacity \in Capacities, Created(capacity)
    PROVE  WaitInv'
<1> DEFINE n == Len(mailbox) + 1
<1>1. /\ PD' = PD /\ UNCHANGED <<request, received>> /\ n \notin DOMAIN mailbox
      /\ DOMAIN mailbox' = DOMAIN mailbox \cup {n}
      /\ mailbox'[n] = NewMailbox(capacity)
      /\ \A mb \in DOMAIN mailbox : mailbox'[mb] = mailbox[mb]
  BY CreatedEffect
<1> HIDE DEF n
<1>2. BoxWaits(mailbox'[n], PD', request') /\ Waits(mailbox'[n]) = {}
  BY <1>1, NewBoxWaits, MailboxAssumption
<1>3. AllTimely'
  BY <1>1 DEF WaitInv, AllTimely
<1> QED BY <1>1, <1>2, <1>3, OneBoxChanges

LEMMA DestroyedKeepsWaitInv ==
    ASSUME MailboxInv, WaitInv, NEW mb \in ToSet(MailboxList), Destroyed(mb)
    PROVE  WaitInv'
<1>1. /\ PD' = PD /\ UNCHANGED <<request, received>>
      /\ mb \in DOMAIN mailbox /\ DOMAIN mailbox' = DOMAIN mailbox
      /\ mailbox'[mb] = NewMailbox(mailbox[mb].capacity)
      /\ \A m \in DOMAIN mailbox : m # mb => mailbox'[m] = mailbox[m]
  BY DestroyedEffect
<1>2. mailbox[mb].capacity \in Nat
  BY ListedBox DEF MailboxType
<1>3. BoxWaits(mailbox'[mb], PD', request') /\ Waits(mailbox'[mb]) = {}
  BY <1>1, <1>2, NewBoxWaits
<1>4. AllTimely'
  BY <1>1 DEF WaitInv, AllTimely
<1>5. DOMAIN mailbox' = DOMAIN mailbox \cup {mb}
  BY <1>1
<1> QED BY <1>1, <1>3, <1>4, <1>5, OneBoxChanges

\* One more in a queue, that was not in it.
LEMMA JoinedDistinct ==
    ASSUME NEW q \in Seq(Nat), Distinct(q), NEW p \in Nat, p \notin ToSet(q)
    PROVE  Distinct(Append(q, p)) /\ ToSet(Append(q, p)) = ToSet(q) \cup {p}
<1> DEFINE n == Len(q)
           r == Append(q, p)
<1>1. /\ r \in Seq(Nat) /\ Len(r) = n + 1 /\ n \in Nat /\ DOMAIN q = 1..n
      /\ r[n + 1] = p /\ \A i \in 1..n : r[i] = q[i]
  BY AppendProperties, LenProperties
<1> HIDE DEF r
<1>2. DOMAIN r = 1..(n + 1)
  BY <1>1, LenProperties
<1> HIDE DEF n
<1>3. \A i \in 1..(n + 1) : i = n + 1 \/ i \in 1..n
  BY <1>1
<1>4. \A i \in 1..n : r[i] # p
  BY <1>1 DEF ToSet
<1>5. Distinct(r)
  BY <1>1, <1>2, <1>3, <1>4 DEF Distinct
<1>6. ToSet(r) = ToSet(q) \cup {p}
  <2>1. 1..n \subseteq 1..(n + 1) /\ n + 1 \in 1..(n + 1)
    BY <1>1
  <2> QED BY <1>1, <1>2, <1>3, <2>1 DEF ToSet
<1> QED BY <1>5, <1>6 DEF r

\* The caller begins to wait.
LEMMA BlockKeepsWaitInv ==
    ASSUME MailboxInv, WaitInv, ~SelfSuspend, Timeouts \subseteq {0}, Call,
           NEW pd, Prepared(pd), NEW mb \in ToSet(MailboxList),
           NEW queue \in {"send_queue", "recv_queue"}, NEW arg, Block(mb, queue, arg, pd),
           IF queue = "send_queue" THEN arg \in Messages /\ IsFull(mailbox[mb])
                                   ELSE arg = "MAIL" /\ mailbox[mb].mails = <<>>
    PROVE  WaitInv'
<1> DEFINE c == Current_Process
           old == mailbox[mb]
           box == IF queue = "send_queue" THEN [old EXCEPT !.send_queue = Append(@, c)]
                                          ELSE [old EXCEPT !.recv_queue = Append(@, c)]
<1>1. /\ OthersAge({c})
      /\ \E a \in Process : /\ a.state = "WAIT_MAILBOX"
                            /\ a.request_timeout = pd[c].request_timeout
                            /\ Aged(a, PD'[c])
      /\ mailbox' = [mailbox EXCEPT ![mb] = box]
      /\ request' = [request EXCEPT ![c] = arg]
  <2>1. arg \in Messages \cup {"MAIL"}
    BY DEF Block
  <2>2. OthersAge({Current_Process})
    BY <2>1, BlockEffect
  <2>3. \E a \in Process : /\ a.state = "WAIT_MAILBOX"
                          /\ a.request_timeout = pd[Current_Process].request_timeout
                          /\ Aged(a, PD'[Current_Process])
    BY <2>1, BlockEffect
  <2>4. mailbox' = [mailbox EXCEPT ![mb] =
                       IF queue = "send_queue"
                       THEN [mailbox[mb] EXCEPT !.send_queue = Append(@, Current_Process)]
                       ELSE [mailbox[mb] EXCEPT !.recv_queue = Append(@, Current_Process)]]
    BY <2>1, BlockEffect
  <2>5. request' = [request EXCEPT ![c] = arg]
    BY DEF Block
  <2> QED BY <2>2, <2>3, <2>4, <2>5
<1>2. /\ c \in DOMAIN PD /\ PD[c].state = "RUNNING"
      /\ \A m \in DOMAIN mailbox : c \notin Waits(mailbox[m])
  BY CallerIsInNone DEF Call
<1>3. /\ DOMAIN pd = DOMAIN PD
      /\ \A p \in DOMAIN PD : Timely(pd[p]) /\ pd[p].state = PD[p].state
  BY PreparedTimely
<1>4. /\ mb \in DOMAIN mailbox /\ old \in MailboxType /\ BoxWaits(old, PD, request)
      /\ Waits(old) \subseteq DOMAIN PD
      /\ \A p \in Waits(old) : PD[p].state = "WAIT_MAILBOX"
  BY ListedBox, QueuedTasks DEF WaitInv
<1>5. Timely(PD'[c]) /\ PD'[c].state = "WAIT_MAILBOX"
  <2>1. PICK a \in Process : /\ a.state = "WAIT_MAILBOX" /\ Aged(a, PD'[c])
                             /\ a.request_timeout = pd[c].request_timeout
    BY <1>1
  <2>2. Timely(a)
    BY <1>2, <1>3, <2>1 DEF Timely
  <2> QED BY <2>1, <2>2, AgedWaitsAlike DEF WaitsAlike, Waiting
<1>6. /\ DOMAIN PD' = DOMAIN PD
      /\ \A p \in DOMAIN PD \ {c} :
            Timely(PD'[p]) /\ (PD[p].state = "WAIT_MAILBOX" => PD'[p].state = "WAIT_MAILBOX")
  BY <1>1, AgedWaitsAlike DEF WaitInv, AllTimely, OthersAge, WaitsAlike, Waiting
<1>7. AllTimely'
  BY <1>2, <1>5, <1>6 DEF AllTimely
<1>8. DOMAIN PD \subseteq DOMAIN request
  BY TasksHaveRequests DEF Call
<1>9. request'[c] = arg /\ \A p \in DOMAIN request : p # c => request'[p] = request[p]
  BY <1>1, <1>2, <1>8
<1>10. DOMAIN mailbox' = DOMAIN mailbox \cup {mb} /\ mailbox'[mb] = box
       /\ \A m \in DOMAIN mailbox : m # mb => mailbox'[m] = mailbox[m]
  <2>1. mailbox = [m \in DOMAIN mailbox |-> mailbox[m]]
    BY LenProperties DEF MailboxInv, BoxesOK
  <2> HIDE DEF box
  <2> QED BY <1>1, <1>4, <2>1
<1>11. \A p \in Waits(old) : PD'[p].state = "WAIT_MAILBOX" /\ request'[p] = request[p]
  BY <1>2, <1>4, <1>6, <1>8, <1>9
<1>12. BoxWaits(old, PD', request')
  BY <1>4, <1>11, BoxStillWaits
<1>13. /\ old.send_queue \in Seq(Nat) /\ old.recv_queue \in Seq(Nat) /\ c \in Nat
       /\ c \notin ToSet(old.send_queue) /\ c \notin ToSet(old.recv_queue)
  BY <1>2, <1>4, CallFacts, LenProperties DEF MailboxType, Waits, MailboxInv, Call, Inv, Table
<1>14. BoxWaits(box, PD', request') /\ Waits(box) = Waits(old) \cup {c}
  <2>1. CASE queue = "send_queue"
    <3> DEFINE q == Append(old.send_queue, c)
    <3>1. /\ box.send_queue = q /\ box.recv_queue = old.recv_queue
          /\ box.mails = old.mails /\ box.capacity = old.capacity
      BY <1>4, <2>1 DEF MailboxType
    <3>2. Distinct(q) /\ ToSet(q) = ToSet(old.send_queue) \cup {c}
      BY <1>12, <1>13, JoinedDistinct DEF BoxWaits, SendersWait
    <3> HIDE DEF q, box
    <3>3. SendersWait(q, PD', request')
      BY <1>5, <1>9, <1>12, <2>1, <3>2 DEF BoxWaits, SendersWait
    <3>4. IsFull(box)
      BY <2>1, <3>1 DEF IsFull
    <3>5. BoxWaits(box, PD', request')
      BY <1>12, <3>1, <3>3, <3>4 DEF BoxWaits
    <3> QED BY <3>1, <3>2, <3>5 DEF Waits
  <2>2. CASE queue = "recv_queue"
    <3> DEFINE q == Append(old.recv_queue, c)
    <3>1. /\ box.recv_queue = q /\ box.send_queue = old.send_queue
          /\ box.mails = old.mails /\ box.capacity = old.capacity
      BY <1>4, <2>2 DEF MailboxType
    <3>2. Distinct(q) /\ ToSet(q) = ToSet(old.recv_queue) \cup {c}
      BY <1>12, <1>13, JoinedDistinct DEF BoxWaits, ReceiversWait
    <3> HIDE DEF q, box
    <3>3. ReceiversWait(q, PD', request')
      BY <1>5, <1>9, <1>12, <2>2, <3>2 DEF BoxWaits, ReceiversWait
    <3>4. IsFull(box) <=> IsFull(old)
      BY <3>1 DEF IsFull
    <3>5. BoxWaits(box, PD', request')
      BY <1>12, <2>2, <3>1, <3>3, <3>4 DEF BoxWaits
    <3> QED BY <3>1, <3>2, <3>5 DEF Waits
  <2> QED BY <2>1, <2>2
<1> HIDE DEF box
<1>15. ASSUME NEW m \in DOMAIN mailbox \ {mb}, NEW p \in Waits(mailbox[m])
       PROVE  /\ p \notin Waits(mailbox'[mb])
              /\ PD[p].state = "WAIT_MAILBOX" =>
                    PD'[p].state = "WAIT_MAILBOX" /\ request'[p] = request[p]
  <2>1. p \in DOMAIN PD /\ p # c /\ p \notin Waits(old)
    BY <1>2, <1>4, QueuedTasks DEF WaitInv
  <2> QED BY <1>6, <1>8, <1>9, <1>10, <1>14, <2>1
<1> QED BY <1>7, <1>10, <1>14, <1>15, OneBoxChanges

\* The call serves tasks that wait for the mailbox.
LEMMA FinishKeepsWaitInv ==
    ASSUME MailboxInv, WaitInv, ~SelfSuspend, Timeouts \subseteq {0}, Call,
           NEW pd, Prepared(pd), NEW mb \in ToSet(MailboxList), NEW arg,
           NEW x, ExchangeOK(x), x.box = mailbox[mb], x.pd = pd,
           x.request = [request EXCEPT ![Current_Process] = arg],
           NEW z, Continues(x, z), Serves(x, z), BoxWaits(z.box, z.pd, z.request),
           Finish(mb, z)
    PROVE  WaitInv'
<1> DEFINE c == Current_Process
<1>1. /\ PD' = z.pd /\ mailbox' = [mailbox EXCEPT ![mb] = z.box]
      /\ request' = [z.request EXCEPT ![c] = "NULL"]
  BY DEF Finish, Return
<1>2. /\ c \in DOMAIN PD /\ PD[c].state = "RUNNING"
      /\ \A m \in DOMAIN mailbox : c \notin Waits(mailbox[m])
  BY CallerIsInNone DEF Call
<1>3. /\ DOMAIN pd = DOMAIN PD /\ pd \in Seq(Process)
      /\ \A p \in DOMAIN PD : Timely(pd[p]) /\ pd[p].state = PD[p].state
  BY PreparedTimely, PreparedFacts DEF Call
<1>4. /\ mb \in DOMAIN mailbox /\ Waits(mailbox[mb]) \subseteq DOMAIN PD
      /\ mailbox = [m \in DOMAIN mailbox |-> mailbox[m]]
  BY ListedBox, QueuedTasks, LenProperties DEF MailboxInv, BoxesOK
<1>5. DOMAIN mailbox' = DOMAIN mailbox \cup {mb} /\ mailbox'[mb] = z.box
      /\ \A m \in DOMAIN mailbox : m # mb => mailbox'[m] = mailbox[m]
  BY <1>1, <1>4
<1>6. /\ DOMAIN z.pd = DOMAIN PD /\ ExchangeOK(z)
      /\ \A p \in DOMAIN PD : z.pd[p] = pd[p] \/ (pd[p].state = "WAIT_MAILBOX"
                                                   /\ z.pd[p] = [pd[p] EXCEPT !.state = "READY"])
  BY <1>3 DEF Continues, Wakes
<1>7. AllTimely'
  <2>1. ASSUME NEW p \in DOMAIN PD PROVE Timely(z.pd[p])
    <3>1. pd[p] \in Process /\ Timely(pd[p])
      BY <1>3, ElementOfSeq, LenProperties
    <3>2. CASE z.pd[p] = pd[p]
      BY <3>1, <3>2
    <3>3. CASE pd[p].state = "WAIT_MAILBOX" /\ z.pd[p] = [pd[p] EXCEPT !.state = "READY"]
      BY <3>1, <3>3 DEF Timely, Process
    <3> QED BY <1>6, <3>2, <3>3
  <2> QED BY <1>1, <1>6, <2>1 DEF AllTimely
<1>8. DOMAIN PD \subseteq DOMAIN request /\ DOMAIN z.request = DOMAIN request
  BY <1>6, ExchangeTypes, TasksHaveRequests DEF Call
<1>9. Waits(z.box) \subseteq Waits(mailbox[mb]) /\ c \notin Waits(z.box)
  BY <1>2, <1>4 DEF Serves
<1>10. \A p \in DOMAIN request : p # c => request'[p] = z.request[p]
  BY <1>1, <1>8
<1>11. BoxWaits(z.box, PD', request')
  <2>1. ASSUME NEW p \in Waits(z.box) PROVE PD'[p] = z.pd[p] /\ request'[p] = z.request[p]
    BY <1>1, <1>4, <1>8, <1>9, <1>10
  <2> QED BY <2>1, BoxStillWaits
<1>12. ASSUME NEW m \in DOMAIN mailbox \ {mb}, NEW p \in Waits(mailbox[m])
       PROVE  /\ p \notin Waits(mailbox'[mb])
              /\ PD[p].state = "WAIT_MAILBOX" =>
                    PD'[p].state = "WAIT_MAILBOX" /\ request'[p] = request[p]
  <2>1. p \in DOMAIN PD /\ p # c /\ p \notin Waits(mailbox[mb])
    BY <1>2, <1>4, QueuedTasks DEF WaitInv
  <2>2. z.pd[p] = pd[p] /\ z.request[p] = x.request[p]
    BY <1>3, <2>1 DEF Serves
  <2>3. x.request[p] = request[p] /\ request'[p] = z.request[p]
    BY <1>8, <1>10, <2>1
  <2> QED BY <1>1, <1>3, <1>5, <1>9, <2>1, <2>2, <2>3
<1> QED BY <1>5, <1>7, <1>11, <1>12, OneBoxChanges

\* The exchange starts with a mailbox in order, and the caller in no queue.
LEMMA ExchangeWaits ==
    ASSUME MailboxInv, WaitInv, ~SelfSuspend, Timeouts \subseteq {0}, Call,
           NEW pd, Prepared(pd), NEW mb \in ToSet(MailboxList),
           NEW arg \in Messages \cup {"MAIL"}, NEW noRoom \in Shortages(mb)
    PROVE  LET x == Exchange(mb, arg, pd, noRoom)
           IN /\ ExchangeOK(x) /\ Current_Process \in DOMAIN x.pd
              /\ x.box = mailbox[mb] /\ x.pd = pd
              /\ x.request = [request EXCEPT ![Current_Process] = arg]
              /\ x.request[Current_Process] = arg
              /\ BoxWaits(x.box, x.pd, x.request)
<1> DEFINE c == Current_Process
           x == Exchange(mb, arg, pd, noRoom)
<1>1. ExchangeOK(x) /\ c \in 1..MaxPid
  BY ExchangeStarts DEF Call
<1>2. x.box = mailbox[mb] /\ x.pd = pd /\ x.request = [request EXCEPT ![c] = arg]
  BY DEF Exchange
<1> HIDE DEF x
<1>3. /\ c \in DOMAIN PD /\ \A m \in DOMAIN mailbox : c \notin Waits(mailbox[m])
      /\ DOMAIN pd = DOMAIN PD /\ \A p \in DOMAIN PD : pd[p].state = PD[p].state
  BY CallerIsInNone, PreparedTimely DEF Call
<1>4. mb \in DOMAIN mailbox /\ BoxWaits(mailbox[mb], PD, request) /\ Waits(mailbox[mb]) \subseteq DOMAIN PD
  BY ListedBox, QueuedTasks DEF WaitInv
<1>5. DOMAIN request = 1..MaxPid
  BY DEF MailboxInv, ArgumentsOK
<1>6. x.request[c] = arg
  BY <1>1, <1>2, <1>5
<1>7. \A p \in Waits(mailbox[mb]) : p \in 1..MaxPid
  BY <1>1, <1>2, <1>3, <1>4, ExchangeTypes
<1>8. ASSUME NEW p \in Waits(mailbox[mb])
      PROVE  pd[p].state = PD[p].state /\ x.request[p] = request[p]
  BY <1>2, <1>3, <1>4, <1>5, <1>7
<1>9. BoxWaits(x.box, x.pd, x.request)
  <2>1. BoxWaits(mailbox[mb], pd, x.request)
    BY <1>4, <1>8, BoxStillWaits
  <2> QED BY <1>2, <2>1
<1> QED BY <1>1, <1>2, <1>3, <1>6, <1>9 DEF x

LEMMA StoredKeepsWaitInv ==
    ASSUME MailboxInv, WaitInv, ~SelfSuspend, Timeouts \subseteq {0},
           NEW pd, Prepared(pd), NEW mb \in ToSet(MailboxList),
           NEW noRoom \in Shortages(mb), NEW msg \in Messages, Stored(mb, msg, pd, noRoom)
    PROVE  WaitInv'
<1> DEFINE c == Current_Process
           x == Exchange(mb, msg, pd, noRoom)
           z == Store(x, c, ServeAll)
<1>1. /\ ExchangeOK(x) /\ c \in DOMAIN x.pd /\ x.box = mailbox[mb] /\ x.pd = pd
      /\ x.request = [request EXCEPT ![c] = msg] /\ x.request[c] = msg
      /\ BoxWaits(x.box, x.pd, x.request)
  BY ExchangeWaits DEF Stored
<1>2. ~IsFull(x.box) /\ Finish(mb, z) /\ Call
  BY <1>1 DEF Stored
<1> HIDE DEF x
<1>3. Continues(x, z)
  BY <1>1, <1>2, ServeAllSound, StoreContinues
<1>4. BoxWaits(z.box, z.pd, z.request) /\ Serves(x, z)
  BY <1>1, <1>2, StoreEffect, StoreKeepsWaits
<1> HIDE DEF z
<1> QED BY <1>1, <1>2, <1>3, <1>4, FinishKeepsWaitInv

LEMMA FetchedKeepsWaitInv ==
    ASSUME MailboxInv, WaitInv, ~SelfSuspend, Timeouts \subseteq {0},
           NEW pd, Prepared(pd), NEW mb \in ToSet(MailboxList),
           NEW noRoom \in Shortages(mb), Fetched(mb, pd, noRoom)
    PROVE  WaitInv'
<1> DEFINE c == Current_Process
           x == Exchange(mb, "MAIL", pd, noRoom)
           z == Fetch(x, c, ServeAll)
<1>1. /\ ExchangeOK(x) /\ c \in DOMAIN x.pd /\ x.box = mailbox[mb] /\ x.pd = pd
      /\ x.request = [request EXCEPT ![c] = "MAIL"] /\ x.request[c] = "MAIL"
      /\ BoxWaits(x.box, x.pd, x.request)
  BY ExchangeWaits DEF Fetched
<1>2. x.box.mails # <<>> /\ Finish(mb, z) /\ Call
  BY <1>1 DEF Fetched
<1> HIDE DEF x
<1>3. Continues(x, z)
  BY <1>1, <1>2, ServeAllSound, FetchContinues
<1>4. BoxWaits(z.box, z.pd, z.request)
  BY <1>1, <1>2, FetchKeepsWaits
<1>5. Serves(x, z)
  BY <1>1, <1>2, FetchEffect
<1> HIDE DEF z
<1> QED BY <1>1, <1>2, <1>3, <1>4, <1>5, FinishKeepsWaitInv

\* Every step keeps the queues in order.
LEMMA StepKeepsWaitInv ==
    ASSUME ~SelfSuspend, FreshTimeouts \subseteq {0}, Timeouts \subseteq {0},
           MailboxInv, WaitInv, [MailboxNext]_allVars
    PROVE  WaitInv'
<1>0. Outcome
  BY StepOutcome DEF MailboxInv, Inv, VarTypes
<1>1. CASE [Next]_vars /\ UNCHANGED mailboxVars
  <2>1. Inv /\ Fates
    BY <1>1, NextFates DEF MailboxInv
  <2>2. AllTimely' /\ \A p \in DOMAIN PD : WaitsAlike(PD[p], PD'[p])
    BY <2>1, FatesWaitAlike DEF WaitInv
  <2>3. \A mb \in DOMAIN mailbox : Waits(mailbox[mb]) \subseteq DOMAIN PD
    BY QueuedTasks
  <2> QED BY <1>1, <2>2, <2>3, SameBoxes DEF mailboxVars, WaitsAlike, Waiting
<1>2. CASE Refused
  BY <1>2, RefusedKeepsWaitInv
<1>3. CASE Stopped
  <2>1. PD' = PD /\ mailbox' = mailbox /\ request' = request
    BY <1>3 DEF Stopped, mailboxVars
  <2> QED BY <2>1 DEF WaitInv, AllTimely
<1>4. CASE Dropped
  <2>1. PD' = PD /\ mailbox' = mailbox /\ request' = request
    BY <1>4, DroppedEffect
  <2> QED BY <2>1 DEF WaitInv, AllTimely
<1>5. ASSUME NEW capacity \in Capacities, Created(capacity) PROVE WaitInv'
  BY <1>5, CreatedKeepsWaitInv
<1>6. ASSUME NEW mb \in ToSet(MailboxList), Destroyed(mb) PROVE WaitInv'
  BY <1>6, DestroyedKeepsWaitInv
<1>7. ASSUME NEW mb \in ToSet(MailboxList), NEW pd, Prepared(pd), NEW msg \in Messages,
             SendBlocked(mb, msg, pd)
      PROVE  WaitInv'
  BY <1>7, BlockKeepsWaitInv DEF SendBlocked
<1>8. ASSUME NEW mb \in ToSet(MailboxList), NEW pd, Prepared(pd), RecvBlocked(mb, pd)
      PROVE  WaitInv'
  BY <1>8, BlockKeepsWaitInv DEF RecvBlocked
<1>9. ASSUME NEW mb \in ToSet(MailboxList), NEW pd, Prepared(pd), Missed(mb, pd)
      PROVE  WaitInv'
  BY <1>9, MissedKeepsWaitInv
<1>10. ASSUME NEW mb \in ToSet(MailboxList), NEW pd, Prepared(pd),
              NEW noRoom \in Shortages(mb), Fetched(mb, pd, noRoom)
       PROVE  WaitInv'
  BY <1>10, FetchedKeepsWaitInv
<1>11. ASSUME NEW mb \in ToSet(MailboxList), NEW pd, Prepared(pd),
              NEW noRoom \in Shortages(mb), NEW msg \in Messages, Stored(mb, msg, pd, noRoom)
       PROVE  WaitInv'
  BY <1>11, StoredKeepsWaitInv
<1> QED BY <1>0, <1>1, <1>2, <1>3, <1>4, <1>5, <1>6, <1>7, <1>8, <1>9, <1>10, <1>11 DEF Outcome

LEMMA WaitInitEstablishes == MailboxInit => WaitInv
  BY DEF MailboxInit, Init, WaitInv, AllTimely

\* A task in two queues would wait for two things.
LEMMA WaitersAreQueuedOnce ==
    ASSUME MailboxInv, WaitInv
    PROVE  CallersWait
<1>1. ASSUME NEW mb \in DOMAIN mailbox
      PROVE  /\ SendersWait(mailbox[mb].send_queue, PD, request)
             /\ ReceiversWait(mailbox[mb].recv_queue, PD, request)
  BY DEF WaitInv, BoxWaits
<1>2. ASSUME NEW p, NEW v \in Queued(p), NEW w \in Queued(p) PROVE v = w
  <2>1. PICK m \in DOMAIN mailbox, q \in {"send_queue", "recv_queue"} :
            v = <<m, q>> /\ p \in ToSet(mailbox[m][q])
    BY DEF Queued
  <2>2. PICK n \in DOMAIN mailbox, r \in {"send_queue", "recv_queue"} :
            w = <<n, r>> /\ p \in ToSet(mailbox[n][r])
    BY DEF Queued
  <2>3. m = n
    BY <2>1, <2>2 DEF WaitInv, Waits
  <2>4. q = r
    <3>1. ~(p \in ToSet(mailbox[m].send_queue) /\ p \in ToSet(mailbox[m].recv_queue))
      BY <1>1, MailboxAssumption DEF SendersWait, ReceiversWait
    <3> QED BY <2>1, <2>2, <2>3, <3>1
  <2> QED BY <2>1, <2>2, <2>3, <2>4
<1>3. ASSUME NEW p, NEW w \in Queued(p)
      PROVE  /\ PD[p].state = "WAIT_MAILBOX"
             /\ IF w[2] = "recv_queue" THEN request[p] = "MAIL" ELSE request[p] \in Messages
  <2>1. PICK m \in DOMAIN mailbox, q \in {"send_queue", "recv_queue"} :
            w = <<m, q>> /\ p \in ToSet(mailbox[m][q])
    BY DEF Queued
  <2>2. CASE q = "send_queue"
    BY <1>1, <2>1, <2>2 DEF SendersWait
  <2>3. CASE q = "recv_queue"
    BY <1>1, <2>1, <2>3 DEF ReceiversWait
  <2> QED BY <2>2, <2>3
<1>4. \A mb \in DOMAIN mailbox : \A q \in {mailbox[mb].send_queue, mailbox[mb].recv_queue} :
          \A i, j \in DOMAIN q : q[i] = q[j] => i = j
  BY <1>1 DEF SendersWait, ReceiversWait, Distinct
<1> QED BY <1>2, <1>3, <1>4 DEF CallersWait

LEMMA WaitersWaitForRoom ==
    ASSUME MailboxInv, WaitInv
    PROVE  NobodyWaitsInVain
<1> SUFFICES ASSUME NEW mb \in DOMAIN mailbox, NEW p
             PROVE  /\ p \in ToSet(mailbox[mb].send_queue) =>
                          Len(mailbox[mb].mails) = mailbox[mb].capacity
                    /\ p \in ToSet(mailbox[mb].recv_queue) => mailbox[mb].mails = <<>>
  BY DEF NobodyWaitsInVain
<1> DEFINE box == mailbox[mb]
<1>1. BoxWaits(box, PD, request) /\ BoxOK(box, DOMAIN PD)
  BY DEF WaitInv, MailboxInv, BoxesOK
<1> HIDE DEF box
<1>2. Len(box.mails) \in Nat /\ box.capacity \in Nat /\ Len(box.mails) <= box.capacity
  BY <1>1, LenProperties DEF BoxOK, MailboxType
<1>3. ToSet(<<>>) = {}
  BY DEF ToSet
<1>4. IsFull(box) => Len(box.mails) = box.capacity
  BY <1>2 DEF IsFull
<1>5. /\ p \in ToSet(box.send_queue) => Len(box.mails) = box.capacity
      /\ p \in ToSet(box.recv_queue) => box.mails = <<>>
  BY <1>1, <1>3, <1>4 DEF BoxWaits
<1> QED BY <1>5 DEF box

-----------------------------------------------------------------------------
(* The theorems.                                                           *)

\* The mailboxes of the code never store more mails than their capacity, however
\* deep the two functions that finish calls get.
THEOREM MailboxTypeCorrect == MailboxSpec => []MailboxTypeOK
<1>1. MailboxInv /\ [MailboxNext]_allVars => MailboxInv'
  BY StepKeepsMailboxInv
<1> QED BY <1>1, MailboxInitEstablishes, MailboxInvImplies, PTL DEF MailboxSpec

\* The calls on mailboxes keep what the scheduler relies on.
THEOREM MailboxKeepsScheduler == MailboxSpec => [](AtMostOneRunning /\ ListIsLive)
<1>1. MailboxInv /\ [MailboxNext]_allVars => MailboxInv'
  BY StepKeepsMailboxInv
<1>2. MailboxInv => AtMostOneRunning /\ ListIsLive
  BY InvImplies DEF MailboxInv
<1> QED BY <1>1, <1>2, MailboxInitEstablishes, PTL DEF MailboxSpec

\* While no call has a time limit, a task in a queue is in the call that put it
\* there, and in one queue, once.
THEOREM MailboxCallersWait ==
    ASSUME ~SelfSuspend, FreshTimeouts \subseteq {0}, Timeouts \subseteq {0}
    PROVE  MailboxSpec => []CallersWait
<1>1. MailboxInit => MailboxInv /\ WaitInv
  BY MailboxInitEstablishes, WaitInitEstablishes
<1>2. MailboxInv /\ WaitInv /\ [MailboxNext]_allVars => (MailboxInv /\ WaitInv)'
  BY StepKeepsMailboxInv, StepKeepsWaitInv
<1>3. MailboxInv /\ WaitInv => CallersWait
  BY WaitersAreQueuedOnce
<1> QED BY <1>1, <1>2, <1>3, PTL DEF MailboxSpec

\* Nor does a task wait to send when there is room, or to receive when there is
\* a mail.
THEOREM NoWaitInVain ==
    ASSUME ~SelfSuspend, FreshTimeouts \subseteq {0}, Timeouts \subseteq {0}
    PROVE  MailboxSpec => []NobodyWaitsInVain
<1>1. MailboxInit => MailboxInv /\ WaitInv
  BY MailboxInitEstablishes, WaitInitEstablishes
<1>2. MailboxInv /\ WaitInv /\ [MailboxNext]_allVars => (MailboxInv /\ WaitInv)'
  BY StepKeepsMailboxInv, StepKeepsWaitInv
<1>3. MailboxInv /\ WaitInv => NobodyWaitsInVain
  BY WaitersWaitForRoom
<1> QED BY <1>1, <1>2, <1>3, PTL DEF MailboxSpec

-----------------------------------------------------------------------------
(* Each mailbox is a channel.                                              *)

\* The messages of the senders that wait.
Offered(box, args) == [i \in DOMAIN box.send_queue |-> args[box.send_queue[i]]]

\* What is in the channel of mailbox n, and what is on offer, stays the same.
Quiet(n) == Box(n)' = Box(n) /\ Offered(Box(n)', request') = Offered(Box(n), request)

Step(n) == [Channel(n)!ChannelNext]_(Channel(n)!channelVars)

LEMMA QuietStep ==
    ASSUME NEW n, Quiet(n),
           \/ received' = received
           \/ \E t \in 1..MaxPid : received' = [received EXCEPT ![t] = "NULL"]
           \/ MaxMailboxID > 1 /\ \E t \in 1..MaxPid, m \in Messages : received' = [received EXCEPT ![t] = m]
    PROVE  Step(n)
<1>1. CASE received' = received
  BY <1>1 DEF Quiet, Offered, Step, Channel!channelVars
<1>2. CASE \E t \in 1..MaxPid : received' = [received EXCEPT ![t] = "NULL"]
  <2>1. PICK t \in 1..MaxPid : received' = [received EXCEPT ![t] = "NULL"]
    BY <1>2
  <2>2. Channel(n)!Clear(t)
    BY <2>1 DEF Quiet, Offered, Channel!Clear
  <2> QED BY <2>2 DEF Step, Channel!ChannelNext
<1>3. CASE MaxMailboxID > 1 /\ \E t \in 1..MaxPid, m \in Messages : received' = [received EXCEPT ![t] = m]
  <2>1. PICK t \in 1..MaxPid, m \in Messages : received' = [received EXCEPT ![t] = m]
    BY <1>3
  <2>2. Channel(n)!Elsewhere(t)
    BY <1>3, <2>1 DEF Quiet, Offered, Channel!Elsewhere
  <2> QED BY <2>2 DEF Step, Channel!ChannelNext
<1> QED BY <1>1, <1>2, <1>3

LEMMA OpenStep ==
    ASSUME NEW n, Box(n) = NewMailbox(0), NEW c \in Nat, Box(n)' = NewMailbox(c), received' = received
    PROVE  Step(n)
<1>1. Channel(n)!Open
  BY DEF NewMailbox, Channel!Open
<1> QED BY <1>1 DEF Step, Channel!ChannelNext

LEMMA CloseStep ==
    ASSUME NEW n, NEW c, Box(n).capacity = c, Box(n)' = NewMailbox(c), received' = received
    PROVE  Step(n)
<1>1. Channel(n)!Close
  <2>1. [i \in DOMAIN <<>> |-> request'[<<>>[i]]] = <<>>
    OBVIOUS
  <2> QED BY <2>1 DEF NewMailbox, Channel!Close
<1> QED BY <1>1 DEF Step, Channel!ChannelNext

\* One more at the end.
Joined(s2, s, e) == s2 = Append(s, e)

\* A message is put into the channel: stored, handed over, or offered.  Here b
\* and b2 are the mailbox before and after a step.
LEMMA PutStep ==
    ASSUME NEW n, NEW b, NEW b2, Box(n) = b, Box(n)' = b2, b2.capacity = b.capacity,
           b.capacity > 0, NEW m \in Messages, b.recv_queue = <<>>, b2.recv_queue = <<>>,
           Len(b.mails) < b.capacity, Joined(b2.mails, b.mails, m),
           Offered(b2, request') = Offered(b, request), received' = received
    PROVE  Step(n)
<1>1. Channel(n)!Put(m)
  BY DEF Offered, Joined, Channel!Put
<1> QED BY <1>1 DEF Step, Channel!ChannelNext

LEMMA HandStep ==
    ASSUME NEW n, NEW b, NEW b2, Box(n) = b, Box(n)' = b2, b2.capacity = b.capacity,
           b.capacity > 0, NEW m \in Messages, b.recv_queue # <<>>,
           received' = [received EXCEPT ![Head(b.recv_queue)] = m],
           b2.recv_queue = Tail(b.recv_queue), b2.mails = b.mails,
           Offered(b2, request') = Offered(b, request)
    PROVE  Step(n)
<1>1. Channel(n)!Put(m)
  BY DEF Offered, Channel!Put
<1> QED BY <1>1 DEF Step, Channel!ChannelNext

LEMMA OfferStep ==
    ASSUME NEW n, NEW b, NEW b2, Box(n) = b, Box(n)' = b2, b2.capacity = b.capacity,
           b.capacity > 0, NEW m \in Messages, b.recv_queue = <<>>, b2.recv_queue = <<>>,
           Len(b.mails) = b.capacity, b2.mails = b.mails,
           Joined(Offered(b2, request'), Offered(b, request), m), received' = received
    PROVE  Step(n)
<1>1. Channel(n)!Put(m)
  BY DEF Offered, Joined, Channel!Put
<1> QED BY <1>1 DEF Step, Channel!ChannelNext

LEMMA AwaitStep ==
    ASSUME NEW n, NEW b, NEW b2, Box(n) = b, Box(n)' = b2, b2.capacity = b.capacity,
           NEW t \in 1..MaxPid, b.mails = <<>>, b2.mails = b.mails,
           b2.recv_queue = Append(b.recv_queue, t),
           Offered(b2, request') = Offered(b, request), received' = received
    PROVE  Step(n)
<1>1. Channel(n)!Await(t)
  BY DEF Offered, Channel!Await
<1> QED BY <1>1 DEF Step, Channel!ChannelNext

\* The first mail is taken: all the messages on offer are lost, or one moves up.
LEMMA TakeAloneStep ==
    ASSUME NEW n, NEW b, NEW b2, Box(n) = b, Box(n)' = b2, b2.capacity = b.capacity,
           NEW t \in 1..MaxPid, b.mails # <<>>, b2.recv_queue = b.recv_queue,
           received' = [received EXCEPT ![t] = Head(b.mails)],
           NEW lost \in 0..Len(Offered(b, request)), lost > 0 => MallocMayFail,
           After(Offered(b, request), lost) = <<>>,
           b2.mails = Tail(b.mails), Offered(b2, request') = <<>>
    PROVE  Step(n)
<1>1. Channel(n)!Take(t)
  BY DEF Offered, After, Channel!Take
<1> QED BY <1>1 DEF Step, Channel!ChannelNext

LEMMA TakeStep ==
    ASSUME NEW n, NEW b, NEW b2, Box(n) = b, Box(n)' = b2, b2.capacity = b.capacity,
           NEW t \in 1..MaxPid, b.mails # <<>>, b2.recv_queue = b.recv_queue,
           received' = [received EXCEPT ![t] = Head(b.mails)],
           NEW lost \in 0..Len(Offered(b, request)), lost > 0 => MallocMayFail,
           NEW left, After(Offered(b, request), lost) = left, left # <<>>,
           Joined(b2.mails, Tail(b.mails), Head(left)), Offered(b2, request') = Tail(left)
    PROVE  Step(n)
<1>1. Channel(n)!Take(t)
  BY DEF Offered, After, Joined, Channel!Take
<1> QED BY <1>1 DEF Step, Channel!ChannelNext

\* What is on offer follows the queue of senders.
LEMMA OfferedSame ==
    ASSUME NEW b, NEW args, NEW b2, NEW args2, b2.send_queue = b.send_queue,
           \A p \in ToSet(b.send_queue) : args2[p] = args[p]
    PROVE  Offered(b2, args2) = Offered(b, args)
  BY DEF Offered, ToSet

\* The arguments of the tasks in a queue are messages; they are the same.
MessagesIn(q, args)     == \A r \in ToSet(q) : args[r] \in Messages
Agree(q, args, args2)   == \A r \in ToSet(q) : args2[r] = args[r]

LEMMA OfferedTypes ==
    ASSUME NEW b, NEW args, b.send_queue \in Seq(Nat),
           MessagesIn(b.send_queue, args)
    PROVE  /\ Offered(b, args) \in Seq(Messages) /\ Len(Offered(b, args)) = Len(b.send_queue)
           /\ \A i \in 1..Len(b.send_queue) : Offered(b, args)[i] = args[b.send_queue[i]]
<1> DEFINE q == b.send_queue
           n == Len(q)
           o == [i \in 1..n |-> args[q[i]]]
<1>1. q \in Seq(Nat) /\ n \in Nat /\ DOMAIN q = 1..n
  BY LenProperties
<1>2. Offered(b, args) = o
  BY <1>1 DEF Offered
<1>3. o \in [1..n -> Messages]
  BY <1>1 DEF MessagesIn, ToSet
<1>4. \A i \in 1..n : o[i] = args[q[i]]
  OBVIOUS
<1> HIDE DEF o, n
<1>5. o \in Seq(Messages) /\ Len(o) = n
  BY <1>1, <1>3, SegmentIsSeq, LenProperties
<1> QED BY <1>2, <1>4, <1>5 DEF n

LEMMA OfferedAppend ==
    ASSUME NEW b, NEW args, b.send_queue \in Seq(Nat),
           MessagesIn(b.send_queue, args),
           NEW b2, NEW args2, NEW p \in Nat, Joined(b2.send_queue, b.send_queue, p),
           MessagesIn(b2.send_queue, args2),
           Agree(b.send_queue, args, args2)
    PROVE  Joined(Offered(b2, args2), Offered(b, args), args2[p])
<1> DEFINE q == b.send_queue
           n == Len(q)
           o == Offered(b, args)
           o2 == Offered(b2, args2)
           m == args2[p]
<1>1. q \in Seq(Nat) /\ n \in Nat /\ DOMAIN q = 1..n
  BY LenProperties
<1>2. /\ b2.send_queue \in Seq(Nat) /\ Len(b2.send_queue) = n + 1 /\ b2.send_queue[n + 1] = p
      /\ \A i \in 1..n : b2.send_queue[i] = q[i]
  BY <1>1, AppendProperties DEF Joined
<1>3. o \in Seq(Messages) /\ Len(o) = n /\ \A i \in 1..n : o[i] = args[q[i]]
  BY OfferedTypes
<1>4. /\ o2 \in Seq(Messages) /\ Len(o2) = n + 1
      /\ \A i \in 1..(n + 1) : o2[i] = args2[b2.send_queue[i]]
  <2>1. /\ o2 \in Seq(Messages) /\ Len(o2) = Len(b2.send_queue)
        /\ \A i \in 1..Len(b2.send_queue) : o2[i] = args2[b2.send_queue[i]]
    BY <1>2, OfferedTypes
  <2> HIDE DEF n, o2
  <2> QED BY <1>2, <2>1
<1>5. n + 1 \in 1..(n + 1) /\ \A i \in 1..n : i \in 1..(n + 1)
  BY <1>1
<1>6. m \in Messages
  <2>1. n + 1 \in DOMAIN b2.send_queue
    BY <1>2, <1>5, LenProperties
  <2>2. p \in ToSet(b2.send_queue)
    BY <1>2, <2>1 DEF ToSet
  <2> QED BY <2>2 DEF MessagesIn
<1>7. \A i \in 1..n : args2[q[i]] = args[q[i]]
  BY <1>1 DEF Agree, ToSet
<1> HIDE DEF n, o, o2
<1>8. o2[n + 1] = m /\ \A i \in 1..n : o2[i] = o[i]
  <2>1. o2[n + 1] = m
    BY <1>2, <1>4, <1>5
  <2>2. ASSUME NEW i \in 1..n PROVE o2[i] = o[i]
    <3>1. i \in 1..(n + 1)
      BY <1>5
    <3>2. o2[i] = args2[b2.send_queue[i]] /\ b2.send_queue[i] = q[i]
      BY <1>2, <1>4, <3>1
    <3> QED BY <1>3, <1>7, <3>2
  <2> QED BY <2>1, <2>2
<1> HIDE DEF m
<1>9. /\ Append(o, m) \in Seq(Messages) /\ Len(Append(o, m)) = n + 1
      /\ Append(o, m)[n + 1] = m /\ \A i \in 1..n : Append(o, m)[i] = o[i]
  BY <1>3, <1>6, AppendProperties
<1>10. \A i \in 1..(n + 1) : i = n + 1 \/ i \in 1..n
  BY <1>1
<1>11. \A i \in 1..Len(o2) : o2[i] = Append(o, m)[i]
  BY <1>4, <1>8, <1>9, <1>10
<1>12. o2 = Append(o, m)
  BY <1>4, <1>9, <1>11, SeqEqual
<1> QED BY <1>12 DEF o, o2, m, Joined

LEMMA OfferedAfter ==
    ASSUME NEW b, NEW args, b.send_queue \in Seq(Nat),
           MessagesIn(b.send_queue, args),
           NEW k \in 0..Len(b.send_queue),
           NEW b2, NEW args2, b2.send_queue = After(b.send_queue, k),
           MessagesIn(b2.send_queue, args2),
           Agree(b2.send_queue, args, args2)
    PROVE  Offered(b2, args2) = After(Offered(b, args), k)
<1> DEFINE q == b.send_queue
           q2 == b2.send_queue
           n == Len(q)
           o == Offered(b, args)
           o2 == Offered(b2, args2)
<1>1. q \in Seq(Nat) /\ n \in Nat /\ k \in 0..n
  BY LenProperties
<1>2. /\ q2 \in Seq(Nat) /\ Len(q2) = n - k
      /\ \A i \in 1..(n - k) : q2[i] = q[k + i]
  BY <1>1, AfterFacts
<1>3. o \in Seq(Messages) /\ Len(o) = n /\ \A i \in 1..n : o[i] = args[q[i]]
  BY OfferedTypes
<1>4. /\ o2 \in Seq(Messages) /\ Len(o2) = n - k
      /\ \A i \in 1..(n - k) : o2[i] = args2[q2[i]]
  <2>1. /\ o2 \in Seq(Messages) /\ Len(o2) = Len(b2.send_queue)
        /\ \A i \in 1..Len(b2.send_queue) : o2[i] = args2[b2.send_queue[i]]
    BY <1>2, OfferedTypes
  <2> HIDE DEF n, o2
  <2> QED BY <1>2, <2>1
<1>5. \A i \in 1..(n - k) : k + i \in 1..n
  BY <1>1
<1>6. \A i \in 1..(n - k) : args2[q2[i]] = args[q2[i]]
  <2>1. DOMAIN q2 = 1..(n - k)
    BY <1>2, LenProperties
  <2> QED BY <2>1 DEF Agree, ToSet
<1> DEFINE a == After(o, k)
<1> HIDE DEF n, o, o2
<1>7. a \in Seq(Messages) /\ Len(a) = n - k /\ \A i \in 1..(n - k) : a[i] = o[k + i]
  <2>1. k \in 0..Len(o) /\ o \in Seq(Messages)
    BY <1>1, <1>3
  <2>2. /\ a \in Seq(Messages) /\ Len(a) = Len(o) - k
        /\ \A i \in 1..(Len(o) - k) : a[i] = o[k + i]
    BY <2>1, AfterFacts
  <2> HIDE DEF a
  <2> QED BY <1>3, <2>2
<1> HIDE DEF a, q, q2
<1>8. ASSUME NEW i \in 1..(n - k) PROVE o2[i] = a[i]
  <2>1. o2[i] = args2[q2[i]] /\ args2[q2[i]] = args[q2[i]] /\ q2[i] = q[k + i]
    BY <1>2, <1>4, <1>6
  <2>2. k + i \in 1..n /\ a[i] = o[k + i]
    BY <1>5, <1>7
  <2>3. o[k + i] = args[q[k + i]]
    BY <1>3, <2>2
  <2> QED BY <2>1, <2>2, <2>3
<1>9. o2 = a
  BY <1>4, <1>7, <1>8, SeqEqual
<1> QED BY <1>9 DEF o, o2, a

\* The last one to leave a queue is the first one of those left before.
LEMMA LastToLeave ==
    ASSUME NEW S, NEW o \in Seq(S), NEW k \in 0..Len(o), k # 0
    PROVE  LET left == After(o, k - 1)
           IN /\ k - 1 \in 0..Len(o) /\ left # <<>>
              /\ Head(left) = o[k] /\ Tail(left) = After(o, k)
<1> DEFINE n == Len(o)
           left == After(o, k - 1)
           t == Tail(left)
           a == After(o, k)
<1>1. n \in Nat /\ k \in 1..n /\ k - 1 \in 0..n /\ k \in 0..n
  BY LenProperties
<1>2. /\ left \in Seq(S) /\ Len(left) = n - (k - 1)
      /\ \A i \in 1..(n - (k - 1)) : left[i] = o[(k - 1) + i]
  BY <1>1, AfterFacts
<1>3. a \in Seq(S) /\ Len(a) = n - k /\ \A i \in 1..(n - k) : a[i] = o[k + i]
  BY <1>1, AfterFacts
<1> HIDE DEF n, left, a
<1>4. /\ n - (k - 1) # 0 /\ 1 \in 1..(n - (k - 1)) /\ (k - 1) + 1 = k
      /\ (n - (k - 1)) - 1 = n - k
      /\ \A i \in 1..(n - k) : i + 1 \in 1..(n - (k - 1)) /\ (k - 1) + (i + 1) = k + i
  BY <1>1
<1>5. left # <<>>
  BY <1>2, <1>4, EmptySeq
<1>6. Head(left) = o[k]
  <2>1. Head(left) = left[1]
    BY <1>2, <1>5, HeadTailProperties
  <2> QED BY <1>2, <1>4, <2>1
<1>7. t \in Seq(S) /\ Len(t) = n - k /\ \A i \in 1..(n - k) : t[i] = left[i + 1]
  BY <1>2, <1>4, <1>5, DequeueFacts
<1> HIDE DEF t
<1>8. ASSUME NEW i \in 1..(n - k) PROVE t[i] = a[i]
  <2>1. i + 1 \in 1..(n - (k - 1)) /\ (k - 1) + (i + 1) = k + i
    BY <1>4
  <2>2. left[i + 1] = o[(k - 1) + (i + 1)]
    BY <1>2, <2>1
  <2>3. t[i] = left[i + 1] /\ a[i] = o[k + i]
    BY <1>3, <1>7
  <2> QED BY <2>1, <2>2, <2>3
<1>9. t = a
  BY <1>3, <1>7, <1>8, SeqEqual
<1> QED BY <1>1, <1>5, <1>6, <1>9 DEF n, left, t, a

\* What the channels rely on: every mailbox can hold a mail.
ChannelInv ==
    /\ MailboxInv /\ WaitInv
    /\ \A mb \in DOMAIN mailbox : mailbox[mb].capacity # 0

LEMMA BoxExists ==
    ASSUME ChannelInv, NEW mb \in DOMAIN mailbox
    PROVE  /\ Box(mb) = mailbox[mb] /\ mailbox[mb] \in MailboxType
           /\ mailbox[mb].capacity \in Nat /\ mailbox[mb].capacity > 0
           /\ Len(mailbox[mb].mails) \in Nat /\ Len(mailbox[mb].mails) <= mailbox[mb].capacity
           /\ BoxWaits(mailbox[mb], PD, request)
           /\ mailbox[mb].send_queue \in Seq(Nat) /\ mailbox[mb].recv_queue \in Seq(Nat)
<1> DEFINE b == mailbox[mb]
<1>1. BoxOK(b, DOMAIN PD) /\ BoxWaits(b, PD, request) /\ b.capacity # 0 /\ Box(mb) = b
  BY DEF ChannelInv, MailboxInv, BoxesOK, WaitInv, Box
<1> HIDE DEF b
<1>2. /\ b \in MailboxType /\ b.capacity \in Nat /\ b.mails \in Seq(Contents)
      /\ b.send_queue \in Seq(Nat) /\ b.recv_queue \in Seq(Nat)
      /\ Len(b.mails) <= b.capacity
  BY <1>1 DEF BoxOK, MailboxType
<1>3. b.capacity > 0 /\ Len(b.mails) \in Nat
  BY <1>1, <1>2, LenProperties
<1> QED BY <1>1, <1>2, <1>3 DEF b

\* A mailbox that a call does not name stays as it is.
LEMMA OtherBoxQuiet ==
    ASSUME ChannelInv, ~SelfSuspend, Running, NEW mb \in DOMAIN mailbox, NEW n, n # mb,
           DOMAIN mailbox' = DOMAIN mailbox, n \in DOMAIN mailbox => mailbox'[n] = mailbox[n],
           \A p \in DOMAIN PD : p # Current_Process /\ p \notin Waits(mailbox[mb]) =>
               request'[p] = request[p]
    PROVE  Quiet(n)
<1>1. Box(n)' = Box(n)
  BY DEF Box
<1>2. ASSUME NEW p \in ToSet(Box(n).send_queue) PROVE request'[p] = request[p]
  <2>1. CASE n \in DOMAIN mailbox
    <3>1. p \in Waits(mailbox[n])
      BY <2>1 DEF Box, Waits
    <3>2. p \in DOMAIN PD /\ p # Current_Process /\ p \notin Waits(mailbox[mb])
      BY <2>1, <3>1, QueuedTasks, CallerIsInNone DEF ChannelInv, WaitInv
    <3> QED BY <3>2
  <2>2. CASE n \notin DOMAIN mailbox
    BY <2>2 DEF Box, NewMailbox, ToSet
  <2> QED BY <2>1, <2>2
<1>3. Offered(Box(n), request') = Offered(Box(n), request)
  BY <1>2, OfferedSame
<1> QED BY <1>1, <1>3 DEF Quiet

\* Another mailbox has given a task a message.
LEMMA OtherMailbox ==
    ASSUME MailboxInv, NEW mb \in DOMAIN mailbox, NEW n \in 1..MaxMailboxID, n # mb
    PROVE  MaxMailboxID > 1
<1>1. DOMAIN mailbox = 1..Len(mailbox) /\ Len(mailbox) \in Nat /\ Len(mailbox) <= MaxMailboxID
  BY LenProperties DEF MailboxInv, BoxesOK
<1> QED BY <1>1, MailboxAssumption

\* Steps in which no mailbox changes.
LEMMA SilentStep ==
    ASSUME UNCHANGED <<mailbox, request>>, NEW n,
           received' = received \/ \E t \in 1..MaxPid : received' = [received EXCEPT ![t] = "NULL"]
    PROVE  Step(n)
<1>1. Quiet(n)
  BY DEF Quiet, Box
<1> QED BY <1>1, QuietStep

LEMMA CreatedStep ==
    ASSUME MailboxInv, NEW capacity \in Capacities, Created(capacity), NEW n
    PROVE  Step(n)
<1> DEFINE m == Len(mailbox) + 1
<1>1. /\ UNCHANGED <<request, received>> /\ m \notin DOMAIN mailbox
      /\ DOMAIN mailbox' = DOMAIN mailbox \cup {m}
      /\ mailbox'[m] = NewMailbox(capacity)
      /\ \A mb \in DOMAIN mailbox : mailbox'[mb] = mailbox[mb]
  BY CreatedEffect
<1> HIDE DEF m
<1>2. CASE n = m
  <2>1. Box(n) = NewMailbox(0) /\ Box(n)' = NewMailbox(capacity)
    BY <1>1, <1>2 DEF Box
  <2> QED BY <1>1, <2>1, OpenStep, MailboxAssumption
<1>3. CASE n # m
  <2>1. Box(n)' = Box(n)
    BY <1>1, <1>3 DEF Box
  <2>2. Quiet(n)
    BY <1>1, <2>1 DEF Quiet
  <2> QED BY <1>1, <2>2, QuietStep
<1> QED BY <1>2, <1>3

LEMMA DestroyedStep ==
    ASSUME MailboxInv, NEW mb \in ToSet(MailboxList), Destroyed(mb), NEW n
    PROVE  Step(n)
<1>1. /\ UNCHANGED <<request, received>>
      /\ mb \in DOMAIN mailbox /\ DOMAIN mailbox' = DOMAIN mailbox
      /\ mailbox'[mb] = NewMailbox(mailbox[mb].capacity)
      /\ \A m \in DOMAIN mailbox : m # mb => mailbox'[m] = mailbox[m]
  BY DestroyedEffect
<1>2. CASE n = mb
  <2>1. Box(n) = mailbox[mb] /\ Box(n)' = NewMailbox(mailbox[mb].capacity)
    BY <1>1, <1>2 DEF Box
  <2> QED BY <1>1, <2>1, CloseStep
<1>3. CASE n # mb
  <2>1. Box(n)' = Box(n)
    BY <1>1, <1>3 DEF Box
  <2>2. Quiet(n)
    BY <1>1, <2>1 DEF Quiet
  <2> QED BY <1>1, <2>2, QuietStep
<1> QED BY <1>2, <1>3

\* The caller's argument is dropped, and it is nobody else's.
LEMMA MissedStep ==
    ASSUME ChannelInv, ~SelfSuspend, NEW pd, Prepared(pd), NEW mb \in ToSet(MailboxList),
           Missed(mb, pd), NEW n
    PROVE  Step(n)
<1> DEFINE c == Current_Process
<1>1. /\ UNCHANGED mailbox /\ request' = [request EXCEPT ![c] = "NULL"]
      /\ received' = [received EXCEPT ![c] = "NULL"]
  BY MissedEffect DEF ChannelInv
<1>2. /\ c \in 1..MaxPid /\ DOMAIN PD \subseteq DOMAIN request
      /\ \A m \in DOMAIN mailbox : c \notin Waits(mailbox[m])
  BY CallerIsInNone, TasksHaveRequests DEF ChannelInv, Missed, Call
<1>3. ASSUME NEW p \in ToSet(Box(n).send_queue) PROVE request'[p] = request[p]
  <2>1. CASE n \in DOMAIN mailbox
    <3>1. p \in Waits(mailbox[n])
      BY <2>1 DEF Box, Waits
    <3>2. p \in DOMAIN PD /\ p # c
      BY <1>2, <2>1, <3>1, QueuedTasks DEF ChannelInv
    <3> QED BY <1>1, <1>2, <3>2
  <2>2. CASE n \notin DOMAIN mailbox
    BY <2>2 DEF Box, NewMailbox, ToSet
  <2> QED BY <2>1, <2>2
<1>4. Box(n)' = Box(n)
  BY <1>1 DEF Box
<1>5. Offered(Box(n), request') = Offered(Box(n), request)
  BY <1>3, OfferedSame
<1>6. Quiet(n)
  BY <1>4, <1>5 DEF Quiet
<1> QED BY <1>1, <1>2, <1>6, QuietStep

\* A message is offered to a full mailbox.
LEMMA SendBlockedStep ==
    ASSUME ChannelInv, ~SelfSuspend, Timeouts \subseteq {0}, NEW pd, Prepared(pd),
           NEW mb \in ToSet(MailboxList), NEW msg \in Messages, SendBlocked(mb, msg, pd), NEW n
    PROVE  Step(n)
<1> DEFINE c == Current_Process
           b == mailbox[mb]
           b2 == [mailbox[mb] EXCEPT !.send_queue = Append(@, c)]
<1>0. MailboxInv /\ WaitInv /\ Call /\ Running /\ Block(mb, "send_queue", msg, pd) /\ IsFull(mailbox[mb])
  BY DEF ChannelInv, SendBlocked, Call
<1>1. /\ mailbox' = [mailbox EXCEPT ![mb] = b2]
      /\ request' = [request EXCEPT ![c] = msg] /\ received' = received
  <2>1. mailbox' = [mailbox EXCEPT ![mb] =
                       IF "send_queue" = "send_queue"
                       THEN [mailbox[mb] EXCEPT !.send_queue = Append(@, Current_Process)]
                       ELSE [mailbox[mb] EXCEPT !.recv_queue = Append(@, Current_Process)]]
    BY <1>0, BlockEffect
  <2>2. request' = [request EXCEPT ![c] = msg] /\ received' = received
    BY <1>0 DEF Block
  <2> QED BY <2>1, <2>2
<1>2. WaitInv'
  BY <1>0, BlockKeepsWaitInv
<1>3. /\ mb \in DOMAIN mailbox /\ b \in MailboxType /\ Box(mb) = b
      /\ b.capacity \in Nat /\ b.capacity > 0 /\ Len(b.mails) \in Nat /\ Len(b.mails) <= b.capacity
      /\ BoxWaits(b, PD, request) /\ b.send_queue \in Seq(Nat)
  BY <1>0, ListedBox, BoxExists
<1>4. /\ c \in DOMAIN PD /\ c \in Nat /\ DOMAIN PD \subseteq DOMAIN request
      /\ \A m \in DOMAIN mailbox : c \notin Waits(mailbox[m])
  BY <1>0, CallerIsInNone, TasksHaveRequests
<1>5. mailbox = [m \in DOMAIN mailbox |-> mailbox[m]]
  BY <1>0, LenProperties DEF MailboxInv, BoxesOK
<1> HIDE DEF c, b2
<1>6. /\ DOMAIN mailbox' = DOMAIN mailbox /\ mailbox'[mb] = b2
      /\ \A m \in DOMAIN mailbox : m # mb => mailbox'[m] = mailbox[m]
  BY <1>1, <1>3, <1>5
<1>7. request'[c] = msg /\ \A p \in DOMAIN PD : p # c => request'[p] = request[p]
  BY <1>1, <1>4
<1>8. CASE n # mb
  <2>1. Quiet(n)
    BY <1>0, <1>3, <1>6, <1>7, <1>8, OtherBoxQuiet DEF c
  <2> QED BY <1>1, <2>1, QuietStep
<1>9. CASE n = mb
  <2>1. /\ b2.send_queue = Append(b.send_queue, c) /\ b2.recv_queue = b.recv_queue
        /\ b2.mails = b.mails /\ b2.capacity = b.capacity
    BY <1>3 DEF MailboxType, b2
  <2>2. Box(n) = b /\ Box(n)' = b2
    BY <1>3, <1>6, <1>9 DEF Box
  <2>3. Len(b.mails) = b.capacity /\ b.recv_queue = <<>>
    <3>1. Len(b.mails) = b.capacity /\ Len(b.mails) # 0
      BY <1>0, <1>3 DEF IsFull
    <3>2. b.mails # <<>>
      BY <3>1
    <3> QED BY <1>3, <3>1, <3>2 DEF BoxWaits
  <2>4. MessagesIn(b.send_queue, request) /\ MessagesIn(b2.send_queue, request')
    BY <1>2, <1>3, <1>6 DEF WaitInv, BoxWaits, SendersWait, MessagesIn
  <2>5. Agree(b.send_queue, request, request')
    BY <1>0, <1>3, <1>4, <1>7, QueuedTasks DEF Waits, Agree
  <2>6. Joined(Offered(b2, request'), Offered(b, request), msg)
    <3> HIDE DEF b
    <3>1. b.send_queue \in Seq(Nat) /\ c \in Nat /\ b2.send_queue = Append(b.send_queue, c)
      BY <1>3, <1>4, <2>1
    <3>2. Joined(b2.send_queue, b.send_queue, c)
      BY <3>1 DEF Joined
    <3>3. Joined(Offered(b2, request'), Offered(b, request), request'[c])
      BY <2>4, <2>5, <3>1, <3>2, OfferedAppend
    <3> QED BY <1>7, <3>3
  <2> HIDE DEF b
  <2> QED BY <1>1, <1>3, <2>1, <2>2, <2>3, <2>6, OfferStep
<1> QED BY <1>8, <1>9

\* A task waits for a mail.
LEMMA RecvBlockedStep ==
    ASSUME ChannelInv, ~SelfSuspend, Timeouts \subseteq {0}, NEW pd, Prepared(pd),
           NEW mb \in ToSet(MailboxList), RecvBlocked(mb, pd), NEW n
    PROVE  Step(n)
<1> DEFINE c == Current_Process
           b == mailbox[mb]
           b2 == [mailbox[mb] EXCEPT !.recv_queue = Append(@, c)]
<1>0. MailboxInv /\ WaitInv /\ Call /\ Running /\ Block(mb, "recv_queue", "MAIL", pd) /\ b.mails = <<>>
  BY DEF ChannelInv, RecvBlocked, Call
<1>1. /\ mailbox' = [mailbox EXCEPT ![mb] = b2]
      /\ request' = [request EXCEPT ![c] = "MAIL"] /\ received' = received
  <2>1. mailbox' = [mailbox EXCEPT ![mb] =
                       IF "recv_queue" = "send_queue"
                       THEN [mailbox[mb] EXCEPT !.send_queue = Append(@, Current_Process)]
                       ELSE [mailbox[mb] EXCEPT !.recv_queue = Append(@, Current_Process)]]
    BY <1>0, BlockEffect
  <2>2. request' = [request EXCEPT ![c] = "MAIL"] /\ received' = received
    BY <1>0 DEF Block
  <2> QED BY <2>1, <2>2
<1>3. mb \in DOMAIN mailbox /\ b \in MailboxType /\ Box(mb) = b
  BY <1>0, ListedBox, BoxExists
<1>4. /\ c \in DOMAIN PD /\ c \in 1..MaxPid /\ DOMAIN PD \subseteq DOMAIN request
      /\ \A m \in DOMAIN mailbox : c \notin Waits(mailbox[m])
  BY <1>0, CallerIsInNone, TasksHaveRequests
<1>5. mailbox = [m \in DOMAIN mailbox |-> mailbox[m]]
  BY <1>0, LenProperties DEF MailboxInv, BoxesOK
<1> HIDE DEF c, b2
<1>6. /\ DOMAIN mailbox' = DOMAIN mailbox /\ mailbox'[mb] = b2
      /\ \A m \in DOMAIN mailbox : m # mb => mailbox'[m] = mailbox[m]
  BY <1>1, <1>3, <1>5
<1>7. \A p \in DOMAIN PD : p # c => request'[p] = request[p]
  BY <1>1, <1>4
<1>8. CASE n # mb
  <2>1. Quiet(n)
    BY <1>0, <1>3, <1>6, <1>7, <1>8, OtherBoxQuiet DEF c
  <2> QED BY <1>1, <2>1, QuietStep
<1>9. CASE n = mb
  <2>1. /\ b2.recv_queue = Append(b.recv_queue, c) /\ b2.send_queue = b.send_queue
        /\ b2.mails = b.mails /\ b2.capacity = b.capacity
    BY <1>3 DEF MailboxType, b2
  <2>2. Box(n) = b /\ Box(n)' = b2
    BY <1>3, <1>6, <1>9 DEF Box
  <2>3. \A r \in ToSet(b.send_queue) : request'[r] = request[r]
    BY <1>0, <1>3, <1>4, <1>7, QueuedTasks DEF Waits
  <2>4. Offered(b2, request') = Offered(b, request)
    <3> HIDE DEF b
    <3> QED BY <2>1, <2>3, OfferedSame
  <2> HIDE DEF b
  <2> QED BY <1>0, <1>1, <1>4, <2>1, <2>2, <2>4, AwaitStep
<1> QED BY <1>8, <1>9

\* Nobody offers anything.
LEMMA OfferedNothing ==
    ASSUME NEW b, NEW args, b.send_queue = <<>>
    PROVE  Offered(b, args) = <<>>
<1>1. [i \in DOMAIN <<>> |-> args[<<>>[i]]] = <<>>
  OBVIOUS
<1> QED BY <1>1 DEF Offered

Served(mb, x, z) ==
    /\ mb \in DOMAIN mailbox /\ Box(mb) = x.box /\ Box(mb)' = z.box
    /\ \A n : n # mb => Quiet(n)
    /\ received' = z.received
    /\ \A p \in Waits(z.box) : request'[p] = request[p]

\* A call that serves tasks which wait for a mailbox leaves the others alone.
LEMMA ServedBoxes ==
    ASSUME ChannelInv, ~SelfSuspend, Timeouts \subseteq {0}, Call,
           NEW pd, Prepared(pd), NEW mb \in ToSet(MailboxList), NEW arg,
           NEW x, ExchangeOK(x), x.box = mailbox[mb], x.pd = pd,
           x.request = [request EXCEPT ![Current_Process] = arg],
           NEW z, Continues(x, z), Serves(x, z), Finish(mb, z)
    PROVE  Served(mb, x, z)
<1> DEFINE c == Current_Process
<1>0. MailboxInv /\ WaitInv /\ Running
  BY DEF ChannelInv, Call
<1>1. /\ mailbox' = [mailbox EXCEPT ![mb] = z.box] /\ received' = z.received
      /\ request' = [z.request EXCEPT ![c] = "NULL"]
  BY DEF Finish
<1>2. c \in DOMAIN PD /\ \A m \in DOMAIN mailbox : c \notin Waits(mailbox[m])
  BY <1>0, CallerIsInNone
<1>3. DOMAIN pd = DOMAIN PD
  BY <1>0, PreparedTimely
<1>4. /\ mb \in DOMAIN mailbox /\ Waits(mailbox[mb]) \subseteq DOMAIN PD
      /\ mailbox = [m \in DOMAIN mailbox |-> mailbox[m]]
  BY <1>0, ListedBox, QueuedTasks, LenProperties DEF MailboxInv, BoxesOK
<1>5. DOMAIN mailbox' = DOMAIN mailbox /\ mailbox'[mb] = z.box
      /\ \A m \in DOMAIN mailbox : m # mb => mailbox'[m] = mailbox[m]
  BY <1>1, <1>4
<1>6. DOMAIN PD \subseteq DOMAIN request /\ DOMAIN z.request = DOMAIN request
  BY <1>0, ExchangeTypes, TasksHaveRequests DEF Continues
<1>7. /\ \A p \in DOMAIN request : p # c => request'[p] = z.request[p]
      /\ \A p \in DOMAIN request : p # c => x.request[p] = request[p]
  BY <1>1, <1>6
<1>8. \A p \in DOMAIN PD : p # c /\ (p \notin Waits(mailbox[mb]) \/ p \in Waits(z.box)) =>
          request'[p] = request[p]
  BY <1>3, <1>6, <1>7 DEF Serves
<1>9. \A n : n # mb => Quiet(n)
  BY <1>0, <1>4, <1>5, <1>8, OtherBoxQuiet
<1>10. \A p \in Waits(z.box) : request'[p] = request[p]
  BY <1>2, <1>4, <1>8 DEF Serves
<1>11. Box(mb) = x.box /\ Box(mb)' = z.box
  BY <1>4, <1>5 DEF Box
<1> QED BY <1>1, <1>4, <1>9, <1>10, <1>11 DEF Served

\* A message that finds room is put into the channel, or is lost.
LEMMA StoredStep ==
    ASSUME ChannelInv, ~SelfSuspend, Timeouts \subseteq {0}, NEW n \in 1..MaxMailboxID,
           NEW pd, Prepared(pd), NEW mb \in ToSet(MailboxList),
           NEW noRoom \in Shortages(mb), NEW msg \in Messages, Stored(mb, msg, pd, noRoom)
    PROVE  Step(n)
<1> DEFINE c == Current_Process
           x == Exchange(mb, msg, pd, noRoom)
           z == Store(x, c, ServeAll)
           q == x.box.recv_queue
<1>0. MailboxInv /\ WaitInv
  BY DEF ChannelInv
<1>1. /\ ExchangeOK(x) /\ c \in DOMAIN x.pd /\ x.box = mailbox[mb] /\ x.pd = pd
      /\ x.request = [request EXCEPT ![c] = msg] /\ x.request[c] = msg
      /\ BoxWaits(x.box, x.pd, x.request)
  BY <1>0, ExchangeWaits DEF Stored
<1>2. ~IsFull(x.box) /\ Finish(mb, z) /\ Call
  BY <1>1 DEF Stored
<1>3. x.received = received
  BY DEF Exchange
<1> HIDE DEF x
<1>4. Continues(x, z)
  BY <1>1, <1>2, ServeAllSound, StoreContinues
<1>5. /\ Serves(x, z)
      /\ \/ z.box = x.box /\ z.received = x.received
         \/ /\ q = <<>>
            /\ z.box = [x.box EXCEPT !.mails = Append(x.box.mails, x.request[c])]
            /\ z.received = x.received
         \/ /\ q # <<>>
            /\ z.box = [x.box EXCEPT !.recv_queue = Tail(q)]
            /\ z.received = [x.received EXCEPT ![Head(q)] = x.request[c]]
  BY <1>1, <1>2, StoreEffect
<1> HIDE DEF z
<1>6. /\ mb \in DOMAIN mailbox /\ Box(mb) = x.box /\ Box(mb)' = z.box
      /\ \A m : m # mb => Quiet(m)
      /\ received' = z.received
  <2>1. Served(mb, x, z)
    BY <1>1, <1>2, <1>4, <1>5, ServedBoxes
  <2> QED BY <2>1 DEF Served
<1>7. /\ x.box \in MailboxType /\ x.box.send_queue = <<>>
      /\ x.box.capacity \in Nat /\ x.box.capacity > 0 /\ Len(x.box.mails) \in Nat
      /\ Len(x.box.mails) < x.box.capacity
  BY <1>1, <1>2, <1>6, BoxExists DEF BoxWaits, IsFull
<1>8. q # <<>> => Head(q) \in 1..MaxPid
  <2>1. q \in Seq(DOMAIN x.pd) /\ DOMAIN x.pd \subseteq 1..MaxPid
    BY <1>1, ExchangeTypes
  <2> QED BY <2>1, HeadTailProperties
<1>9. CASE n # mb
  <2>1. Quiet(n) /\ MaxMailboxID > 1
    BY <1>0, <1>6, <1>9, OtherMailbox
  <2> QED BY <1>1, <1>3, <1>5, <1>6, <1>8, <2>1, QuietStep
<1>10. CASE n = mb
  <2> DEFINE b == x.box
             b2 == z.box
  <2>1. CASE z.box = x.box /\ z.received = x.received
    <3>1. Offered(b2, request') = <<>> /\ Offered(b, request) = <<>>
      BY <1>7, <2>1, OfferedNothing
    <3>2. Quiet(n)
      BY <1>6, <1>10, <2>1, <3>1 DEF Quiet
    <3> QED BY <1>3, <1>6, <2>1, <3>2, QuietStep
  <2>2. CASE /\ q = <<>>
             /\ z.box = [x.box EXCEPT !.mails = Append(x.box.mails, x.request[c])]
             /\ z.received = x.received
    <3>1. /\ b2.send_queue = <<>> /\ b2.recv_queue = q /\ b2.capacity = b.capacity
          /\ b2.mails = Append(b.mails, msg)
      BY <1>1, <1>7, <2>2 DEF MailboxType
    <3>2. Offered(b2, request') = <<>> /\ Offered(b, request) = <<>>
      BY <1>7, <3>1, OfferedNothing
    <3>3. Joined(b2.mails, b.mails, msg)
      BY <3>1 DEF Joined
    <3> HIDE DEF b, b2
    <3>4. Box(n) = b /\ Box(n)' = b2 /\ received' = received
      BY <1>3, <1>6, <1>10, <2>2 DEF b, b2
    <3>5. b.recv_queue = <<>> /\ b.capacity > 0 /\ Len(b.mails) < b.capacity
      BY <1>7, <2>2 DEF b
    <3> QED BY <2>2, <3>1, <3>2, <3>3, <3>4, <3>5, PutStep
  <2>3. CASE /\ q # <<>>
             /\ z.box = [x.box EXCEPT !.recv_queue = Tail(q)]
             /\ z.received = [x.received EXCEPT ![Head(q)] = x.request[c]]
    <3>1. /\ b2.send_queue = <<>> /\ b2.recv_queue = Tail(b.recv_queue) /\ b2.capacity = b.capacity
          /\ b2.mails = b.mails
      BY <1>7, <2>3 DEF MailboxType
    <3>2. Offered(b2, request') = <<>> /\ Offered(b, request) = <<>>
      BY <1>7, <3>1, OfferedNothing
    <3>3. Box(n) = b /\ Box(n)' = b2 /\ received' = [received EXCEPT ![Head(b.recv_queue)] = msg]
      BY <1>1, <1>3, <1>6, <1>10, <2>3
    <3>4. b.recv_queue # <<>> /\ b.capacity > 0
      BY <1>7, <2>3
    <3> HIDE DEF b, b2
    <3> QED BY <3>1, <3>2, <3>3, <3>4, HandStep
  <2> QED BY <1>5, <2>1, <2>2, <2>3
<1> QED BY <1>9, <1>10

\* The first mail is taken, and what is on offer moves up.
LEMMA FetchedStep ==
    ASSUME ChannelInv, ~SelfSuspend, Timeouts \subseteq {0}, NEW n \in 1..MaxMailboxID,
           NEW pd, Prepared(pd), NEW mb \in ToSet(MailboxList),
           NEW noRoom \in Shortages(mb), Fetched(mb, pd, noRoom)
    PROVE  Step(n)
<1> DEFINE c == Current_Process
           x == Exchange(mb, "MAIL", pd, noRoom)
           z == Fetch(x, c, ServeAll)
           q == x.box.send_queue
<1>0. MailboxInv /\ WaitInv /\ Call /\ "MAIL" \in Messages \cup {"MAIL"}
  BY DEF ChannelInv, Fetched
<1>1. /\ ExchangeOK(x) /\ c \in DOMAIN x.pd /\ x.box = mailbox[mb] /\ x.pd = pd
      /\ x.request = [request EXCEPT ![c] = "MAIL"] /\ x.request[c] = "MAIL"
      /\ BoxWaits(x.box, x.pd, x.request)
  BY <1>0, ExchangeWaits
<1>2. x.box.mails # <<>> /\ Finish(mb, z) /\ Call
  BY <1>1 DEF Fetched
<1>3. x.received = received /\ x.noRoom = noRoom
  BY DEF Exchange
<1>4. x.noRoom # {} => MallocMayFail
  BY <1>3 DEF Shortages
<1> HIDE DEF x
<1>5. /\ Continues(x, z) /\ Serves(x, z) /\ z.box.recv_queue = <<>>
      /\ z.received = [x.received EXCEPT ![c] = Head(x.box.mails)]
      /\ \E k \in 0..Len(q) :
            /\ z.box.send_queue = After(q, k)
            /\ \/ /\ k = Len(q) /\ z.box.mails = Tail(x.box.mails)
                  /\ k # 0 => x.noRoom # {}
               \/ /\ k # 0 /\ (k # 1 => x.noRoom # {})
                  /\ z.box.mails = Append(Tail(x.box.mails), x.request[q[k]])
  BY <1>1, <1>2, FetchEffect
<1> HIDE DEF z
<1>6. Served(mb, x, z)
  BY <1>1, <1>2, <1>5, ServedBoxes
<1>7. /\ mb \in DOMAIN mailbox /\ Box(mb) = x.box /\ Box(mb)' = z.box
      /\ \A m : m # mb => Quiet(m)
      /\ received' = [received EXCEPT ![c] = Head(x.box.mails)]
      /\ \A p \in Waits(z.box) : request'[p] = request[p]
  BY <1>3, <1>5, <1>6 DEF Served
<1>8. Head(x.box.mails) \in Messages /\ c \in 1..MaxPid /\ z.box.capacity = x.box.capacity
  <2>1. x.box.mails \in Seq(Messages) /\ c \in 1..MaxPid
    BY <1>1, ExchangeTypes DEF BoxWaits
  <2> QED BY <1>2, <1>5, <2>1, HeadTailProperties DEF Continues
<1>9. CASE n # mb
  <2>1. Quiet(n) /\ MaxMailboxID > 1
    BY <1>0, <1>7, <1>9, OtherMailbox
  <2> QED BY <1>7, <1>8, <2>1, QuietStep
<1>10. CASE n = mb
  <2> DEFINE b == x.box
             b2 == z.box
             o == Offered(b, request)
             o2 == Offered(b2, request')
  <2>1. PICK k \in 0..Len(q) :
            /\ z.box.send_queue = After(q, k)
            /\ \/ /\ k = Len(q) /\ z.box.mails = Tail(x.box.mails)
                  /\ k # 0 => x.noRoom # {}
               \/ /\ k # 0 /\ (k # 1 => x.noRoom # {})
                  /\ z.box.mails = Append(Tail(x.box.mails), x.request[q[k]])
    BY <1>5
  <2>2. /\ q \in Seq(Nat) /\ Distinct(q) /\ ToSet(q) \subseteq DOMAIN x.pd
        /\ MessagesIn(q, request) /\ BoxWaits(b, PD, request)
    <3>1. BoxWaits(b, PD, request) /\ q \in Seq(Nat)
      BY <1>1, <1>7, BoxExists
    <3> QED BY <1>1, <3>1 DEF BoxWaits, SendersWait, MessagesIn, ExchangeOK, BoxOK, Waits
  <2>3. z.box.recv_queue = b.recv_queue
    BY <1>2, <1>5, <2>2 DEF BoxWaits
  <2>4. ToSet(b2.send_queue) \subseteq ToSet(q)
    BY <2>1, <2>2, AfterDistinct
  <2>5. Agree(b2.send_queue, request, request') /\ MessagesIn(b2.send_queue, request')
    BY <1>7, <2>2, <2>4 DEF Agree, MessagesIn, Waits
  <2>6. /\ o \in Seq(Messages) /\ Len(o) = Len(q)
        /\ \A i \in 1..Len(q) : o[i] = request[q[i]]
    BY <2>2, OfferedTypes
  <2>7. o2 = After(o, k)
    BY <2>1, <2>2, <2>5, OfferedAfter
  <2>8. Len(q) \in Nat /\ DOMAIN q = 1..Len(q)
    BY <2>2, LenProperties
  <2>9. Box(n) = b /\ Box(n)' = b2 /\ received' = [received EXCEPT ![c] = Head(b.mails)]
    BY <1>7, <1>10
  <2>10. b2.capacity = b.capacity /\ b.mails # <<>> /\ b2.recv_queue = b.recv_queue
    BY <1>2, <1>8, <2>3
  <2>11. CASE /\ k = Len(q) /\ z.box.mails = Tail(x.box.mails)
              /\ k # 0 => x.noRoom # {}
    <3>1. After(o, k) = <<>>
      <4> HIDE DEF o, q
      <4> QED BY <2>6, <2>11, AfterAll
    <3>2. k \in 0..Len(o) /\ (k > 0 => MallocMayFail)
      <4> HIDE DEF o, q
      <4> QED BY <1>4, <2>6, <2>8, <2>11
    <3>3. b2.mails = Tail(b.mails) /\ Offered(b2, request') = <<>>
      BY <2>7, <2>11, <3>1
    <3>4. After(Offered(b, request), k) = <<>> /\ k \in 0..Len(Offered(b, request))
      BY <3>1, <3>2
    <3> HIDE DEF b, b2, c, o, o2
    <3> QED BY <1>8, <2>9, <2>10, <3>2, <3>3, <3>4, TakeAloneStep
  <2>12. CASE /\ k # 0 /\ (k # 1 => x.noRoom # {})
              /\ z.box.mails = Append(Tail(x.box.mails), x.request[q[k]])
    <3> DEFINE left == After(o, k - 1)
    <3>1. k \in 0..Len(o) /\ k \in 1..Len(q) /\ k - 1 \in Int /\ (k - 1 > 0 => MallocMayFail)
      <4> HIDE DEF o, q
      <4> QED BY <1>4, <2>6, <2>8, <2>12
    <3>2. /\ k - 1 \in 0..Len(o) /\ left # <<>>
          /\ Head(left) = o[k] /\ Tail(left) = After(o, k)
      <4> HIDE DEF o
      <4> QED BY <2>6, <2>12, <3>1, LastToLeave
    <3>3. o[k] = x.request[q[k]]
      <4>1. q[k] \in DOMAIN x.pd /\ q[k] \in Waits(mailbox[mb])
        BY <1>1, <2>2, <2>8, <3>1 DEF ToSet, Waits
      <4>2. q[k] # c
        BY <1>0, <1>2, <1>7, <4>1, CallerIsInNone DEF Call
      <4>3. x.request[q[k]] = request[q[k]]
        <5>1. q[k] \in DOMAIN x.request /\ DOMAIN x.request = DOMAIN request
          <6>1. /\ x.request \in [1..MaxPid -> Contents \cup {"NULL", "MAIL"}]
                /\ DOMAIN x.pd \subseteq 1..MaxPid
            BY <1>1, ExchangeTypes
          <6>2. DOMAIN x.request = DOMAIN request
            BY <1>1
          <6> QED BY <4>1, <6>1, <6>2
        <5> QED BY <1>1, <4>2, <5>1
      <4> QED BY <2>6, <3>1, <4>3
    <3>4. Joined(b2.mails, Tail(b.mails), Head(left))
      BY <2>12, <3>2, <3>3 DEF Joined
    <3>5. Offered(b2, request') = Tail(left)
      BY <2>7, <3>2
    <3>6. After(Offered(b, request), k - 1) = left /\ k - 1 \in 0..Len(Offered(b, request))
      BY <3>2
    <3> HIDE DEF b, b2, c, o, o2, left
    <3> QED BY <1>8, <2>9, <2>10, <3>1, <3>2, <3>4, <3>5, <3>6, TakeStep
  <2> QED BY <2>1, <2>11, <2>12
<1> QED BY <1>9, <1>10

\* Every mailbox can hold a mail.
Roomy == \A mb \in DOMAIN mailbox : mailbox[mb].capacity # 0

LEMMA ChangedIsRoomy ==
    ASSUME MailboxInv, Roomy, NEW mb \in ToSet(MailboxList), NEW box,
           mailbox' = [mailbox EXCEPT ![mb] = box], box.capacity = mailbox[mb].capacity
    PROVE  Roomy'
<1>1. mb \in DOMAIN mailbox /\ mailbox = [m \in DOMAIN mailbox |-> mailbox[m]]
  BY ListedBox, LenProperties DEF MailboxInv, BoxesOK
<1>2. /\ DOMAIN mailbox' = DOMAIN mailbox
      /\ \A m \in DOMAIN mailbox : mailbox'[m] = IF m = mb THEN box ELSE mailbox[m]
  BY <1>1
<1> QED BY <1>1, <1>2 DEF Roomy

LEMMA CallKeepsRoomy ==
    ASSUME MailboxInv, WaitInv, Roomy, ~SelfSuspend, Timeouts \subseteq {0},
           NEW pd, Prepared(pd), NEW mb \in ToSet(MailboxList), NEW noRoom \in Shortages(mb),
           \/ Fetched(mb, pd, noRoom)
           \/ \E msg \in Messages : Stored(mb, msg, pd, noRoom)
    PROVE  Roomy'
<1> DEFINE c == Current_Process
<1>1. CASE Fetched(mb, pd, noRoom)
  <2> DEFINE x == Exchange(mb, "MAIL", pd, noRoom)
             z == Fetch(x, c, ServeAll)
  <2>1. Call /\ "MAIL" \in Messages \cup {"MAIL"}
    BY <1>1 DEF Fetched
  <2>2. /\ ExchangeOK(x) /\ c \in DOMAIN x.pd /\ x.box = mailbox[mb] /\ x.pd = pd
        /\ x.request = [request EXCEPT ![c] = "MAIL"] /\ x.request[c] = "MAIL"
        /\ BoxWaits(x.box, x.pd, x.request)
    BY <2>1, ExchangeWaits
  <2>3. x.box.mails # <<>> /\ Finish(mb, z)
    BY <1>1, <2>2 DEF Fetched
  <2> HIDE DEF x
  <2>4. Continues(x, z)
    BY <2>2, <2>3, ServeAllSound, FetchContinues
  <2> HIDE DEF z
  <2> QED BY <2>2, <2>3, <2>4, ChangedIsRoomy DEF Finish, Continues
<1>2. ASSUME NEW msg \in Messages, Stored(mb, msg, pd, noRoom) PROVE Roomy'
  <2> DEFINE x == Exchange(mb, msg, pd, noRoom)
             z == Store(x, c, ServeAll)
  <2>1. Call /\ msg \in Messages \cup {"MAIL"}
    BY <1>2 DEF Stored
  <2>2. /\ ExchangeOK(x) /\ c \in DOMAIN x.pd /\ x.box = mailbox[mb] /\ x.pd = pd
        /\ x.request = [request EXCEPT ![c] = msg] /\ x.request[c] = msg
        /\ BoxWaits(x.box, x.pd, x.request)
    BY <2>1, ExchangeWaits
  <2>3. ~IsFull(x.box) /\ Finish(mb, z)
    BY <1>2, <2>2 DEF Stored
  <2> HIDE DEF x
  <2>4. Continues(x, z)
    BY <2>2, <2>3, ServeAllSound, StoreContinues
  <2> HIDE DEF z
  <2> QED BY <2>2, <2>3, <2>4, ChangedIsRoomy DEF Finish, Continues
<1> QED BY <1>1, <1>2

LEMMA StepKeepsRoomy ==
    ASSUME 0 \notin Capacities, ~SelfSuspend, Timeouts \subseteq {0},
           MailboxInv, WaitInv, Roomy, [MailboxNext]_allVars
    PROVE  Roomy'
<1>0. Outcome
  BY StepOutcome DEF MailboxInv, Inv, VarTypes
<1>1. CASE UNCHANGED mailbox
  BY <1>1 DEF Roomy
<1>2. CASE ([Next]_vars /\ UNCHANGED mailboxVars) \/ Refused \/ Stopped \/ Dropped
  <2>1. UNCHANGED mailbox
    BY <1>2 DEF mailboxVars, Refused, Stopped, Dropped
  <2> QED BY <1>1, <2>1
<1>3. ASSUME NEW capacity \in Capacities, Created(capacity) PROVE Roomy'
  <2> DEFINE m == Len(mailbox) + 1
  <2>1. /\ DOMAIN mailbox' = DOMAIN mailbox \cup {m}
        /\ mailbox'[m] = NewMailbox(capacity)
        /\ \A mb \in DOMAIN mailbox : mailbox'[mb] = mailbox[mb]
    BY <1>3, CreatedEffect
  <2> HIDE DEF m
  <2> QED BY <2>1 DEF Roomy, NewMailbox
<1>4. ASSUME NEW mb \in ToSet(MailboxList), Destroyed(mb) PROVE Roomy'
  BY <1>4, ChangedIsRoomy DEF Destroyed, NewMailbox
<1>5. ASSUME NEW mb \in ToSet(MailboxList), NEW pd,
             (\E msg \in Messages : SendBlocked(mb, msg, pd)) \/ RecvBlocked(mb, pd)
      PROVE  Roomy'
  <2>0. PICK queue \in {"send_queue", "recv_queue"} : \E arg : Block(mb, queue, arg, pd)
    BY <1>5 DEF SendBlocked, RecvBlocked
  <2>1. PICK arg : Block(mb, queue, arg, pd)
    BY <2>0
  <2>2. mailbox[mb] \in MailboxType
    BY ListedBox
  <2>3. mailbox' = [mailbox EXCEPT ![mb] =
                       [mailbox[mb] EXCEPT ![queue] = Append(@, Current_Process)]]
    BY <2>1 DEF Block
  <2>4. [mailbox[mb] EXCEPT ![queue] = Append(@, Current_Process)].capacity = mailbox[mb].capacity
    BY <2>2 DEF MailboxType
  <2> QED BY <2>3, <2>4, ChangedIsRoomy
<1>6. ASSUME NEW mb \in ToSet(MailboxList), NEW pd, Prepared(pd), Missed(mb, pd) PROVE Roomy'
  BY <1>1, <1>6, MissedEffect
<1>7. ASSUME NEW mb \in ToSet(MailboxList), NEW pd, Prepared(pd), NEW noRoom \in Shortages(mb),
             \/ Fetched(mb, pd, noRoom)
             \/ \E msg \in Messages : Stored(mb, msg, pd, noRoom)
      PROVE  Roomy'
  BY <1>7, CallKeepsRoomy
<1> QED BY <1>0, <1>2, <1>3, <1>4, <1>5, <1>6, <1>7 DEF Outcome

\* Every step is a step of each channel, or none of its own.
LEMMA StepIsChannelStep ==
    ASSUME ~SelfSuspend, Timeouts \subseteq {0}, ChannelInv, [MailboxNext]_allVars,
           NEW n \in 1..MaxMailboxID
    PROVE  Step(n)
<1>0. Outcome /\ MailboxInv
  BY StepOutcome DEF ChannelInv, MailboxInv, Inv, VarTypes
<1>1. CASE ([Next]_vars /\ UNCHANGED mailboxVars) \/ Refused \/ Stopped
  <2>1. UNCHANGED <<mailbox, request, received>>
    BY <1>1 DEF mailboxVars, Refused, Stopped
  <2> QED BY <2>1, SilentStep
<1>2. CASE Dropped
  <2>1. Current_Process \in 1..MaxPid
    BY <1>0, <1>2, CallerIsInNone, TasksHaveRequests DEF ChannelInv, Dropped, Call
  <2> QED BY <1>2, <2>1, SilentStep DEF Dropped
<1>3. ASSUME NEW capacity \in Capacities, Created(capacity) PROVE Step(n)
  BY <1>0, <1>3, CreatedStep
<1>4. ASSUME NEW mb \in ToSet(MailboxList), Destroyed(mb) PROVE Step(n)
  BY <1>0, <1>4, DestroyedStep
<1>5. ASSUME NEW mb \in ToSet(MailboxList), NEW pd, Prepared(pd), NEW msg \in Messages,
             SendBlocked(mb, msg, pd)
      PROVE  Step(n)
  BY <1>5, SendBlockedStep
<1>6. ASSUME NEW mb \in ToSet(MailboxList), NEW pd, Prepared(pd), RecvBlocked(mb, pd)
      PROVE  Step(n)
  BY <1>6, RecvBlockedStep
<1>7. ASSUME NEW mb \in ToSet(MailboxList), NEW pd, Prepared(pd), Missed(mb, pd) PROVE Step(n)
  BY <1>7, MissedStep
<1>8. ASSUME NEW mb \in ToSet(MailboxList), NEW pd, Prepared(pd), NEW noRoom \in Shortages(mb),
             Fetched(mb, pd, noRoom)
      PROVE  Step(n)
  BY <1>8, FetchedStep
<1>9. ASSUME NEW mb \in ToSet(MailboxList), NEW pd, Prepared(pd), NEW noRoom \in Shortages(mb),
             NEW msg \in Messages, Stored(mb, msg, pd, noRoom)
      PROVE  Step(n)
  BY <1>9, StoredStep
<1> QED BY <1>0, <1>1, <1>2, <1>3, <1>4, <1>5, <1>6, <1>7, <1>8, <1>9 DEF Outcome

LEMMA ChannelInitEstablishes ==
    ASSUME MailboxInit, NEW n
    PROVE  Channel(n)!ChannelInit
<1>1. Box(n) = NewMailbox(0)
  BY DEF MailboxInit, Box
<1>2. [i \in DOMAIN <<>> |-> request[<<>>[i]]] = <<>>
  OBVIOUS
<1> QED BY <1>1, <1>2 DEF MailboxInit, NewMailbox, Channel!ChannelInit

LEMMA ChannelInvIsInvariant ==
    ASSUME ~SelfSuspend, FreshTimeouts \subseteq {0}, Timeouts \subseteq {0}, 0 \notin Capacities
    PROVE  /\ MailboxInit => ChannelInv
           /\ ChannelInv /\ [MailboxNext]_allVars => ChannelInv'
<1>1. ChannelInv <=> MailboxInv /\ WaitInv /\ Roomy
  BY DEF ChannelInv, Roomy
<1>2. ChannelInv' <=> (MailboxInv' /\ WaitInv' /\ Roomy')
  BY DEF ChannelInv, Roomy
<1>3. MailboxInit => Roomy
  BY DEF MailboxInit, Roomy
<1>4. MailboxInit => ChannelInv
  BY <1>1, <1>3, MailboxInitEstablishes, WaitInitEstablishes
<1>5. ChannelInv /\ [MailboxNext]_allVars => ChannelInv'
  BY <1>1, <1>2, StepKeepsMailboxInv, StepKeepsWaitInv, StepKeepsRoomy
<1> QED BY <1>4, <1>5

\* While no call has a time limit and every mailbox can hold a mail, each
\* mailbox of the code is a channel: nothing is lost, unless for want of memory,
\* duplicated or overtaken, whatever the other mailboxes do.
THEOREM MailboxIsChannel ==
    ASSUME ~SelfSuspend, FreshTimeouts \subseteq {0}, Timeouts \subseteq {0}, 0 \notin Capacities,
           NEW mb \in 1..MaxMailboxID
    PROVE  MailboxSpec => Channel(mb)!ChannelSpec
<1>1. MailboxInit => ChannelInv /\ Channel(mb)!ChannelInit
  BY ChannelInvIsInvariant, ChannelInitEstablishes
<1>2. ChannelInv /\ [MailboxNext]_allVars => ChannelInv'
  BY ChannelInvIsInvariant
<1>3. ChannelInv /\ [MailboxNext]_allVars => [Channel(mb)!ChannelNext]_(Channel(mb)!channelVars)
  BY StepIsChannelStep DEF Step
<1> QED BY <1>1, <1>2, <1>3, PTL DEF MailboxSpec, Channel!ChannelSpec

\* The same of all of them.
THEOREM MailboxesAreChannels ==
    ASSUME ~SelfSuspend, FreshTimeouts \subseteq {0}, Timeouts \subseteq {0}, 0 \notin Capacities
    PROVE  MailboxSpec => ImplementsMailChannel
<1> DEFINE Steps == \A mb \in 1..MaxMailboxID :
               [Channel(mb)!ChannelNext]_(Channel(mb)!channelVars)
<1>1. MailboxInit => ChannelInv /\ \A mb \in 1..MaxMailboxID : Channel(mb)!ChannelInit
  BY ChannelInvIsInvariant, ChannelInitEstablishes
<1>2. ChannelInv /\ [MailboxNext]_allVars => ChannelInv'
  BY ChannelInvIsInvariant
<1>3. ChannelInv /\ [MailboxNext]_allVars => Steps
  BY StepIsChannelStep DEF Step
<1> QED BY <1>1, <1>2, <1>3, PTL DEF MailboxSpec, ImplementsMailChannel

=============================================================================
