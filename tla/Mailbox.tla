------------------------------ MODULE Mailbox -------------------------------
(***************************************************************************)
(* The mailboxes of ezRTOS on top of the scheduler:                        *)
(* kernel/mailbox/mailbox.c, the queues of kernel/others/Queue.c as it uses*)
(* them, and the mailbox section of os.c.  A mailbox stores mails up to    *)
(* its capacity.  A task that blocks on a full or an empty one waits in a  *)
(* queue of senders or of receivers; whoever makes room, or brings a mail, *)
(* finishes the calls that wait, with the arguments found in the PDs.      *)
(***************************************************************************)
EXTENDS Kernel

CONSTANTS
    MAXMAILBOX,      \* mailbox.h:7
    MaxMailboxID,    \* bound: mailboxes created in one behaviour
    Capacities,      \* arguments of Mailbox_Create
    Messages,        \* what the tasks send each other
    Timeouts,        \* arguments of the blocking calls, 0 for no limit
    MailboxArgs      \* the ids that calls name

ASSUME MailboxAssumption ==
    /\ MAXMAILBOX \in Nat \ {0}
    /\ MaxMailboxID \in Nat
    /\ Capacities \subseteq Nat
    /\ Messages \cap {"NULL", "MAIL", "garbage"} = {}
    /\ Timeouts \subseteq UInts
    /\ MailboxArgs \subseteq Nat

VARIABLES
    MailboxList,     \* the ids on the mailbox list, in order
    mailbox,         \* the mailbox objects, in order of id
    request,         \* request[p]: what request_args[1] of task p points to,
                     \* while p is in a mailbox call; it is not read after it
    received         \* received[p]: the MAIL that task p receives into

mailboxVars == <<MailboxList, mailbox, request, received>>
allVars     == <<vars, mailboxVars>>

Last_MailboxID == Len(mailbox)
Mailbox_Count  == Len(MailboxList)

\* "garbage" is what a mail holds that was copied from something else than a
\* message; of a mail only its contents are kept.
Contents == Messages \cup {"garbage"}

MailboxType == [capacity: Nat, mails: Seq(Contents), send_queue: Seq(Nat), recv_queue: Seq(Nat)]

Exists(mb) == mb \in ToSet(MailboxList)

\* Mutant: one mail too many is accepted.  (MailboxTypeOK)
IsFullLate(box) == Len(box.mails) > box.capacity

IsFull(box) == Len(box.mails) >= box.capacity

-----------------------------------------------------------------------------
NewMailbox(capacity) ==
    [capacity |-> capacity, mails |-> <<>>, send_queue |-> <<>>, recv_queue |-> <<>>]

\* noErr is what err holds when nothing fails.
Kernel_Create_Mailbox_Direct(capacity, noErr) ==
    /\ \/ /\ Mailbox_Count >= MAXMAILBOX
          /\ Return("MAX_OBJECT_ERR", PD)
          /\ UNCHANGED <<ProcessList, MailboxList, mailbox>>
       \/ /\ Mailbox_Count < MAXMAILBOX
          /\ WriteThroughNull
          /\ UNCHANGED <<MailboxList, mailbox>>
       \/ /\ Mailbox_Count < MAXMAILBOX
          /\ Last_MailboxID < MaxMailboxID
          /\ Return(noErr, PD)
          /\ mailbox' = Append(mailbox, NewMailbox(capacity))
          /\ MailboxList' = Append(MailboxList, Last_MailboxID + 1)
          /\ UNCHANGED ProcessList
    /\ UNCHANGED <<request, received>>

Mailbox_Create(capacity) ==
    \/ mode = "boot" /\ Kernel_Create_Mailbox_Direct(capacity, err)
    \/ Running /\ Kernel_Create_Mailbox_Direct(capacity, "NO_ERR")

\* The mails are gone and the queues are emptied: the tasks in them stay in
\* WAIT_MAILBOX.  When none has the id, the last one is freed but stays on the
\* list, whose tail is then linked to what is found at address 2.
Mailbox_Destroy(mb) ==
    /\ Running
    /\ \/ /\ MailboxList = <<>>
          /\ Return("OBJECT_NOT_FOUND_ERR", PD)
          /\ UNCHANGED <<MailboxList, mailbox>>
       \/ /\ Exists(mb)
          /\ Return("NO_ERR", PD)
          /\ \E i \in DOMAIN MailboxList :
                MailboxList[i] = mb /\ MailboxList' = RemoveAt(MailboxList, i)
          /\ mailbox' = [mailbox EXCEPT ![mb] = NewMailbox(mailbox[mb].capacity)]
       \/ /\ MailboxList # <<>> /\ ~Exists(mb)
          /\ err' = "NO_ERR"
          /\ mode' = "halted"
          /\ UNCHANGED <<PD, sched, MailboxList, mailbox>>
    /\ UNCHANGED <<ProcessList, request, received>>

\* A task drops what it has received; with NULL the kernel reports the error
\* and goes on to write through the pointer.
Mailbox_Destroy_Mail ==
    /\ Running
    /\ \/ /\ Return("NO_ERR", PD)
          /\ received' = [received EXCEPT ![Current_Process] = "NULL"]
       \/ /\ err' = "OBJECT_NOT_FOUND_ERR"
          /\ mode' = "halted"
          /\ UNCHANGED <<PD, sched, received>>
    /\ UNCHANGED <<ProcessList, MailboxList, mailbox, request>>

\* Reads the number of mails.
Mailbox_Check(mb) ==
    /\ Running
    /\ Return(IF Exists(mb) THEN "NO_ERR" ELSE "OBJECT_NOT_FOUND_ERR", PD)
    /\ UNCHANGED <<ProcessList, mailboxVars>>

-----------------------------------------------------------------------------
(* Calls are finished in an exchange: a record of the mailbox and of what  *)
(* the calls write to.  Finishing a send may finish a receive that waits,  *)
(* that one another send, and so on.  The memory for the message of a      *)
(* sender in noRoom cannot be had: it goes on, but its message is lost.    *)

Exchanges == [box: MailboxType, pd: Seq(Process), error: Errors, noRoom: SUBSET Nat,
              request: [1..MaxPid -> Contents \cup {"NULL", "MAIL"}],
              received: [1..MaxPid -> Contents \cup {"NULL"}]]

\* Is the head of a wait queue still in a mailbox call?
StillWaits(x, q) == x.pd[Head(q)].state = "WAIT_MAILBOX"

\* The call of p is finished, and its arguments are not read again.
Woken(x, p) == [x EXCEPT !.pd[p].state = "READY", !.request[p] = "NULL"]

\* What p's arguments give as its message.
MessageOf(x, p) == IF x.request[p] \in Messages THEN x.request[p] ELSE "garbage"

\* The first mail goes to where p's arguments point, be it to a message.
Delivered(x, p) ==
    LET y == [x EXCEPT !.box.mails = Tail(@)]
    IN IF x.request[p] = "MAIL" THEN [y EXCEPT !.received[p] = Head(x.box.mails)]
                                ELSE [y EXCEPT !.request[p] = "garbage"]

\* Kernel_Mailbox_Send_Internal, when the mailbox is not full.  Here and below
\* serve.recv[x] is exchange x once the calls in recv_queue are finished, and
\* serve.send[x] once those in send_queue are.
Store(x, p, serve) ==
    IF p \in x.noRoom THEN [x EXCEPT !.error = "MALLOC_FAILED_ERR"]
    ELSE serve.recv[[x EXCEPT !.box.mails = Append(@, MessageOf(x, p))]]

\* Mutant: nobody is told that there is room.  (NobodyWaitsInVain)
FetchOnly(x, p, serve) == Delivered(x, p)

\* Kernel_Mailbox_Recv_Internal, when the mailbox is not empty.
Fetch(x, p, serve) == serve.send[Delivered(x, p)]

Kernel_Mailbox_Recv_From_Queue(x, serve) ==
    LET q == x.box.recv_queue
        y == [x EXCEPT !.box.recv_queue = Tail(q)]
    IN IF q = <<>> \/ x.box.mails = <<>> THEN x
       ELSE IF StillWaits(x, q) THEN serve.recv[Woken(Fetch(y, Head(q), serve), Head(q))]
       ELSE [y EXCEPT !.error = "UNPROCESSABLE_TASK_STATE_ERR"]

Kernel_Mailbox_Send_From_Queue(x, serve) ==
    LET q == x.box.send_queue
        y == [x EXCEPT !.box.send_queue = Tail(q)]
    IN IF q = <<>> \/ IsFull(x.box) THEN x
       ELSE IF StillWaits(x, q) THEN serve.send[Woken(Store(y, Head(q), serve), Head(q))]
       ELSE [y EXCEPT !.error = "UNPROCESSABLE_TASK_STATE_ERR"]

Untouched == [x \in Exchanges |-> x]

\* The two functions call themselves and each other: nested n deep they are
\* Serve[n].  Every call takes a task out of a queue before the next one ...
Serve[n \in Nat] ==
    IF n = 0 THEN [recv |-> Untouched, send |-> Untouched]
    ELSE [recv |-> [x \in Exchanges |-> Kernel_Mailbox_Recv_From_Queue(x, Serve[n - 1])],
          send |-> [x \in Exchanges |-> Kernel_Mailbox_Send_From_Queue(x, Serve[n - 1])]]

\* ... so the number of tasks that wait limits how deep they get.
Waiters(box) == Len(box.send_queue) + Len(box.recv_queue)

ServeAll == [recv |-> [x \in Exchanges |-> Serve[Waiters(x.box) + 1].recv[x]],
             send |-> [x \in Exchanges |-> Serve[Waiters(x.box) + 1].send[x]]]

-----------------------------------------------------------------------------
\* Senders whose message may find no memory.
Shortages(mb) ==
    IF MallocMayFail THEN SUBSET ({Current_Process} \cup ToSet(mailbox[mb].send_queue)) ELSE {{}}

\* The call changes what exchange x says, and returns to its caller.
Finish(mb, x) ==
    /\ mailbox' = [mailbox EXCEPT ![mb] = x.box]
    /\ request' = [x.request EXCEPT ![Current_Process] = "NULL"]
    /\ received' = x.received
    /\ Return(x.error, x.pd)

\* What the handler finds once the caller has put argument arg into its PD.
Exchange(mb, arg, pd, noRoom) ==
    [box |-> mailbox[mb], pd |-> pd, error |-> "NO_ERR", noRoom |-> noRoom,
     request |-> [request EXCEPT ![Current_Process] = arg], received |-> received]

\* The call leaves everything but the caller's PD as it is.
Fail(error, pd) == Return(error, pd) /\ UNCHANGED <<mailbox, request, received>>

\* Mutant: the caller goes to the front of the queue.  (ImplementsMailChannel)
BlockFirst(mb, queue, arg, pd) ==
    /\ mailbox' = [mailbox EXCEPT ![mb][queue] = <<Current_Process>> \o @]
    /\ request' = [request EXCEPT ![Current_Process] = arg]
    /\ Switch("NO_ERR", [pd EXCEPT ![Current_Process].state = "WAIT_MAILBOX"])
    /\ UNCHANGED received

\* The caller waits in the queue named.
Block(mb, queue, arg, pd) ==
    /\ mailbox' = [mailbox EXCEPT ![mb][queue] = Append(@, Current_Process)]
    /\ request' = [request EXCEPT ![Current_Process] = arg]
    /\ Switch("NO_ERR", [pd EXCEPT ![Current_Process].state = "WAIT_MAILBOX"])
    /\ UNCHANGED received

Kernel_Mailbox_Send(mb, msg, blocking, pd) ==
    /\ Running
    /\ \/ ~Exists(mb) /\ Fail("OBJECT_NOT_FOUND_ERR", pd)
       \/ /\ Exists(mb)
          /\ IsFull(mailbox[mb])
          /\ IF blocking THEN Block(mb, "send_queue", msg, pd) ELSE Fail("NO_ERR", pd)
       \/ /\ Exists(mb)
          /\ ~IsFull(mailbox[mb])
          /\ \E noRoom \in Shortages(mb) :
                Finish(mb, Store(Exchange(mb, msg, pd, noRoom), Current_Process, ServeAll))
       \/ /\ Exists(mb)                       \* no room for a mail or an element
          /\ blocking \/ ~IsFull(mailbox[mb])
          /\ WriteThroughNull
          /\ UNCHANGED <<mailbox, request, received>>
    /\ UNCHANGED <<ProcessList, MailboxList>>

Kernel_Mailbox_Recv(mb, blocking, pd) ==
    /\ Running
    /\ \/ ~Exists(mb) /\ Fail("OBJECT_NOT_FOUND_ERR", pd)
       \/ /\ Exists(mb)
          /\ mailbox[mb].mails = <<>>
          /\ IF blocking THEN Block(mb, "recv_queue", "MAIL", pd)
             ELSE Finish(mb, [Exchange(mb, "MAIL", pd, {}) EXCEPT !.received[Current_Process] = "NULL"])
       \/ /\ Exists(mb)
          /\ mailbox[mb].mails # <<>>
          /\ \E noRoom \in Shortages(mb) :
                Finish(mb, Fetch(Exchange(mb, "MAIL", pd, noRoom), Current_Process, ServeAll))
       \/ /\ Exists(mb)                       \* no room for a mail or an element
          /\ IF mailbox[mb].mails = <<>> THEN blocking ELSE mailbox[mb].send_queue # <<>>
          /\ WriteThroughNull
          /\ UNCHANGED <<mailbox, request, received>>
    /\ UNCHANGED <<ProcessList, MailboxList>>

\* A blocking call sets the caller's timer, whether it will wait or not.
Armed(t) == [PD EXCEPT ![Current_Process].request_timeout = t]

Mailbox_Send(mb, msg) == Kernel_Mailbox_Send(mb, msg, FALSE, PD)
Mailbox_Recv(mb)      == Kernel_Mailbox_Recv(mb, FALSE, PD)
Mailbox_Send_Blocking(mb, msg, t) == Running /\ Kernel_Mailbox_Send(mb, msg, TRUE, Armed(t))
Mailbox_Recv_Blocking(mb, t)      == Running /\ Kernel_Mailbox_Recv(mb, TRUE, Armed(t))

-----------------------------------------------------------------------------
MailboxInit ==
    /\ Init
    /\ MailboxList = <<>>
    /\ mailbox = <<>>
    /\ request = [p \in 1..MaxPid |-> "NULL"]
    /\ received = [p \in 1..MaxPid |-> "NULL"]

MailboxCall ==
    \/ \E capacity \in Capacities : Mailbox_Create(capacity)
    \/ Mailbox_Destroy_Mail
    \/ \E mb \in MailboxArgs :
          \/ Mailbox_Destroy(mb)
          \/ Mailbox_Check(mb)
          \/ Mailbox_Recv(mb)
          \/ \E t \in Timeouts : Mailbox_Recv_Blocking(mb, t)
          \/ \E msg \in Messages :
                Mailbox_Send(mb, msg) \/ \E t \in Timeouts : Mailbox_Send_Blocking(mb, msg, t)

MailboxNext == MailboxCall \/ (Next /\ UNCHANGED mailboxVars)

MailboxSpec == MailboxInit /\ [][MailboxNext]_allVars

-----------------------------------------------------------------------------
(* Properties.                                                             *)

\* Types; a mailbox never stores more mails than its capacity.
MailboxTypeOK ==
    /\ TypeOK
    /\ MailboxList \in Seq(DOMAIN mailbox)
    /\ mailbox \in Seq(MailboxType)
    /\ \A mb \in DOMAIN mailbox : Len(mailbox[mb].mails) <= mailbox[mb].capacity
    /\ request \in [1..MaxPid -> Contents \cup {"NULL", "MAIL"}]
    /\ received \in [1..MaxPid -> Contents \cup {"NULL"}]

\* The wait queues p is in, as pairs of a mailbox and the name of the queue.
Queued(p) == {w \in (DOMAIN mailbox) \X {"send_queue", "recv_queue"} : p \in ToSet(mailbox[w[1]][w[2]])}

\* A task in a wait queue is in the call that put it there, so that what is
\* read from its arguments is a message, and what is written through them a
\* MAIL; and it is in one queue, once.
CallersWait ==
    /\ \A p \in DOMAIN PD :
          /\ \A v, w \in Queued(p) : v = w
          /\ \A w \in Queued(p) :
                /\ PD[p].state = "WAIT_MAILBOX"
                /\ IF w[2] = "recv_queue" THEN request[p] = "MAIL" ELSE request[p] \in Messages
    /\ \A mb \in DOMAIN mailbox : \A q \in {mailbox[mb].send_queue, mailbox[mb].recv_queue} :
          \A i, j \in DOMAIN q : q[i] = q[j] => i = j

\* "put the sender into a wait state until a free slot has opened up"
\* (mailbox.c:192), "If anyone is currently waiting for the recv queue, wake
\* them up" (mailbox.c:217): a task blocked in a send waits only while the
\* mailbox is full, and one blocked in a receive only while it is empty.
NobodyWaitsInVain ==
    \A mb \in DOMAIN mailbox :
        LET box == mailbox[mb]
        IN \A p \in DOMAIN PD : PD[p].state = "WAIT_MAILBOX" =>
              /\ p \in ToSet(box.send_queue) => Len(box.mails) = box.capacity
              /\ p \in ToSet(box.recv_queue) => box.mails = <<>>

\* Each mailbox as a channel; before it is created the channel is not open.
Box(mb) == IF mb \in DOMAIN mailbox THEN mailbox[mb] ELSE NewMailbox(0)

Channel(mb) == INSTANCE MailChannel WITH
    Task     <- 1..MaxPid,
    Message  <- Messages,
    Lossy    <- MallocMayFail,
    Others   <- MaxMailboxID > 1,
    capacity <- Box(mb).capacity,
    stored   <- Box(mb).mails,
    offered  <- [i \in DOMAIN Box(mb).send_queue |-> request[Box(mb).send_queue[i]]],
    takers   <- Box(mb).recv_queue,
    got      <- received

\* As long as no call times out, the mailboxes of the code implement the
\* abstract channel: nothing is lost, duplicated or overtaken, and no task is
\* kept waiting by a mailbox that could serve it.
ImplementsMailChannel ==
    /\ \A mb \in 1..MaxMailboxID : Channel(mb)!ChannelInit
    /\ [][\A mb \in 1..MaxMailboxID :
             [Channel(mb)!ChannelNext]_(Channel(mb)!channelVars)]_allVars

=============================================================================
