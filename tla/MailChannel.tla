---------------------------- MODULE MailChannel -----------------------------
(***************************************************************************)
(* What a mailbox promises, without a kernel: a channel that stores a      *)
(* bounded number of messages and delivers them in the order in which they *)
(* were sent.  A message offered to a full channel waits until there is    *)
(* room; a task that asks an empty one waits until there is a message, and *)
(* gets the first one that comes after those of the tasks before it.       *)
(***************************************************************************)
EXTENDS Naturals, Sequences

CONSTANTS
    Task, Message,
    Lossy,           \* TRUE when the message of a sender that waits may be lost
    Others           \* TRUE when there are other channels

VARIABLES
    capacity,        \* 0 until the channel is opened
    stored,          \* the messages in the channel
    offered,         \* the messages of the senders that wait, in order
    takers,          \* the tasks that wait for a message, in order
    got              \* got[t]: what task t has taken and not dropped

channelVars == <<capacity, stored, offered, takers, got>>

Open == capacity = 0 /\ capacity' \in Nat /\ UNCHANGED <<stored, offered, takers, got>>

\* A message that finds room, a task that waits for it, or neither.
Put(m) ==
    /\ capacity > 0
    /\ \/ /\ takers = <<>> /\ Len(stored) < capacity
          /\ stored' = Append(stored, m)
          /\ UNCHANGED <<offered, takers, got>>
       \/ /\ takers # <<>>
          /\ got' = [got EXCEPT ![Head(takers)] = m]
          /\ takers' = Tail(takers)
          /\ UNCHANGED <<stored, offered>>
       \/ /\ takers = <<>> /\ Len(stored) = capacity
          /\ offered' = Append(offered, m)
          /\ UNCHANGED <<stored, takers, got>>
    /\ UNCHANGED capacity

\* Task t takes the first message.  The first one on offer moves up; when the
\* channel is lossy some may get lost before one does.
Take(t) ==
    /\ stored # <<>>
    /\ got' = [got EXCEPT ![t] = Head(stored)]
    /\ \E lost \in 0..Len(offered) :
          LET left == SubSeq(offered, lost + 1, Len(offered))
          IN /\ lost > 0 => Lossy
             /\ IF left = <<>> THEN stored' = Tail(stored) /\ offered' = <<>>
                ELSE stored' = Append(Tail(stored), Head(left)) /\ offered' = Tail(left)
    /\ UNCHANGED <<capacity, takers>>

Await(t) ==
    /\ stored = <<>>
    /\ takers' = Append(takers, t)
    /\ UNCHANGED <<capacity, stored, offered, got>>

\* A task drops what it has, or finds nothing and has nothing.
Clear(t) == got' = [got EXCEPT ![t] = "NULL"] /\ UNCHANGED <<capacity, stored, offered, takers>>

\* Another channel gives task t a message.
Elsewhere(t) ==
    /\ Others
    /\ \E m \in Message : got' = [got EXCEPT ![t] = m]
    /\ UNCHANGED <<capacity, stored, offered, takers>>

Close == stored' = <<>> /\ offered' = <<>> /\ takers' = <<>> /\ UNCHANGED <<capacity, got>>

ChannelInit ==
    /\ capacity = 0
    /\ stored = <<>> /\ offered = <<>> /\ takers = <<>>
    /\ got = [t \in Task |-> "NULL"]

ChannelNext ==
    \/ Open
    \/ \E m \in Message : Put(m)
    \/ \E t \in Task : Take(t) \/ Await(t) \/ Clear(t) \/ Elsewhere(t)
    \/ Close

ChannelSpec == ChannelInit /\ [][ChannelNext]_channelVars

=============================================================================
