------------------------------ MODULE MsgQueues ------------------------------
(***************************************************************************)
(* What src/msg.c promises: a pool of messages and a queue of messages for *)
(* each thread. This is what the other modules take for granted of it when *)
(* they model a t_inbox as a sequence and the pool as a number.            *)
(***************************************************************************)
EXTENDS Integers, SequencesExt

CONSTANTS
    msgTable,   \* the messages, in the order of the table
    Inbox,      \* the threads that have a t_inbox
    Sender,     \* who a message may come from
    NIL         \* no message; as a source, any sender

VARIABLES
    free,       \* the messages of the pool, the next one to be used first
    inbox,      \* the queue of each thread, the oldest message first
    m_sender,   \* the sender of each message
    hand,       \* the message freeTcb() has taken out and not freed yet
    intact      \* do the lists still mean anything?

qvars == <<free, inbox, m_sender, hand, intact>>

QInit ==
    /\ free = Reverse(msgTable)
    /\ inbox = [d \in Inbox |-> <<>>]
    /\ m_sender = [m \in ToSet(msgTable) |-> NIL]
    /\ hand = NIL
    /\ intact = TRUE

\* A message of the pool goes to the end of the queue of d.
Post(d, s) ==
    /\ free # <<>>
    /\ free' = Tail(free)
    /\ inbox' = [inbox EXCEPT ![d] = Append(@, Head(free))]
    /\ m_sender' = [m_sender EXCEPT ![Head(free)] = s]
    /\ UNCHANGED hand

\* The positions of the messages of d from source.
From(d, source) ==
    {i \in 1 .. Len(inbox[d]) : source = NIL \/ m_sender[inbox[d][i]] = source}

\* The oldest message of d from source goes back to the pool.
Take(d, source) ==
    \E i \in From(d, source) :
        /\ \A j \in From(d, source) : i <= j
        /\ inbox' = [inbox EXCEPT ![d] = RemoveAt(@, i)]
        /\ free' = <<inbox[d][i]>> \o free
        /\ UNCHANGED <<m_sender, hand>>

\* The messages of a thread that dies go back to the pool one by one.
Pull(d) ==
    /\ hand = NIL /\ inbox[d] # <<>>
    /\ hand' = Head(inbox[d])
    /\ inbox' = [inbox EXCEPT ![d] = Tail(@)]
    /\ UNCHANGED <<free, m_sender>>

PutBack ==
    /\ hand # NIL /\ hand' = NIL
    /\ free' = <<hand>> \o free
    /\ UNCHANGED <<inbox, m_sender>>

QNext ==
    \/ /\ intact /\ UNCHANGED intact
       /\ \/ \E d \in Inbox, s \in Sender : Post(d, s)
          \/ \E d \in Inbox, source \in Sender \cup {NIL} : Take(d, source)
          \/ \E d \in Inbox : Pull(d)
          \/ PutBack
    \/ intact' = FALSE

QSpec == QInit /\ [][QNext]_qvars

=============================================================================
