------------------------------ MODULE MqNotify ------------------------------
(***************************************************************************)
(* A POSIX message queue and its notification, as the programs mqnotify*.c *)
(* and mqsend.c of codes/5.MessageQueue use them.  One process may be      *)
(* registered; the message that arrives in the empty queue takes the       *)
(* registration away and notifies that process.  Registering again while   *)
(* registered fails with EBUSY.                                            *)
(***************************************************************************)
EXTENDS Integers

CONSTANTS MaxMsg,    \* attr.mq_maxmsg
          nmsgs,     \* messages that are sent in all, a bound for TLC
          Before     \* how many messages may be there when the program registers

ASSUME QueueAssumption == /\ MaxMsg \in Nat \ {0} /\ nmsgs \in Nat
                          /\ Before \subseteq 0..MaxMsg

VARIABLES queue,        \* the number of messages in the queue
          registered,   \* the program is registered for notification
          sent,
          before        \* how many messages were there when it registered

mq == <<queue, registered, sent, before>>

\* The program has registered for the first time.  What was in the queue
\* before is not announced.
QueueInit == before \in Before /\ queue = before /\ registered = TRUE /\ sent = 0

Notifies == queue = 0 /\ registered

\* mq_send, which waits while the queue is full
Send == /\ sent < nmsgs /\ queue < MaxMsg
        /\ sent' = sent + 1 /\ queue' = queue + 1
        /\ registered' = (registered /\ queue # 0)
        /\ UNCHANGED before

\* mq_notify
Register == registered' = TRUE /\ UNCHANGED <<queue, sent, before>>
\* mq_receive, which waits while the queue is empty
Receive == queue > 0 /\ queue' = queue - 1 /\ UNCHANGED <<registered, sent, before>>
=============================================================================
