--------------------------- MODULE MqNotifyThread ---------------------------
(***************************************************************************)
(* codes/5.MessageQueue/mqnotifythread1.c: every notification starts a     *)
(* thread of its own, which registers again and then receives up to        *)
(* EAGAIN.  Several of these threads may run at a time.                    *)
(***************************************************************************)
EXTENDS MqNotify

\* The threads that are about to register, and those that receive.
VARIABLES starting, receiving

vars == <<mq, starting, receiving>>

Init == QueueInit /\ starting = 0 /\ receiving = 0
-----------------------------------------------------------------------------
Sender == /\ Send /\ UNCHANGED receiving
          /\ starting' = starting + IF Notifies THEN 1 ELSE 0

Reregister == /\ starting > 0 /\ starting' = starting - 1 /\ receiving' = receiving + 1
              /\ Register

\* A thread receives a message; it may be the last one.
ReceiveNext == receiving > 0 /\ Receive /\ UNCHANGED <<starting, receiving>>
\* EAGAIN: the thread ends.
EndsAfterOne == TRUE
NoMessage == queue = 0
ThreadEnds == /\ receiving > 0 /\ NoMessage /\ receiving' = receiving - 1
              /\ UNCHANGED <<mq, starting>>

NotifyThread == Reregister \/ ReceiveNext \/ ThreadEnds
-----------------------------------------------------------------------------
(***************************************************************************)
(* At most one thread is about to register, and only when the registration *)
(* is gone: no thread gets EBUSY, which Mq_notify takes for fatal, however *)
(* many threads run (mqnotifythread1.c:38).                                *)
(***************************************************************************)
OneRegisters == starting + (IF registered THEN 1 ELSE 0) = 1

(***************************************************************************)
(* With messages in the queue, some thread is there to receive them: the   *)
(* threads do not leave a message to each other (mqnotifythread1.c:40-43), *)
(* if the queue was empty at the start.                                    *)
(***************************************************************************)
NoneStranded == before = 0 /\ queue > 0 => starting + receiving > 0
=============================================================================
