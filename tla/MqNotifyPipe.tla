---------------------------- MODULE MqNotifyPipe ----------------------------
(***************************************************************************)
(* codes/5.MessageQueue/mqnotifysig5.c: the handler of SIGUSR1 writes a    *)
(* byte to a pipe; main waits for it in select, registers again and        *)
(* receives up to EAGAIN.                                                  *)
(*                                                                         *)
(* A select that the signal interrupts is either called again by the       *)
(* wrapper Select, or returns with rset as it was passed in, where         *)
(* FD_ISSET finds the bit of FD_SET.                                       *)
(***************************************************************************)
EXTENDS MqNotify

VARIABLES pending,   \* SIGUSR1 has been sent and not delivered
          bytes,     \* bytes in the pipe
          pc         \* named for the call that is next

own  == <<pending, bytes, pc>>
vars == <<mq, own>>

Init == QueueInit /\ pending = FALSE /\ bytes = 0 /\ pc = "select"

Goto(from, to) == pc = from /\ pc' = to
-----------------------------------------------------------------------------
Sender == Send /\ pending' = (pending \/ Notifies) /\ UNCHANGED <<bytes, pc>>

\* The signal is never blocked: the handler may run anywhere in main.
Interrupted == pc = "select" /\ pc' \in {"select", "read"}
Handler == /\ pending /\ pending' = FALSE /\ bytes' = bytes + 1
           /\ Interrupted \/ (pc # "select" /\ pc' = pc)
           /\ UNCHANGED mq

Select == Goto("select", "read") /\ bytes > 0 /\ UNCHANGED <<mq, pending, bytes>>
Read == /\ Goto("read", "register") /\ bytes > 0 /\ bytes' = bytes - 1
        /\ UNCHANGED <<mq, pending>>
Reregister == Goto("register", "receive") /\ Register /\ UNCHANGED <<pending, bytes>>
ReceiveNext == pc = "receive" /\ Receive /\ UNCHANGED own
ReceiveEnds == queue = 0 /\ Goto("receive", "select") /\ UNCHANGED <<mq, pending, bytes>>

Program == Handler \/ Select \/ Read \/ Reregister \/ ReceiveNext \/ ReceiveEnds
-----------------------------------------------------------------------------
\* Nothing under way that would make the program receive.
Idle == pc = "select" /\ ~pending /\ bytes = 0

(***************************************************************************)
(* The read of mqnotifysig5.c:40 finds a byte, even when FD_ISSET only     *)
(* sees the rset that an interrupted select has left alone.                *)
(***************************************************************************)
NeverBlocks == pc = "read" => bytes > 0

(***************************************************************************)
(* No message is overlooked (mqnotifysig5.c:41-44), if the queue was empty *)
(* at the start: with nothing under way it is empty, and the next message  *)
(* will be announced.                                                      *)
(***************************************************************************)
NoneStranded == before = 0 /\ Idle => queue = 0 /\ registered

\* A message is left in the queue with nothing to announce it.
Stranded == Idle /\ queue > 0
=============================================================================
