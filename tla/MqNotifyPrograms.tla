-------------------------- MODULE MqNotifyPrograms --------------------------
(***************************************************************************)
(* The programs of codes/5.MessageQueue that mq_notify tells of messages:  *)
(* mqnotifysig1.c to mqnotifysig4.c by a signal, mqnotifysig5.c by a byte  *)
(* that the handler of the signal writes to a pipe, mqnotifythread1.c by a *)
(* new thread, each with senders like mqsend.c.  program says which runs.  *)
(***************************************************************************)
EXTENDS MqNotify

VARIABLES program,
          pending, mqflag, pc,     \* MqNotifySig; MqNotifyPipe: pending, pc
          starting, receiving      \* MqNotifyThread; MqNotifyPipe: starting, for bytes

signal == <<pending, mqflag, pc>>
thread == <<starting, receiving>>
nvars  == <<program, mq, signal, thread>>

S == INSTANCE MqNotifySig
T == INSTANCE MqNotifyThread
B == INSTANCE MqNotifyPipe WITH bytes <- starting

NotifyInit ==
  \/ S!Init /\ starting = 0 /\ receiving = 0
  \/ program = "sig5" /\ B!Init /\ mqflag = FALSE /\ receiving = 0
  \/ program = "thread1" /\ T!Init /\ pending = FALSE /\ mqflag = FALSE /\ pc = "wait"

BySignal == /\ UNCHANGED program /\ program \notin {"sig5", "thread1"}
            /\ UNCHANGED thread
ByPipe   == UNCHANGED program /\ program = "sig5" /\ UNCHANGED <<mqflag, receiving>>
ByThread == UNCHANGED program /\ program = "thread1" /\ UNCHANGED signal

Sender  == (BySignal /\ S!Sender) \/ (ByPipe /\ B!Sender) \/ (ByThread /\ T!Sender)
Program == (BySignal /\ S!Program) \/ (ByPipe /\ B!Program) \/ (ByThread /\ T!NotifyThread)

NotifyNext == Sender \/ Program

\* The program goes on as long as it can; nobody has to send.
NotifySpec == NotifyInit /\ [][NotifyNext]_nvars /\ WF_nvars(Program)
-----------------------------------------------------------------------------
(***************************************************************************)
(* mq_notify is never called while the registration of before still        *)
(* stands, by a signal that is delivered late or by another thread.  It    *)
(* would fail with EBUSY, which mqnotifysig1.c:48, mqnotifysig2.c:55 and   *)
(* mqnotifysig3.c:51 ignore and the others take for fatal.                 *)
(***************************************************************************)
NeverRegistersTwice == IF program = "thread1" THEN T!OneRegisters ELSE S!NeverRegistersTwice

(***************************************************************************)
(* The mq_receive of sig1 and sig2, which would block in an empty queue -  *)
(* that of sig1 in a signal handler -, always finds a message              *)
(* (mqnotifysig1.c:49, mqnotifysig2.c:56); and the read of sig5 a byte     *)
(* (mqnotifysig5.c:40).                                                    *)
(***************************************************************************)
NeverBlocks == /\ program \in {"sig1", "sig2"} => S!NeverBlocks
               /\ program = "sig5" => B!NeverBlocks

(***************************************************************************)
(* sig3, sig4, sig5 and thread1 do not overlook a message                  *)
(* (mqnotifysig3.c:51-54, mqnotifysig5.c:41-44, mqnotifythread1.c:38-43):  *)
(* with nothing under way the queue is empty, if it was so at the start.   *)
(***************************************************************************)
NoneStranded == CASE program = "thread1" -> T!NoneStranded
                  [] program = "sig5" -> B!NoneStranded
                  [] OTHER -> S!NoneStranded

\* A message is left in the queue with nothing to announce it.
Stranded == CASE program = "thread1" -> FALSE
              [] program = "sig5" -> B!Stranded
              [] OTHER -> S!Stranded

(***************************************************************************)
(* The problem of sig1 and sig2 (mqnotifysig2.c:70-74) has no end, and so  *)
(* has that of any program that finds messages when it registers: once a   *)
(* message is left in the queue with nothing to announce it, no message is *)
(* received any more, however many follow.                                 *)
(***************************************************************************)
StaysStranded == [][Stranded => Stranded']_nvars

(***************************************************************************)
(* The programs that drain the queue ("takes all messages each time",      *)
(* mqnotifysig3.c:69) have all messages in the end, if it was empty when   *)
(* they registered.                                                        *)
(***************************************************************************)
AllReceived ==
  (program \notin {"sig1", "sig2"} /\ before = 0 /\ queue > 0) ~> (queue = 0)
=============================================================================
