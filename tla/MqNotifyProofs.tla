--------------------------- MODULE MqNotifyProofs ---------------------------
(***************************************************************************)
(* Theorems of MqNotifyPrograms for queues of any length and any number of *)
(* messages.  They rest on one fact: there is always exactly one           *)
(* permission to register.  It is the registration itself, or the signal   *)
(* that took it away, or the flag the handler has set (in mqnotifysig5.c   *)
(* the byte it has written), or the program on its way to mq_notify (in    *)
(* mqnotifythread1.c, one new thread).                                     *)
(***************************************************************************)
EXTENDS MqNotifyPrograms, TLAPS

Shape ==
  /\ program \in {"sig1", "sig2", "sig3", "sig4", "sig5", "thread1"}
  /\ queue \in Nat /\ registered \in BOOLEAN /\ before \in Nat
  /\ pending \in BOOLEAN /\ mqflag \in BOOLEAN
  /\ pc \in {"open", "test", "wait", "register", "receive", "select", "read"}
  /\ starting \in Nat /\ receiving \in Nat

\* The places of the programs with a signal.
SignalPc == pc \in {"open", "test", "wait", "register", "receive"}
Signalled == pending \/ mqflag \/ pc = "register"

\* The permission of the programs with a signal.
OnePermission ==
  /\ registered <=> ~Signalled
  /\ pending => ~mqflag /\ pc # "register"
  /\ mqflag => pc # "register"

\* sig1 and sig2 have a message for each notification until they receive it.
MessageIsThere ==
  ~S!Drains =>
    /\ Signalled => queue > 0
    /\ pc = "receive" => queue > 0 /\ registered

\* sig3 and sig4, registered and not receiving, have an empty queue.
QueueIsEmpty ==
  S!Drains /\ before = 0 /\ registered /\ pc # "receive" => queue = 0

\* The permission of mqnotifysig5.c, where starting counts the bytes.
OneByte ==
  /\ pc \in {"select", "read", "register", "receive"}
  /\ starting \in {0, 1}
  /\ registered <=> ~(pending \/ starting = 1 \/ pc = "register")
  /\ pending => starting = 0
  /\ pc = "register" => ~pending /\ starting = 0
  /\ pc = "read" => starting = 1

\* mqnotifysig5.c, registered and not receiving, has an empty queue.
PipeQueueIsEmpty == before = 0 /\ registered /\ pc # "receive" => queue = 0

IInv == /\ Shape
        /\ program \notin {"sig5", "thread1"} =>
             SignalPc /\ OnePermission /\ MessageIsThere /\ QueueIsEmpty
        /\ program = "sig5" => OneByte /\ PipeQueueIsEmpty
        /\ program = "thread1" => T!OneRegisters /\ T!NoneStranded
-----------------------------------------------------------------------------
LEMMA InitInvariant == NotifyInit => IInv
<1> SUFFICES ASSUME NotifyInit PROVE IInv
  OBVIOUS
<1>0. before \in Nat /\ queue = before /\ registered = TRUE
  <2>1. before \in Before /\ queue = before /\ registered = TRUE
    BY DEF NotifyInit, S!Init, B!Init, T!Init, S!QueueInit, B!QueueInit, T!QueueInit
  <2> QED
    BY <2>1, QueueAssumption
<1>1. CASE S!Init /\ starting = 0 /\ receiving = 0
  BY <1>0, <1>1 DEF S!Init, S!UsesFlag, S!Drains, IInv, Shape, SignalPc, OnePermission,
                    Signalled, MessageIsThere, QueueIsEmpty
<1>3. CASE program = "sig5" /\ B!Init /\ mqflag = FALSE /\ receiving = 0
  <2>1. pending = FALSE /\ starting = 0 /\ pc = "select"
    BY <1>3 DEF B!Init
  <2>2. Shape
    BY <1>0, <1>3, <2>1 DEF Shape
  <2>3. OneByte /\ PipeQueueIsEmpty
    BY <1>0, <2>1 DEF OneByte, PipeQueueIsEmpty
  <2> QED
    BY <1>3, <2>2, <2>3 DEF IInv
<1>2. CASE program = "thread1" /\ T!Init /\ pending = FALSE /\ mqflag = FALSE /\ pc = "wait"
  <2>1. starting = 0 /\ receiving = 0
    BY <1>2 DEF T!Init
  <2>2. Shape
    BY <1>0, <1>2, <2>1 DEF Shape
  <2>3. T!OneRegisters /\ T!NoneStranded
    BY <1>0, <2>1 DEF T!OneRegisters, T!NoneStranded
  <2> QED
    BY <1>2, <2>2, <2>3 DEF IInv
<1> QED
  BY <1>1, <1>2, <1>3 DEF NotifyInit

\* The invariant for the programs with a signal.
SignalInv == Shape /\ SignalPc /\ OnePermission /\ MessageIsThere /\ QueueIsEmpty

LEMMA SenderStep ==
  ASSUME SignalInv, BySignal, S!Sender
  PROVE  SignalInv'
<1> USE DEF SignalInv, BySignal, thread, S!Sender, Send, S!Notifies, Notifies, S!Send
<1>1. Shape' /\ SignalPc'
  BY DEF Shape, SignalPc
<1>2. OnePermission'
  BY DEF Shape, OnePermission, Signalled
<1>3. MessageIsThere'
  BY DEF Shape, OnePermission, Signalled, MessageIsThere, S!Drains
<1>4. QueueIsEmpty'
  BY DEF Shape, QueueIsEmpty, S!Drains
<1> QED
  BY <1>1, <1>2, <1>3, <1>4

\* Steps up to the call of mq_notify: delivery, tests, and the wait itself.
LEMMA NotifiedStep ==
  ASSUME SignalInv, BySignal,
         S!Handler \/ S!BlockSignal \/ S!Suspend \/ S!ResetFlag \/ S!Notified
  PROVE  SignalInv'
<1> USE DEF SignalInv, BySignal, thread, mq, S!mq, S!Goto,
            S!Handler, S!BlockSignal, S!Suspend, S!ResetFlag, S!Notified
<1>1. Shape' /\ SignalPc'
  BY DEF Shape, SignalPc
<1>2. OnePermission'
  BY DEF Shape, OnePermission, Signalled
<1>3. MessageIsThere'
  BY DEF Shape, OnePermission, Signalled, MessageIsThere, S!Drains
<1>4. QueueIsEmpty'
  BY DEF Shape, OnePermission, Signalled, QueueIsEmpty, S!Drains
<1> QED
  BY <1>1, <1>2, <1>3, <1>4

LEMMA ReceiveStep ==
  ASSUME SignalInv, BySignal,
         S!Reregister \/ S!ReceiveOne \/ S!ReceiveNext \/ S!ReceiveEnds
  PROVE  SignalInv'
<1> USE DEF SignalInv, BySignal, thread, mq, S!mq, S!own, S!Goto, S!Register, S!Receive,
            S!Reregister, S!ReceiveOne, S!ReceiveNext, S!ReceiveEnds, S!ReceivesAll,
            S!AfterReceive, S!UsesFlag
<1>1. Shape' /\ SignalPc'
  <2>1. /\ queue' = queue \/ (queue > 0 /\ queue' = queue - 1)
        /\ registered' = registered \/ registered' = TRUE
    OBVIOUS
  <2>2. pc' \in {"open", "test", "wait", "register", "receive"}
    BY DEF SignalPc
  <2>3. UNCHANGED <<program, before, pending, mqflag, starting, receiving>>
    OBVIOUS
  <2>4. queue' \in Nat
    BY <2>1 DEF Shape
  <2>5. registered' \in BOOLEAN
    BY <2>1 DEF Shape
  <2> QED
    BY <2>2, <2>3, <2>4, <2>5 DEF Shape, SignalPc
<1>2. OnePermission'
  BY DEF Shape, OnePermission, Signalled
<1>3. MessageIsThere'
  BY DEF Shape, OnePermission, Signalled, MessageIsThere, S!Drains
<1>4. QueueIsEmpty'
  BY DEF Shape, OnePermission, Signalled, QueueIsEmpty, S!Drains
<1> QED
  BY <1>1, <1>2, <1>3, <1>4

\* The invariant for mqnotifysig5.c.
PipeInv == Shape /\ OneByte /\ PipeQueueIsEmpty

LEMMA PipeSenderStep ==
  ASSUME PipeInv, ByPipe, B!Sender
  PROVE  PipeInv'
<1> USE DEF PipeInv, ByPipe, B!Sender, Send, B!Notifies, Notifies, B!Send
<1>1. Shape'
  BY DEF Shape
<1>2. OneByte'
  BY DEF Shape, OneByte
<1>3. PipeQueueIsEmpty'
  BY DEF Shape, PipeQueueIsEmpty
<1> QED
  BY <1>1, <1>2, <1>3

LEMMA PipeStep ==
  ASSUME PipeInv, ByPipe, B!Program
  PROVE  PipeInv'
<1> USE DEF PipeInv, ByPipe, B!mq, B!own, B!Goto
<1>1. CASE B!Handler
  <2>0. pending /\ pending' = FALSE
    BY <1>1, Zenon DEF B!Handler
  <2>1. /\ starting = 0 /\ starting' = 1 /\ pending /\ pending' = FALSE
        /\ UNCHANGED <<queue, registered, before, program, mqflag, receiving>>
    BY <1>1, <2>0 DEF B!Handler, OneByte
  <2>2. pc' = pc \/ (pc = "select" /\ pc' = "read")
    BY <1>1 DEF B!Handler, B!Interrupted
  <2>3. Shape'
    BY <2>1, <2>2 DEF Shape
  <2>4. OneByte'
    BY <2>1, <2>2 DEF OneByte
  <2>5. PipeQueueIsEmpty'
    BY <2>1, <2>2 DEF PipeQueueIsEmpty
  <2> QED
    BY <2>3, <2>4, <2>5
<1>2. CASE B!Select \/ B!Read \/ B!ReceiveEnds
  <2>1. UNCHANGED <<registered, queue, before, program, pending, mqflag, receiving>>
    BY <1>2 DEF B!Select, B!Read, B!ReceiveEnds
  <2>2. \/ pc = "select" /\ pc' = "read" /\ starting' = starting /\ starting > 0
        \/ pc = "read" /\ pc' = "register" /\ starting' = starting - 1
        \/ pc = "receive" /\ pc' = "select" /\ starting' = starting /\ queue = 0
    BY <1>2 DEF B!Select, B!Read, B!ReceiveEnds
  <2>3. Shape'
    BY <2>1, <2>2 DEF Shape, OneByte
  <2>4. OneByte'
    BY <2>1, <2>2 DEF OneByte
  <2>5. PipeQueueIsEmpty'
    BY <2>1, <2>2 DEF PipeQueueIsEmpty
  <2> QED
    BY <2>3, <2>4, <2>5
<1>3. CASE B!Reregister
  <2>1. /\ registered' = TRUE /\ pc = "register" /\ pc' = "receive"
        /\ UNCHANGED <<queue, before, program, pending, mqflag, starting, receiving>>
    BY <1>3 DEF B!Reregister, B!Register
  <2> QED
    BY <2>1 DEF Shape, OneByte, PipeQueueIsEmpty
<1>4. CASE B!ReceiveNext
  <2>1. /\ queue > 0 /\ queue' = queue - 1 /\ pc = "receive"
        /\ UNCHANGED <<registered, before, program, pending, mqflag, pc, starting, receiving>>
    BY <1>4 DEF B!ReceiveNext, B!Receive
  <2> QED
    BY <2>1 DEF Shape, OneByte, PipeQueueIsEmpty
<1> QED
  BY <1>1, <1>2, <1>3, <1>4 DEF B!Program

\* The invariant for mqnotifythread1.c.
ThreadInv == Shape /\ T!OneRegisters /\ T!NoneStranded

LEMMA ThreadStep ==
  ASSUME ThreadInv, ByThread, T!Sender \/ T!NotifyThread
  PROVE  ThreadInv'
<1> USE DEF ThreadInv, Shape, ByThread, signal, mq, T!mq, T!OneRegisters, T!NoneStranded,
            T!Notifies, T!Send, T!Register, T!Receive
<1>1. CASE T!Sender
  <2>1. CASE queue = 0 /\ registered
    <3>0. registered' = FALSE
      BY <1>1, <2>1, Zenon DEF T!Sender
    <3>1. registered' = FALSE /\ queue' = 1 /\ UNCHANGED <<before, receiving>>
      BY <1>1, <2>1, <3>0 DEF T!Sender
    <3>2. starting = 0 /\ starting' = 1
      BY <1>1, <2>1 DEF T!Sender
    <3>3. T!OneRegisters' /\ T!NoneStranded'
      BY <3>1, <3>2
    <3>4. Shape'
      BY <3>1, <3>2
    <3> QED
      BY <3>3, <3>4
  <2>2. CASE ~(queue = 0 /\ registered)
    BY <1>1, <2>2 DEF T!Sender
  <2> QED
    BY <2>1, <2>2
<1>2. CASE T!Reregister
  BY <1>2 DEF T!Reregister
<1>3. CASE T!ReceiveNext
  BY <1>3 DEF T!ReceiveNext
<1>4. CASE T!ThreadEnds
  BY <1>4 DEF T!ThreadEnds, T!NoMessage
<1> QED
  BY <1>1, <1>2, <1>3, <1>4 DEF T!NotifyThread

LEMMA NextInvariant == IInv /\ [NotifyNext]_nvars => IInv'
<1> SUFFICES ASSUME IInv, [NotifyNext]_nvars PROVE IInv'
  OBVIOUS
<1>1. CASE UNCHANGED nvars
  BY <1>1 DEF nvars, mq, signal, thread, IInv, Shape, SignalPc, OnePermission, Signalled,
              MessageIsThere, QueueIsEmpty, OneByte, PipeQueueIsEmpty, S!Drains,
              T!OneRegisters, T!NoneStranded
<1>2. CASE BySignal /\ (S!Sender \/ S!Program)
  <2>1. SignalInv
    BY <1>2 DEF IInv, SignalInv, BySignal
  <2>2. SignalInv'
    BY <1>2, <2>1, SenderStep, NotifiedStep, ReceiveStep DEF S!Program
  <2> QED
    BY <1>2, <2>2 DEF BySignal, SignalInv, IInv
<1>3. CASE ByThread /\ (T!Sender \/ T!NotifyThread)
  <2>1. ThreadInv
    BY <1>3 DEF IInv, ThreadInv, ByThread
  <2>2. ThreadInv'
    BY <1>3, <2>1, ThreadStep
  <2> QED
    BY <1>3, <2>2 DEF ByThread, ThreadInv, IInv
<1>4. CASE ByPipe /\ (B!Sender \/ B!Program)
  <2>1. PipeInv
    BY <1>4 DEF IInv, PipeInv, ByPipe
  <2>2. PipeInv'
    BY <1>4, <2>1, PipeSenderStep, PipeStep
  <2> QED
    BY <1>4, <2>2 DEF ByPipe, PipeInv, IInv
<1> QED
  BY <1>1, <1>2, <1>3, <1>4 DEF NotifyNext, Sender, Program

LEMMA Invariance == NotifySpec => []IInv
<1>1. IInv /\ [NotifyNext]_nvars => IInv'
  BY NextInvariant
<1> QED
  BY InitInvariant, <1>1, PTL DEF NotifySpec

(***************************************************************************)
(* mq_notify is never called while the registration of before still stands *)
(* (mqnotifysig1.c:48, mqnotifysig2.c:55, mqnotifysig3.c:51,               *)
(* mqnotifysig5.c:41, mqnotifythread1.c:38): no program meets EBUSY.       *)
(***************************************************************************)
THEOREM RegistersOnce == NotifySpec => []NeverRegistersTwice
<1>1. IInv => NeverRegistersTwice
  BY DEF IInv, Shape, OnePermission, Signalled, OneByte, NeverRegistersTwice,
         S!NeverRegistersTwice
<1> QED
  BY <1>1, Invariance, PTL

(***************************************************************************)
(* mq_receive always finds a message in sig1 and sig2, whose queue is a    *)
(* blocking one (mqnotifysig1.c:49, mqnotifysig2.c:56), and the read of    *)
(* sig5 a byte in the pipe (mqnotifysig5.c:40).                            *)
(***************************************************************************)
THEOREM ReceivesAtOnce == NotifySpec => []NeverBlocks
<1>1. IInv => NeverBlocks
  BY DEF IInv, MessageIsThere, OneByte, NeverBlocks, S!NeverBlocks, B!NeverBlocks, S!Drains
<1> QED
  BY <1>1, Invariance, PTL

(***************************************************************************)
(* The programs that drain the queue overlook no message                   *)
(* (mqnotifysig3.c:51-54, mqnotifysig5.c:41-44, mqnotifythread1.c:38-43).  *)
(***************************************************************************)
THEOREM NothingStranded == NotifySpec => []NoneStranded
<1>1. IInv => NoneStranded
  <2> SUFFICES ASSUME IInv PROVE NoneStranded
    OBVIOUS
  <2>1. CASE program = "thread1"
    BY <2>1 DEF IInv, NoneStranded
  <2>2. CASE program = "sig5"
    BY <2>2 DEF IInv, Shape, OneByte, PipeQueueIsEmpty, NoneStranded, B!NoneStranded, B!Idle
  <2>3. CASE program \notin {"sig5", "thread1"}
    BY <2>3 DEF IInv, Shape, OnePermission, Signalled, QueueIsEmpty, NoneStranded,
                S!NoneStranded, S!Idle, S!Drains
  <2> QED
    BY <2>1, <2>2, <2>3
<1> QED
  BY <1>1, Invariance, PTL

(***************************************************************************)
(* What is stranded stays so (mqnotifysig2.c:70-74): with a message in the *)
(* queue and nothing under way, no later message is announced.             *)
(***************************************************************************)
THEOREM StrandedForGood == NotifySpec => StaysStranded
<1>1. IInv /\ [NotifyNext]_nvars => (Stranded => Stranded')
  <2> SUFFICES ASSUME IInv, [NotifyNext]_nvars, Stranded PROVE Stranded'
    OBVIOUS
  <2>1. CASE UNCHANGED nvars
    BY <2>1 DEF nvars, mq, signal, thread, Stranded, S!Stranded, S!Idle, B!Stranded, B!Idle
  <2>2. CASE BySignal /\ (S!Sender \/ S!Program)
    <3> USE DEF S!Stranded, S!Idle
    <3>1. S!Stranded /\ program' = program /\ program \notin {"sig5", "thread1"}
      BY <2>2 DEF BySignal, Stranded
    <3>2. CASE S!Sender
      BY <2>2, <3>1, <3>2 DEF S!Sender, S!Send, S!Notifies, IInv, Shape, Stranded
    <3>3. CASE S!Program
      BY <2>2, <3>1, <3>3 DEF S!Program, S!Handler, S!BlockSignal, S!Suspend, S!ResetFlag,
           S!Notified, S!Reregister, S!ReceiveOne, S!ReceiveNext, S!ReceiveEnds, S!Goto, mq,
           S!mq, Stranded
    <3> QED
      BY <2>2, <3>2, <3>3
  <2>3. CASE ByPipe /\ (B!Sender \/ B!Program)
    <3> USE DEF B!Stranded, B!Idle
    <3>1. B!Stranded /\ program' = "sig5" /\ program = "sig5"
      BY <2>3 DEF ByPipe, Stranded
    <3>2. CASE B!Sender
      BY <2>3, <3>1, <3>2 DEF B!Sender, B!Send, B!Notifies, IInv, Shape, Stranded
    <3>3. CASE B!Program
      BY <2>3, <3>1, <3>3 DEF B!Program, B!Handler, B!Select, B!Read, B!Reregister,
           B!ReceiveNext, B!ReceiveEnds, B!Goto, Stranded
    <3> QED
      BY <2>3, <3>2, <3>3
  <2> QED
    BY <2>1, <2>2, <2>3 DEF NotifyNext, Sender, Program, ByThread, Stranded
<1> QED
  BY <1>1, Invariance, PTL DEF NotifySpec, StaysStranded
=============================================================================
