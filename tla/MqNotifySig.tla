---------------------------- MODULE MqNotifySig ----------------------------
(***************************************************************************)
(* codes/5.MessageQueue/mqnotifysig1.c to mqnotifysig4.c: a program that   *)
(* SIGUSR1 tells of messages.  program says which.  They differ in two     *)
(* ways:                                                                   *)
(*                                                                         *)
(*           UsesFlag     Drains                                           *)
(*   sig1    FALSE        FALSE   the handler receives                     *)
(*   sig2    TRUE         FALSE   the handler sets mqflag, main receives   *)
(*   sig3    TRUE         TRUE    the same, with a non-blocking queue      *)
(*   sig4    FALSE        TRUE    main waits in sigwait                    *)
(*                                                                         *)
(* SIGUSR1 is not queued: it is pending or not.                            *)
(***************************************************************************)
EXTENDS MqNotify

VARIABLES program,   \* "sig1" to "sig4"
          pending,   \* SIGUSR1 has been sent and not delivered
          mqflag,
          pc         \* "open": SIGUSR1 is not blocked; "wait": in sigsuspend, or
                     \* in pause or sigwait; the other places are named for
                     \* the call that is next

own  == <<pending, mqflag, pc>>
vars == <<program, mq, own>>

UsesFlag == program \in {"sig2", "sig3"}
Drains   == program \in {"sig3", "sig4"}

Init == /\ program \in {"sig1", "sig2", "sig3", "sig4"}
        /\ QueueInit /\ pending = FALSE /\ mqflag = FALSE
        /\ pc = IF UsesFlag THEN "open" ELSE "wait"

Goto(from, to) == pc = from /\ pc' = to
-----------------------------------------------------------------------------
Sender == Send /\ pending' = (pending \/ Notifies) /\ UNCHANGED <<mqflag, pc>>

\* The handler of sig2 and sig3 runs while the signal is not blocked, or in
\* sigsuspend, which then returns.
Handler == /\ UsesFlag /\ pending /\ pc \in {"open", "wait"}
           /\ mqflag' = TRUE /\ pending' = FALSE
           /\ pc' = IF pc = "wait" THEN "test" ELSE pc
           /\ UNCHANGED mq

BlockSignal == Goto("open", "test") /\ UNCHANGED <<mq, pending, mqflag>>
SuspendNot  == ~mqflag /\ Goto("test", "register") /\ UNCHANGED <<mq, pending, mqflag>>
Suspend     == ~mqflag /\ Goto("test", "wait") /\ UNCHANGED <<mq, pending, mqflag>>
ResetFlagNot == mqflag /\ Goto("test", "register") /\ UNCHANGED <<mq, pending, mqflag>>
ResetFlag   == /\ mqflag /\ Goto("test", "register") /\ mqflag' = FALSE
               /\ UNCHANGED <<mq, pending>>

\* sig1: the handler starts; sig4: sigwait returns.
NotifiedKeeps == ~UsesFlag /\ pending /\ Goto("wait", "register") /\ UNCHANGED <<mq, pending, mqflag>>
Notified == /\ ~UsesFlag /\ pending /\ Goto("wait", "register")
            /\ pending' = FALSE /\ UNCHANGED <<mq, mqflag>>

\* mq_notify comes before mq_receive: "reregister first".
Reregister == Goto("register", "receive") /\ Register /\ UNCHANGED <<pending, mqflag>>

\* sig1 and sig2 receive one message, sig3 and sig4 all up to EAGAIN.
AfterReceive == IF UsesFlag THEN "open" ELSE "wait"
DrainsNot == FALSE
ReceivesAll == Drains
ReceiveOne == ~ReceivesAll /\ Goto("receive", AfterReceive) /\ Receive /\ UNCHANGED <<pending, mqflag>>
ReceiveNext == ReceivesAll /\ pc = "receive" /\ Receive /\ UNCHANGED own
ReceiveEnds == /\ ReceivesAll /\ queue = 0 /\ Goto("receive", AfterReceive)
               /\ UNCHANGED <<mq, pending, mqflag>>

Program == \/ Handler \/ BlockSignal \/ Suspend \/ ResetFlag \/ Notified \/ Reregister
           \/ ReceiveOne \/ ReceiveNext \/ ReceiveEnds
-----------------------------------------------------------------------------
(***************************************************************************)
(* mq_notify is never called while the registration of before still stands *)
(* (mqnotifysig1.c:48, mqnotifysig2.c:55, mqnotifysig3.c:51): it would     *)
(* fail with EBUSY, which sig4 takes for fatal and the others ignore.      *)
(***************************************************************************)
NeverRegistersTwice == pc = "register" => ~registered

\* Nothing under way that would make the program receive.
Idle == pc \in {"open", "test", "wait"} /\ ~pending /\ ~mqflag

(***************************************************************************)
(* A message that comes to sig3 or sig4 is never overlooked: while the     *)
(* program has nothing to do, the queue is empty and a message to come     *)
(* will be announced (mqnotifysig3.c:51-54), if it was empty at the start. *)
(***************************************************************************)
NoneStranded == Drains /\ before = 0 /\ Idle => queue = 0 /\ registered

(***************************************************************************)
(* The mq_receive of sig1 and sig2, which would block in an empty queue -  *)
(* that of sig1 in a signal handler -, always finds a message              *)
(* (mqnotifysig1.c:49, mqnotifysig2.c:56).                                 *)
(***************************************************************************)
NeverBlocks == ~Drains /\ pc = "receive" => queue > 0

(***************************************************************************)
(* The problem of sig1 and sig2 (mqnotifysig2.c:70-74): a message is left  *)
(* in the queue with nothing to announce it.                               *)
(***************************************************************************)
Stranded == Idle /\ queue > 0
=============================================================================
