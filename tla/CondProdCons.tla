---------------------------- MODULE CondProdCons ----------------------------
(***************************************************************************)
(* codes/7.Mutex_ConditionVariable/prodcons6.c: several producers fill an  *)
(* array under the mutex of `put' and count what they stored in `nready',  *)
(* under a mutex of its own and with a condition variable; one consumer    *)
(* reads buff[0], buff[1], ... with no mutex held.                         *)
(***************************************************************************)
EXTENDS Integers, Totals

CONSTANTS Producers,
          Nobody,      \* owner of a mutex that is free
          Consumer,    \* the thread of consume
          nitems

\* With no producers there would be nothing to count.
CondProdConsConstants ==
  /\ IsFiniteSet(Producers) /\ Producers # {} /\ Consumer \notin Producers
  /\ Nobody \notin Producers \cup {Consumer}
  /\ nitems \in Nat

VARIABLES
  buff, put_mutex, nput, nval,  \* the array and `put'; 0 in what is not stored
  nready_mutex, nready,         \* `nready'
  asleep,                       \* the consumer sleeps on nready.cond
  pc,                           \* where each thread is
  count,                        \* count[] of the producers, printed by main
  i                             \* the consumer's loop counter

put   == <<buff, put_mutex, nput, nval>>
ready == <<nready_mutex, nready>>
cons  == <<asleep, i>>
vars  == <<put, ready, cons, pc, count>>

Threads == Producers \cup {Consumer}

Init == /\ buff = [k \in 0..nitems-1 |-> 0]
        /\ put_mutex = Nobody /\ nput = 0 /\ nval = 0
        /\ nready_mutex = Nobody /\ nready = 0
        /\ asleep = FALSE /\ i = 0
        /\ pc = [t \in Threads |-> IF t = Consumer THEN "loop" ELSE "lock_put"]
        /\ count = [p \in Producers |-> 0]

Goto(t, from, to) == pc[t] = from /\ pc' = [pc EXCEPT ![t] = to]
-----------------------------------------------------------------------------
LockPut(p) == /\ Goto(p, "lock_put", "store")
              /\ put_mutex = Nobody /\ put_mutex' = p
              /\ UNCHANGED <<buff, nput, nval, ready, cons, count>>

\* if (put.nput >= nitems): unlock and return
AllStored == nput >= nitems
ProducerReturns(p) == /\ AllStored /\ Goto(p, "store", "end")
                      /\ put_mutex' = Nobody
                      /\ UNCHANGED <<buff, nput, nval, ready, cons, count>>

Store(p) == /\ ~AllStored /\ Goto(p, "store", "lock_nready")
            /\ buff' = [buff EXCEPT ![nput] = nval]
            /\ nput' = nput + 1 /\ nval' = nval + 1
            /\ put_mutex' = Nobody
            /\ UNCHANGED <<ready, cons, count>>

LockReady(p) == /\ Goto(p, "lock_nready", "count")
                /\ nready_mutex = Nobody /\ nready_mutex' = p
                /\ UNCHANGED <<put, nready, cons, count>>

\* if (nready.nready == 0) pthread_cond_signal(&nready.cond); nready.nready++
SignalAtOne == asleep' = (asleep /\ nready # 1)
Signal == asleep' = (asleep /\ nready # 0)
CountReady(p) == /\ Goto(p, "count", "lock_put")
                 /\ Signal /\ nready' = nready + 1
                 /\ nready_mutex' = Nobody
                 /\ count' = [count EXCEPT ![p] = @ + 1]
                 /\ UNCHANGED <<put, i>>

ConsumerLocks == /\ i < nitems /\ Goto(Consumer, "loop", "test")
                 /\ nready_mutex = Nobody /\ nready_mutex' = Consumer
                 /\ UNCHANGED <<put, nready, cons, count>>

\* while (nready.nready == 0) pthread_cond_wait(...)
NoneReady == nready = 0
Wait == /\ NoneReady /\ Goto(Consumer, "test", "wait")
        /\ asleep' = TRUE /\ nready_mutex' = Nobody
        /\ UNCHANGED <<put, nready, i, count>>

\* pthread_cond_wait returns with the mutex taken back.
WaitReturns == /\ ~asleep /\ Goto(Consumer, "wait", "test")
               /\ nready_mutex = Nobody /\ nready_mutex' = Consumer
               /\ UNCHANGED <<put, nready, cons, count>>

SpuriousWakeup == /\ asleep /\ asleep' = FALSE
                  /\ UNCHANGED <<put, ready, pc, i, count>>

TakeReady == /\ ~NoneReady /\ Goto(Consumer, "test", "compare")
             /\ nready' = nready - 1 /\ nready_mutex' = Nobody
             /\ UNCHANGED <<put, cons, count>>

\* if (buff[i] != i) printf(...): ReadsOnlyStored says that they never differ.
Compare == /\ Goto(Consumer, "compare", "loop") /\ i' = i + 1
           /\ UNCHANGED <<put, ready, asleep, count>>

ConsumerReturns == /\ i >= nitems /\ Goto(Consumer, "loop", "end")
                   /\ UNCHANGED <<put, ready, cons, count>>

Produce(p) == LockPut(p) \/ ProducerReturns(p) \/ Store(p) \/ LockReady(p) \/ CountReady(p)
Consume == ConsumerLocks \/ Wait \/ WaitReturns \/ TakeReady \/ Compare \/ ConsumerReturns

Step(t) == (t \in Producers /\ Produce(t)) \/ (t = Consumer /\ Consume)

\* main has joined all threads and exits.
AllEnded == \A t \in Threads : pc[t] = "end"
-----------------------------------------------------------------------------
Stored == {p \in Producers : pc[p] \in {"lock_nready", "count"}}

(***************************************************************************)
(* The consumer never compares a cell that is not yet stored, although it  *)
(* reads the array without a mutex and producers may count their items in  *)
(* nready in another order than they stored them (prodcons6.c:103).        *)
(***************************************************************************)
ReadsOnlyStored == pc[Consumer] = "compare" => i < nput /\ buff[i] = i

(***************************************************************************)
(* Every stored item is in nready, taken by the consumer, or about to be   *)
(* counted by the producer that stored it: none is lost between the two    *)
(* critical sections of produce (prodcons6.c:79-84).                       *)
(***************************************************************************)
ItemsAccounted ==
  nput = nready + Cardinality(Stored) + i + IF pc[Consumer] = "compare" THEN 1 ELSE 0

(***************************************************************************)
(* The signal of prodcons6.c:82-83, sent only when the counter was 0, is   *)
(* enough: the consumer does not sleep while something is ready.           *)
(***************************************************************************)
SleepsOnlyOnNothing == asleep => nready = 0

(***************************************************************************)
(* All items are counted, once each, when main prints the counts           *)
(* (prodcons6.c:56-59).                                                    *)
(***************************************************************************)
CountsAddUp == (\A p \in Producers : pc[p] = "end") => Total(count) = nitems
=============================================================================
