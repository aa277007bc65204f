--------------------------- MODULE ArrayProdCons ---------------------------
(***************************************************************************)
(* codes/7.Mutex_ConditionVariable/prodcons2.c and prodcons3.c: several    *)
(* producers fill an array under one mutex, one consumer checks buff[0],   *)
(* buff[1], ... with no mutex held.  In prodcons2 main creates the         *)
(* consumer when it has joined the producers; in prodcons3 it runs beside  *)
(* them and polls the mutex until its next item is there (polls).          *)
(***************************************************************************)
EXTENDS Integers, Totals

CONSTANTS Producers, Consumer,
          Nobody,      \* owner of the mutex when it is free
          nitems

\* With no producers the consumer of prodcons2 would find an empty array.
ArrayConstants == /\ IsFiniteSet(Producers) /\ Producers # {} /\ Consumer \notin Producers
                  /\ Nobody \notin Producers \cup {Consumer}
                  /\ nitems \in Nat

VARIABLES
  polls,                    \* prodcons3.c rather than prodcons2.c
  mutex, buff, nput, nval,  \* the struct `shared'
  pc,                       \* where each thread is
  count,                    \* count[] of the producers, printed by main
  i                         \* the consumer's loop counter

shared == <<mutex, buff, nput, nval>>
vars   == <<shared, pc, count, i>>

Threads == Producers \cup {Consumer}

Init == /\ polls \in BOOLEAN
        /\ mutex = Nobody /\ nput = 0 /\ nval = 0 /\ i = 0
        /\ buff = [k \in 0..nitems-1 |-> 0]
        /\ pc = [t \in Threads |-> IF t \in Producers THEN "lock"
                                   ELSE IF polls THEN "loop" ELSE "not_created"]
        /\ count = [p \in Producers |-> 0]

Goto(t, from, to) == pc[t] = from /\ pc' = [pc EXCEPT ![t] = to]
-----------------------------------------------------------------------------
LockMutex(t) == mutex = Nobody /\ mutex' = t
UnlockMutex  == mutex' = Nobody

\* produce, the same in both programs
Lock(p) == /\ Goto(p, "lock", "test") /\ LockMutex(p)
           /\ UNCHANGED <<buff, nput, nval, count, i>>
\* if (shared.nput >= nitems): unlock and return
ArrayFull(p) == /\ nput >= nitems /\ Goto(p, "test", "end") /\ UnlockMutex
                /\ UNCHANGED <<buff, nput, nval, count, i>>
Store(p) == /\ nput < nitems /\ Goto(p, "test", "put")
            /\ buff' = [buff EXCEPT ![nput] = nval]
            /\ UNCHANGED <<mutex, nput, nval, count, i>>
Put(p) == /\ Goto(p, "put", "count")
          /\ nput' = nput + 1 /\ nval' = nval + 1
          /\ UnlockMutex
          /\ UNCHANGED <<buff, count, i>>
Count(p) == /\ Goto(p, "count", "lock")
            /\ count' = [count EXCEPT ![p] = @ + 1]
            /\ UNCHANGED <<shared, i>>

\* prodcons2: main has joined the producers and creates the consumer.
CreateConsumer == /\ \A p \in Producers : pc[p] = "end"
                  /\ Goto(Consumer, "not_created", "loop")
                  /\ UNCHANGED <<shared, count, i>>
\* prodcons3: one round of consume_wait
PollLocks == /\ polls /\ i < nitems /\ Goto(Consumer, "loop", "poll")
             /\ LockMutex(Consumer)
             /\ UNCHANGED <<buff, nput, nval, count, i>>
Poll == /\ Goto(Consumer, "poll", IF i < nput THEN "compare" ELSE "loop")
        /\ UnlockMutex
        /\ UNCHANGED <<buff, nput, nval, count, i>>
\* if (shared.buff[i] != i) printf(...): ReadsOnlyStored says that they never differ.
Compare == /\ \/ Goto(Consumer, "compare", "loop")
              \/ ~polls /\ i < nitems /\ pc[Consumer] = "loop" /\ UNCHANGED pc
           /\ i' = i + 1
           /\ UNCHANGED <<shared, count>>
ConsumerReturns == /\ i >= nitems /\ Goto(Consumer, "loop", "end")
                   /\ UNCHANGED <<shared, count, i>>

Produce(p) == Lock(p) \/ ArrayFull(p) \/ Store(p) \/ Put(p) \/ Count(p)
Consume == CreateConsumer \/ PollLocks \/ Poll \/ Compare \/ ConsumerReturns

Step(t) == /\ (t \in Producers /\ Produce(t)) \/ (t = Consumer /\ Consume)
           /\ UNCHANGED polls

\* main has joined all threads and exits.
AllEnded == \A t \in Threads : pc[t] = "end"
-----------------------------------------------------------------------------
Comparing == pc[Consumer] = "compare" \/ (~polls /\ i < nitems /\ pc[Consumer] = "loop")

(***************************************************************************)
(* The consumer compares only cells that are stored, although it reads the *)
(* array without the mutex and may run beside the producers: the line of   *)
(* prodcons2.c:85 and prodcons3.c:96 is not printed.                       *)
(***************************************************************************)
ReadsOnlyStored == Comparing => i < nput /\ buff[i] = i

(***************************************************************************)
(* Every item is counted once, by the producer that put it: count[] lags   *)
(* behind nput by those who have left the critical section and not yet     *)
(* counted (prodcons3.c:70), and never at the end.                         *)
(***************************************************************************)
ItemsCounted ==
  /\ Total(count) + Cardinality({p \in Producers : pc[p] = "count"}) = nput
  /\ (\A p \in Producers : pc[p] = "end") => nput = nitems
=============================================================================
