----------------------------- MODULE ProdCons3 -----------------------------
(***************************************************************************)
(* codes/10.Semaphore/prodcons3.c: several producers and one consumer.     *)
(* The producers share nput and nputval under the mutex and return when    *)
(* all items are put; the consumer counts its items itself and needs no    *)
(* word from the producers to end.                                         *)
(***************************************************************************)
EXTENDS Semaphore, Sequences, Totals

CONSTANTS Producers, consumer, NBUFF, nitems

ProdConsConstants == /\ IsFiniteSet(Producers) /\ consumer \notin Producers
                     /\ NBUFF \in Nat \ {0} /\ nitems \in Nat

Threads == Producers \cup {consumer}

VARIABLES mutex, nempty, nstored, buff, nput, nputval,
          pc,
          i,       \* the consumer's loop counter
          seen,    \* what it fetched from its slot
          count    \* how many items each producer has put

sems   == <<mutex, nempty, nstored>>
shared == <<buff, nput, nputval>>
vars   == <<sems, shared, pc, i, seen, count>>

Init == /\ mutex = 1 /\ nempty = NBUFF /\ nstored = 0
        /\ buff = [k \in 0..NBUFF-1 |-> 0] /\ nput = 0 /\ nputval = 0
        /\ pc = [t \in Threads |-> IF t = consumer THEN "loop" ELSE "wait_nempty"]
        /\ i = 0 /\ seen = 0
        /\ count = [p \in Producers |-> 0]

Goto(t, from, to) == pc[t] = from /\ pc' = [pc EXCEPT ![t] = to]
-----------------------------------------------------------------------------
WaitEmpty(p) == /\ Goto(p, "wait_nempty", "wait_mutex") /\ SemWait(nempty)
                /\ UNCHANGED <<mutex, nstored, shared, i, seen, count>>
WaitMutex(t) == /\ Goto(t, "wait_mutex", IF t = consumer THEN "fetch" ELSE "test")
                /\ SemWait(mutex)
                /\ UNCHANGED <<nempty, nstored, shared, i, seen, count>>

\* if (shared.nput >= nitems)
TestPut(p) == /\ Goto(p, "test", IF nput >= nitems THEN "last_nempty" ELSE "store")
              /\ UNCHANGED <<sems, shared, i, seen, count>>
Store(p) == /\ Goto(p, "store", "put")
            /\ buff' = [buff EXCEPT ![nput % NBUFF] = nputval]
            /\ UNCHANGED <<sems, nput, nputval, i, seen, count>>
Put(p) == /\ Goto(p, "put", "post_mutex")
          /\ nput' = nput + 1 /\ nputval' = nputval + 1
          /\ UNCHANGED <<sems, buff, i, seen, count>>
PostMutex(t) == /\ Goto(t, "post_mutex", "post") /\ SemPost(mutex)
                /\ UNCHANGED <<nempty, nstored, shared, i, seen, count>>
PostStored(p) == /\ p # consumer /\ Goto(p, "post", "wait_nempty")
                 /\ SemPost(nstored) /\ count' = [count EXCEPT ![p] = @ + 1]
                 /\ UNCHANGED <<mutex, nempty, shared, i, seen>>

\* A producer that finds all items put gives the slot it waited for back.
SlotNotReturned == UNCHANGED nempty
SlotReturned == SemPost(nempty)
LastEmpty(p) == /\ Goto(p, "last_nempty", "last_mutex") /\ SlotReturned
                /\ UNCHANGED <<mutex, nstored, shared, i, seen, count>>
LastMutex(p) == /\ Goto(p, "last_mutex", "end") /\ SemPost(mutex)
                /\ UNCHANGED <<nempty, nstored, shared, i, seen, count>>

\* consume: the loop test and sem_wait(&shared.nstored)
WaitStored == /\ i < nitems /\ Goto(consumer, "loop", "wait_mutex") /\ SemWait(nstored)
              /\ UNCHANGED <<mutex, nempty, shared, i, seen, count>>
EndConsume == /\ i >= nitems /\ Goto(consumer, "loop", "end")
              /\ UNCHANGED <<sems, shared, i, seen, count>>
Fetch == /\ Goto(consumer, "fetch", "post_mutex")
         /\ seen' = buff[i % NBUFF]
         /\ UNCHANGED <<sems, shared, i, count>>
PostEmpty == /\ Goto(consumer, "post", "loop") /\ SemPost(nempty)
             /\ i' = i + 1
             /\ UNCHANGED <<mutex, nstored, shared, seen, count>>

Produce(p) == \/ WaitEmpty(p) \/ WaitMutex(p) \/ TestPut(p) \/ Store(p) \/ Put(p)
              \/ PostMutex(p) \/ PostStored(p) \/ LastEmpty(p) \/ LastMutex(p)
Consume == \/ WaitStored \/ WaitMutex(consumer) \/ Fetch \/ PostMutex(consumer)
           \/ PostEmpty \/ EndConsume

Step(t) == (t \in Producers /\ Produce(t)) \/ (t = consumer /\ Consume)

AllEnded == \A t \in Threads : pc[t] = "end"
-----------------------------------------------------------------------------
\* The queue that the buffer stands for: its next item, its items, the last out.
Fetched  == i + IF pc[consumer] \in {"post_mutex", "post"} THEN 1 ELSE 0
NextItem == nputval
OnTheWay == [k \in 1..(nput - Fetched) |-> buff[(Fetched + k - 1) % NBUFF]]
LastOut  == IF Fetched = 0 THEN -1 ELSE seen

(***************************************************************************)
(* The consumer finds item i in slot i % NBUFF: the error of               *)
(* prodcons3.c:105 is not printed, whichever producer stored the item and  *)
(* in whatever order the producers post nstored after it.                  *)
(***************************************************************************)
NeverPrintsError == pc[consumer] \in {"post_mutex", "post"} => seen = i

(***************************************************************************)
(* Every slot is accounted for: counting those the threads have in hand,   *)
(* nempty and nstored always add up to NBUFF (prodcons3.c:73-90, 101-110). *)
(***************************************************************************)
SlotsConserved ==
  nempty + nstored + Cardinality({p \in Producers : pc[p] \notin {"wait_nempty", "last_mutex", "end"}})
    + (IF pc[consumer] \in {"loop", "end"} THEN 0 ELSE 1) = NBUFF

(***************************************************************************)
(* The counts printed by main (prodcons3.c:55-58) add up to nitems.        *)
(***************************************************************************)
CountsAddUp == AllEnded => Total(count) = nitems
=============================================================================
