----------------------------- MODULE ProdCons2 -----------------------------
(***************************************************************************)
(* codes/10.Semaphore/prodcons2.c: one producer and one consumer, a        *)
(* circular buffer and three memory-based semaphores.  The threads of      *)
(* prodcons1.c run the same code over named semaphores.                    *)
(***************************************************************************)
EXTENDS Semaphore, Sequences

CONSTANTS NBUFF, nitems

ASSUME BufferAssumption == NBUFF \in Nat \ {0} /\ nitems \in Nat

VARIABLES mutex, nempty, nstored,
          buff,
          prod, cons,    \* where the producer and the consumer are
          iprod, icons,  \* their loop counters
          out            \* the value the consumer found last, -1 before the first

sems    == <<mutex, nempty, nstored>>
produce == <<prod, iprod, buff>>
consume == <<cons, icons, out>>
vars    == <<sems, produce, consume>>

Init == /\ mutex = 1 /\ nempty = NBUFF /\ nstored = 0
        /\ buff = [k \in 0..NBUFF-1 |-> 0]
        /\ prod = "loop" /\ iprod = 0
        /\ cons = "loop" /\ icons = 0 /\ out = -1
-----------------------------------------------------------------------------
ProdWaitEmptyNot == /\ prod = "loop" /\ iprod < nitems
                    /\ prod' = "wait_mutex"
                    /\ UNCHANGED <<sems, iprod, buff, consume>>
ProdWaitEmpty == /\ prod = "loop" /\ iprod < nitems
                 /\ SemWait(nempty) /\ prod' = "wait_mutex"
                 /\ UNCHANGED <<mutex, nstored, iprod, buff, consume>>
ProdWaitMutex == /\ prod = "wait_mutex" /\ SemWait(mutex) /\ prod' = "store"
                 /\ UNCHANGED <<nempty, nstored, iprod, buff, consume>>
ProdStore == /\ prod = "store"
             /\ buff' = [buff EXCEPT ![iprod % NBUFF] = iprod]
             /\ prod' = "post_mutex"
             /\ UNCHANGED <<sems, iprod, consume>>
ProdPostMutex == /\ prod = "post_mutex" /\ SemPost(mutex) /\ prod' = "post_nstored"
                 /\ UNCHANGED <<nempty, nstored, iprod, buff, consume>>
ProdPostStored == /\ prod = "post_nstored" /\ SemPost(nstored)
                  /\ prod' = "loop" /\ iprod' = iprod + 1
                  /\ UNCHANGED <<mutex, nempty, buff, consume>>
ProdReturn == /\ prod = "loop" /\ iprod >= nitems /\ prod' = "end"
              /\ UNCHANGED <<sems, iprod, buff, consume>>

ConsWaitStored == /\ cons = "loop" /\ icons < nitems
                  /\ SemWait(nstored) /\ cons' = "wait_mutex"
                  /\ UNCHANGED <<mutex, nempty, icons, out, produce>>
ConsWaitMutex == /\ cons = "wait_mutex" /\ SemWait(mutex) /\ cons' = "fetch"
                 /\ UNCHANGED <<nempty, nstored, icons, out, produce>>
\* The slot is compared with i.
ConsFetch == /\ cons = "fetch" /\ out' = buff[icons % NBUFF] /\ cons' = "post_mutex"
             /\ UNCHANGED <<sems, icons, produce>>
ConsPostMutex == /\ cons = "post_mutex" /\ SemPost(mutex) /\ cons' = "post_nempty"
                 /\ UNCHANGED <<nempty, nstored, icons, out, produce>>
ConsPostEmpty == /\ cons = "post_nempty" /\ SemPost(nempty)
                 /\ cons' = "loop" /\ icons' = icons + 1
                 /\ UNCHANGED <<mutex, nstored, out, produce>>
ConsReturn == /\ cons = "loop" /\ icons >= nitems /\ cons' = "end"
              /\ UNCHANGED <<sems, icons, out, produce>>

Produce == \/ ProdWaitEmpty \/ ProdWaitMutex \/ ProdStore
           \/ ProdPostMutex \/ ProdPostStored \/ ProdReturn
Consume == \/ ConsWaitStored \/ ConsWaitMutex \/ ConsFetch
           \/ ConsPostMutex \/ ConsPostEmpty \/ ConsReturn

AllEnded == prod = "end" /\ cons = "end"
Next == Produce \/ Consume \/ (AllEnded /\ UNCHANGED vars)

Spec == Init /\ [][Next]_vars /\ WF_vars(Produce) /\ WF_vars(Consume)
-----------------------------------------------------------------------------
TypeOK ==
  /\ mutex \in 0..1 /\ nempty \in 0..NBUFF /\ nstored \in 0..NBUFF
  /\ buff \in [0..NBUFF-1 -> Nat]
  /\ prod \in {"loop", "wait_mutex", "store", "post_mutex", "post_nstored", "end"}
  /\ cons \in {"loop", "wait_mutex", "fetch", "post_mutex", "post_nempty", "end"}
  /\ iprod \in 0..nitems /\ icons \in 0..nitems
  /\ out \in Nat \cup {-1}

\* What each side holds of the buffer while it is between its two semaphores.
ProdHasSlot == IF prod \in {"loop", "end"} THEN 0 ELSE 1
ConsHasItem == IF cons \in {"loop", "end"} THEN 0 ELSE 1
\* Items stored in the buffer, and items fetched from it.
Stored  == iprod + IF prod \in {"post_mutex", "post_nstored"} THEN 1 ELSE 0
Fetched == icons + IF cons \in {"post_mutex", "post_nempty"} THEN 1 ELSE 0

(***************************************************************************)
(* The consumer finds the item it expects (prodcons2.c:74-77).             *)
(***************************************************************************)
FindsItsItem == cons \in {"post_mutex", "post_nempty"} => out = icons

(***************************************************************************)
(* An item is never overwritten before it has been fetched, however far    *)
(* the producer is ahead.                                                  *)
(***************************************************************************)
NeverOverwrites == \A k \in Fetched .. Stored - 1 : buff[k % NBUFF] = k

\* Refinement: the buffer and its semaphores are a bounded queue.
AbsFifo == INSTANCE Fifo WITH
             next <- Stored,
             chan <- [k \in 1..(Stored - Fetched) |-> buff[(Fetched + k - 1) % NBUFF]]
ImplementsFifo == AbsFifo!Spec
=============================================================================
