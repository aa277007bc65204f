----------------------------- MODULE IncrRwlock -----------------------------
(***************************************************************************)
(* codes/8.Read_Write_Locks/my_rwlock/incr_rwlock1.c: main takes the write *)
(* lock, creates the threads, starts a timer and gives the lock back; then *)
(* each thread increments the shared counter nloop times under the write   *)
(* lock of RWLock.  The increment is a load and a store.                   *)
(***************************************************************************)
EXTENDS RWLock, Totals

CONSTANTS main, nloop
Incr == Threads \ {main}
IncrConstants == main \in Threads /\ nloop \in Nat

VARIABLES pc, i, reg, counter
client == <<pc, i, reg, counter>>

\* A thread that main has not created is "new".
IncrInit == /\ Init
            /\ pc = [t \in Threads |-> IF t = main THEN "wrlock" ELSE "new"]
            /\ i = [t \in Threads |-> 0] /\ reg = [t \in Threads |-> 0]
            /\ counter = 0

Goto(t, from, to) == /\ pc[t] = from /\ at[t] = "idle"
                     /\ pc' = [pc EXCEPT ![t] = to]

MainLock == Goto(main, "wrlock", "create") /\ Call(main, "wrlock") /\ UNCHANGED <<i, reg, counter>>

Create(t) == /\ pc[main] = "create" /\ at[main] = "idle" /\ pc[t] = "new"
             /\ pc' = [pc EXCEPT ![t] = "loop"]
             /\ UNCHANGED <<vars, i, reg, counter>>

MainUnlock == /\ \A t \in Incr : pc[t] # "new"
              /\ Goto(main, "create", "join")
              /\ Call(main, "unlock") /\ UNCHANGED <<i, reg, counter>>

\* The joins, and the comparison of the counter with nloop * nthreads.
MainJoin == /\ \A t \in Incr : pc[t] = "end"
            /\ Goto(main, "join", "end")
            /\ UNCHANGED <<vars, i, reg, counter>>

LockCounter(t) == /\ i[t] < nloop /\ Goto(t, "loop", "load")
                  /\ Call(t, "wrlock") /\ UNCHANGED <<i, reg, counter>>
LoadCounter(t) == /\ Goto(t, "load", "store")
                  /\ reg' = [reg EXCEPT ![t] = counter] /\ UNCHANGED <<vars, i, counter>>
StoreCounter(t) == /\ Goto(t, "store", "unlock")
                   /\ counter' = reg[t] + 1 /\ UNCHANGED <<vars, i, reg>>
UnlockCounter(t) == /\ Goto(t, "unlock", "loop") /\ Call(t, "unlock")
                    /\ i' = [i EXCEPT ![t] = @ + 1] /\ UNCHANGED <<reg, counter>>
End(t) == i[t] = nloop /\ Goto(t, "loop", "end") /\ UNCHANGED <<vars, i, reg, counter>>

Main == MainLock \/ MainUnlock \/ MainJoin \/ \E t \in Incr : Create(t)
Body(t) == LockCounter(t) \/ LoadCounter(t) \/ StoreCounter(t) \/ UnlockCounter(t) \/ End(t)
InLock(t) == Step(t) /\ UNCHANGED client
Wakeup(t) == ~exited /\ SpuriousWakeup(t) /\ UNCHANGED client

ThreadStep(t) == ~exited /\ \/ t = main /\ Main
                            \/ t # main /\ Body(t)
                            \/ InLock(t)
-----------------------------------------------------------------------------
\* The stores thread t has made.
Stores(t) == i[t] + IF pc[t] = "unlock" THEN 1 ELSE 0

(***************************************************************************)
(* No increment is lost and none is counted twice: at all times the        *)
(* counter is the number of stores made, so the error of                   *)
(* incr_rwlock1.c:44-45 is never printed.                                  *)
(***************************************************************************)
CounterExact == counter = Total([t \in Incr |-> Stores(t)])

(***************************************************************************)
(* All threads end and main's joins return (incr_rwlock1.c:40-42).         *)
(***************************************************************************)
IncrEnds == pc[main] = "end"
=============================================================================
