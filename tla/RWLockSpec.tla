----------------------------- MODULE RWLockSpec -----------------------------
(***************************************************************************)
(* What a read-write lock promises its callers: any number of readers or   *)
(* one writer, and no new reader while a writer waits.  It knows nothing   *)
(* of mutexes, condition variables or counters; RWLock implements it.      *)
(***************************************************************************)
CONSTANT Threads

VARIABLES hold,      \* what each thread holds: "none", "read" or "write"
          waiting    \* the writers that wait for the lock

vars == <<hold, waiting>>

Init == /\ hold = [t \in Threads |-> "none"]
        /\ waiting = {}

Free == \A t \in Threads : hold[t] = "none"

\* No thread writes, and no writer waits: waiting writers have preference.
GrantRead(t) == /\ hold[t] = "none" /\ waiting = {}
                /\ \A u \in Threads : hold[u] # "write"
                /\ hold' = [hold EXCEPT ![t] = "read"]
                /\ UNCHANGED waiting

GrantWrite(t) == /\ Free
                 /\ hold' = [hold EXCEPT ![t] = "write"]
                 /\ waiting' = waiting \ {t}

\* A writer that finds the lock held joins the waiting writers.
Block(t) == /\ ~Free /\ hold[t] = "none"
            /\ waiting' = waiting \cup {t}
            /\ UNCHANGED hold

\* A waiting writer whose wait fails gives up without the lock.
Abandon(t) == /\ ~Free /\ t \in waiting
              /\ waiting' = waiting \ {t}
              /\ UNCHANGED hold

Release(t) == /\ hold[t] # "none"
              /\ hold' = [hold EXCEPT ![t] = "none"]
              /\ UNCHANGED waiting

Next == \E t \in Threads :
           GrantRead(t) \/ GrantWrite(t) \/ Block(t) \/ Abandon(t) \/ Release(t)

Spec == Init /\ [][Next]_vars
=============================================================================
