----------------------------- MODULE TestCancel -----------------------------
(***************************************************************************)
(* codes/8.Read_Write_Locks/my_rwlock/testcancel.c: thread1 holds a read   *)
(* lock and cancels thread2, which waits in wrlock.                        *)
(*                                                                         *)
(* Cancellation is the deferred one of POSIX: the thread ends at its next  *)
(* cancellation point, here pthread_cond_wait, sleep or printf.  In        *)
(* pthread_cond_wait it takes the mutex back before it ends, whether it    *)
(* still slept or had been woken; wrlock installs no cleanup handler       *)
(* (wrlock.c:16-22), so nothing gives the mutex back or takes the thread   *)
(* out of rw_nwaitwriters.                                                 *)
(*                                                                         *)
(* Before main has created thread2 and once it has joined it, tid2 names   *)
(* no thread.  What pthread_cancel makes of that POSIX does not say: it    *)
(* fails or the process crashes.                                           *)
(***************************************************************************)
EXTENDS RWLock

CONSTANTS main, thread1, thread2,
          LongSleeps    \* TRUE: a sleep lasts until the others cannot move

CancelConstants ==
  /\ {main, thread1, thread2} \subseteq Threads
  /\ main # thread1 /\ main # thread2 /\ thread1 # thread2
  /\ LongSleeps \in BOOLEAN

VARIABLES pc,        \* where each thread is in its function
          cancelled  \* thread2 has been sent a cancellation

client == <<pc, cancelled>>

CancelInit == /\ Init
              /\ pc = [t \in Threads |-> IF t = main THEN "init" ELSE "new"]
              /\ cancelled = FALSE

Goto(t, from, to) == /\ pc[t] = from /\ at[t] = "idle"
                     /\ pc' = [pc EXCEPT ![t] = to]

Ended(t) == pc[t] \in {"end", "cancelled"}
\* No thread but the one that sleeps moves: thread2 sleeps in wrlock or has
\* ended.
Still == (thread2 \in rw_condwriters /\ ~cancelled) \/ Ended(thread2)

\* Pthread_rwlock_init; Pthread_create(&tid1, NULL, thread1, NULL)
Start == /\ pc[main] = "init" /\ Initialise(main)
         /\ pc' = [pc EXCEPT ![main] = "create", ![thread1] = "rdlock"]
         /\ UNCHANGED cancelled

\* sleep(1); Pthread_create(&tid2, NULL, thread2, NULL)
Create == /\ LongSleeps => pc[thread1] = "cancel" /\ at[thread1] = "idle"
          /\ pc[main] = "create"
          /\ pc' = [pc EXCEPT ![main] = "join2", ![thread2] = "wrlock"]
          /\ UNCHANGED <<vars, cancelled>>

Join2 == Ended(thread2) /\ Goto(main, "join2", "join1") /\ UNCHANGED <<vars, cancelled>>
Join1 == Ended(thread1) /\ Goto(main, "join1", "destroy") /\ UNCHANGED <<vars, cancelled>>
\* Pthread_rwlock_destroy exits on an error; either way main is over.
DestroyLock == Goto(main, "destroy", "return") /\ Destroy(main) /\ UNCHANGED cancelled

Thread1Lock == Goto(thread1, "rdlock", "cancel") /\ Call(thread1, "rdlock") /\ UNCHANGED cancelled
\* sleep(3); pthread_cancel(tid2)
Cancel == /\ LongSleeps => Still
          /\ Goto(thread1, "cancel", "unlock")
          /\ cancelled' = (pc[thread2] # "new")
          /\ UNCHANGED vars
NoThread2 == pc[thread2] = "new" \/ (Ended(thread2) /\ pc[main] # "join2")
CancelCrash == /\ LongSleeps => Still
               /\ pc[thread1] = "cancel" /\ at[thread1] = "idle" /\ NoThread2
               /\ pc' = [t \in Threads |-> "crashed"]
               /\ UNCHANGED <<vars, cancelled>>
\* sleep(3); Pthread_rwlock_unlock(&rwlock)
Thread1Unlock == /\ LongSleeps => Still
                 /\ Goto(thread1, "unlock", "return")
                 /\ Call(thread1, "unlock") /\ UNCHANGED cancelled

Thread2Lock == Goto(thread2, "wrlock", "unlock") /\ Call(thread2, "wrlock") /\ UNCHANGED cancelled
Thread2Unlock == Goto(thread2, "unlock", "return") /\ Call(thread2, "unlock") /\ UNCHANGED cancelled

End(t) == Goto(t, "return", "end") /\ UNCHANGED <<vars, cancelled>>

CancelKeepsMutex == Nobody
\* The mutex after thread2 has been cancelled in pthread_cond_wait.
CancelMutex == thread2

\* thread2 acts on the cancellation in pthread_cond_wait or outside the lock.
CancelInWait == /\ cancelled /\ at[thread2] = "wait" /\ rw_mutex = Nobody
                /\ rw_condwriters' = rw_condwriters \ {thread2}
                /\ rw_mutex' = CancelMutex
                /\ at' = [at EXCEPT ![thread2] = "dead"]
                /\ pc' = [pc EXCEPT ![thread2] = "cancelled"]
                /\ UNCHANGED <<rw_magic, gone, rw_condreaders, rw_nwaitreaders, rw_nwaitwriters,
                               rw_refcount, exited, call, result, held, still, cancelled>>
CancelOutside == /\ cancelled /\ pc[thread2] \in {"wrlock", "unlock"} /\ at[thread2] = "idle"
                 /\ at' = [at EXCEPT ![thread2] = "dead"]
                 /\ pc' = [pc EXCEPT ![thread2] = "cancelled"]
                 /\ UNCHANGED <<fields, rw_mutex, exited, call, result, held, still, cancelled>>

InLock(t) == Step(t) /\ UNCHANGED client
Wakeup(t) == SpuriousWakeup(t) /\ UNCHANGED client

ThreadStep(t) ==
  \/ t = main    /\ (Start \/ Create \/ Join2 \/ Join1 \/ DestroyLock \/ End(t) \/ InLock(t))
  \/ t = thread1 /\ (Thread1Lock \/ Cancel \/ CancelCrash \/ Thread1Unlock)
  \/ t = thread1 /\ (End(t) \/ InLock(t))
  \/ t = thread2 /\ (Thread2Lock \/ Thread2Unlock \/ End(t) \/ InLock(t))
  \/ t = thread2 /\ (CancelInWait \/ CancelOutside)

CancelNext == \E t \in Threads : ThreadStep(t) \/ Wakeup(t)

CancelSpec == /\ CancelInit /\ [][CancelNext]_<<vars, client>>
              /\ \A t \in Threads : WF_<<vars, client>>(ThreadStep(t))
              /\ <>[][\A t \in Threads : ~Wakeup(t)]_<<vars, client>>
-----------------------------------------------------------------------------
DiedInWait == at[thread2] = "dead" /\ call[thread2] = "wrlock" /\ held[thread2] = "none"

(***************************************************************************)
(* What testcancel.c:30 says of the Pthread_rwlock_destroy of line 29:     *)
(* main gets EBUSY because the cancelled thread does not clean up.         *)
(***************************************************************************)
DestroyReturnsEBUSY == <>(pc[main] = "end" /\ result[main] = EBUSY)

(***************************************************************************)
(* What becomes of the others when thread2 ends inside wrlock, which takes *)
(* rw_mutex with it.  If thread1 still has the lock, it never gets through *)
(* its Pthread_rwlock_unlock (testcancel.c:43) and main stays in its       *)
(* second join (testcancel.c:22).  If thread1 has unlocked, and so woken   *)
(* thread2, before thread2 ends, main gets to the end and finds the lock   *)
(* busy, as testcancel.c:30 says.                                          *)
(***************************************************************************)
WaiterDiesWithMutex ==
  DiedInWait =>
    /\ rw_mutex = thread2
    /\ rw_refcount # 0 => pc[thread1] # "end" /\ pc[main] \in {"join2", "join1"}
    /\ rw_refcount = 0 => /\ pc[thread1] \in {"return", "end"} /\ held[thread1] = "none"
                          /\ pc[main] = "end" => result[main] = EBUSY

(***************************************************************************)
(* When main does get to destroy the lock, it finds it busy exactly if     *)
(* thread2 was cancelled inside its wrlock or between its lock and its     *)
(* unlock (testcancel.c:51-54).                                            *)
(***************************************************************************)
BusyMeansDiedHolding ==
  pc[main] = "end" =>
    (result[main] = EBUSY) = (DiedInWait \/ (at[thread2] = "dead" /\ held[thread2] = "write"))

(***************************************************************************)
(* Unless thread2 dies in wrlock while thread1 has the lock, main comes to *)
(* the end whatever the sleeps turn out to be, or thread1 cancels a thread *)
(* that is not there, and the process crashes (testcancel.c:16-19, 40-41). *)
(***************************************************************************)
CancelEnds == pc[main] \in {"end", "crashed"} \/ (DiedInWait /\ rw_refcount # 0)
=============================================================================
