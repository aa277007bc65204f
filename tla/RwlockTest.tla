----------------------------- MODULE RwlockTest -----------------------------
(***************************************************************************)
(* codes/8.Read_Write_Locks/rwlock.c: the harness of test1.c, line for     *)
(* line, on the read-write lock of the C library, whose code is elsewhere. *)
(* Of that lock only held is used: who has been granted what.  POSIX lets  *)
(* it pass readers before writers that wait, or after them.                *)
(***************************************************************************)
EXTENDS Test1

\* pthread_rwlock_rdlock and pthread_rwlock_wrlock return.
MayRead  == \A t \in Threads : held[t] # "write"
MayWrite == \A t \in Threads : held[t] = "none"

Granted(t) == /\ pc[t] = "lock" /\ i[t] < nloop
              /\ IF t \in ReaderThreads THEN MayRead ELSE MayWrite
              /\ held' = [held EXCEPT ![t] = IF t \in ReaderThreads THEN "read" ELSE "write"]
              /\ Goto(t, "inc")
              /\ UNCHANGED <<fields, rw_mutex, exited, at, call, result, still, i, reg, rcountlock,
                             nreaders, nwriters, failed>>

\* pthread_rwlock_unlock
GiveBack(t) == /\ pc[t] = "unlock"
                /\ held' = [held EXCEPT ![t] = "none"] /\ i' = [i EXCEPT ![t] = @ + 1]
                /\ Goto(t, "lock")
                /\ UNCHANGED <<fields, rw_mutex, exited, at, call, result, still, reg, rcountlock,
                               nreaders, nwriters, failed>>

ReaderOrWriter(t) ==
  ~failed /\ (Granted(t) \/ Load(t) \/ Store(t) \/ Check(t) \/ GiveBack(t))
=============================================================================
