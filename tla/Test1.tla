------------------------------- MODULE Test1 -------------------------------
(***************************************************************************)
(* codes/8.Read_Write_Locks/my_rwlock/test1.c: reader and writer threads   *)
(* that take the lock of RWLock nloop times each and check, while they     *)
(* hold it, how many readers and writers they find.  The lock is the       *)
(* detailed one: a step of Test1 is a step of the harness or one inside    *)
(* the lock.                                                               *)
(*                                                                         *)
(* An increment or decrement is a load and a store.  The mutex rcountlock  *)
(* is taken with the load and released with the store.                     *)
(***************************************************************************)
EXTENDS RWLock

CONSTANTS ReaderThreads,    \* the threads that run reader(), others run writer()
          nloop

Test1Constants == ReaderThreads \subseteq Threads /\ nloop \in Nat

VARIABLES pc,               \* where a thread is in the body of its loop
          i,                \* its loop counter
          reg,              \* the value it loaded of the counter it updates
          rcountlock,       \* the owner of the mutex, or Nobody
          nreaders, nwriters,
          failed            \* a check has failed: exit(-1)

client == <<pc, i, reg, rcountlock, nreaders, nwriters, failed>>

Test1Init == /\ Init
             /\ pc = [t \in Threads |-> "lock"]
             /\ i = [t \in Threads |-> 0]
             /\ reg = [t \in Threads |-> 0]
             /\ rcountlock = Nobody
             /\ nreaders = 0 /\ nwriters = 0
             /\ failed = FALSE

Goto(t, l) == pc' = [pc EXCEPT ![t] = l]

\* The call of the lock that the thread made last has returned.
Back(t) == at[t] = "idle"

TakeLock(t) == /\ pc[t] = "lock" /\ Back(t) /\ i[t] < nloop
               /\ Call(t, IF t \in ReaderThreads THEN "rdlock" ELSE "wrlock")
               /\ Goto(t, "inc")
               /\ UNCHANGED <<i, reg, rcountlock, nreaders, nwriters, failed>>

\* Only readers protect their counter with the mutex.
Guarded(t) == t \in ReaderThreads

Load(t) ==
  /\ pc[t] \in {"inc", "dec"} /\ Back(t)
  /\ IF Guarded(t) THEN rcountlock = Nobody /\ rcountlock' = t ELSE UNCHANGED rcountlock
  /\ reg' = [reg EXCEPT ![t] = IF t \in ReaderThreads THEN nreaders ELSE nwriters]
  /\ Goto(t, IF pc[t] = "inc" THEN "incremented" ELSE "decremented")
  /\ UNCHANGED <<vars, i, nreaders, nwriters, failed>>

Store(t) ==
  /\ pc[t] \in {"incremented", "decremented"}
  /\ LET n == IF pc[t] = "incremented" THEN reg[t] + 1 ELSE reg[t] - 1
     IN  IF t \in ReaderThreads THEN nreaders' = n /\ UNCHANGED nwriters
                                ELSE nwriters' = n /\ UNCHANGED nreaders
  /\ rcountlock' = IF Guarded(t) THEN Nobody ELSE rcountlock
  /\ Goto(t, IF pc[t] = "incremented" THEN "check" ELSE "unlock")
  /\ UNCHANGED <<vars, i, reg, failed>>

\* A reader looks for writers; a writer for other writers, then for readers.
Check(t) ==
  /\ \/ /\ pc[t] = "check" /\ t \in ReaderThreads
        /\ failed' = (nwriters > 0) /\ Goto(t, "dec")
     \/ /\ pc[t] = "check" /\ t \notin ReaderThreads
        /\ failed' = (nwriters > 1) /\ Goto(t, "check_readers")
     \/ /\ pc[t] = "check_readers"
        /\ failed' = (nreaders > 0) /\ Goto(t, "dec")
  /\ UNCHANGED <<vars, i, reg, rcountlock, nreaders, nwriters>>

GiveLock(t) == /\ pc[t] = "unlock"
               /\ Call(t, "unlock")
               /\ i' = [i EXCEPT ![t] = @ + 1]
               /\ Goto(t, "lock")
               /\ UNCHANGED <<reg, rcountlock, nreaders, nwriters, failed>>

Harness(t) == TakeLock(t) \/ Load(t) \/ Store(t) \/ Check(t) \/ GiveLock(t)
InLock(t)  == Step(t) /\ UNCHANGED client
Running    == ~failed /\ ~exited
ThreadStep(t) == Running /\ (Harness(t) \/ InLock(t))
Wakeup(t)  == Running /\ SpuriousWakeup(t) /\ UNCHANGED client

\* What main waits for with pthread_join before exit(0).
AllDone == \A t \in Threads : pc[t] = "lock" /\ Back(t) /\ i[t] = nloop
-----------------------------------------------------------------------------
(***************************************************************************)
(* No thread ever leaves through exit(-1): a reader never finds a writer   *)
(* (test1.c:79), a writer never another writer (test1.c:104) nor a reader  *)
(* (test1.c:108).                                                          *)
(***************************************************************************)
ChecksPass == ~failed

(***************************************************************************)
(* Every thread ends its loops, so that main's pthread_join calls          *)
(* (test1.c:58-61) return, whatever the mix of readers and writers.        *)
(***************************************************************************)
Test1Ends == AllDone
=============================================================================
