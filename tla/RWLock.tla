------------------------------- MODULE RWLock -------------------------------
(***************************************************************************)
(* The read-write lock my_pthread_rwlock_t of                              *)
(* codes/8.Read_Write_Locks/my_rwlock, built from one mutex and two        *)
(* condition variables, used by the threads of one process.                *)
(*                                                                         *)
(* The mutex and the condition variables are the POSIX ones: a condition   *)
(* variable is the set of threads asleep on it, going to sleep releases    *)
(* the mutex in the same step, a signal removes one sleeper, a broadcast   *)
(* all, and a thread that has left the set takes the mutex back before     *)
(* pthread_cond_wait returns.  A sleeper may also wake for no reason.      *)
(*                                                                         *)
(* destroy takes no mutex, so the other threads move between its reads.    *)
(* POSIX leaves open what becomes of a mutex that is destroyed while it is *)
(* in use; here it does what glibc makes of it.  pthread_mutex_destroy     *)
(* fails, with no effect, while a thread owns the mutex or is in           *)
(* pthread_cond_wait.  Otherwise the mutex is gone: locking, unlocking and *)
(* waiting on it fail with EINVAL, but a thread that was already waiting   *)
(* for it may still get it.  pthread_cond_destroy waits until nobody       *)
(* sleeps on the condition variable.                                       *)
(***************************************************************************)
EXTENDS Integers, FiniteSets

CONSTANTS Threads,      \* the threads that call the lock
          Nobody,       \* owner of a mutex that is free
          Uses,         \* the functions of the lock each thread calls
          WaitErrors    \* errors with which pthread_cond_wait may refuse to wait

OK     == 0
EBUSY  == 16
EINVAL == 22

LockOps == {"rdlock", "tryrdlock", "wrlock", "trywrlock"}
Ops == LockOps \cup {"unlock", "destroy", "init"}

ASSUME ThreadsAssumption == IsFiniteSet(Threads) /\ Nobody \notin Threads
ASSUME UsesAssumption == Uses \in [Threads -> SUBSET Ops]
ASSUME ErrorsAssumption == WaitErrors \subseteq Int \ {OK}

VARIABLES
  rw_magic,          \* TRUE: the lock holds RW_MAGIC, it is initialised
  gone,              \* the mutex has been destroyed
  rw_mutex,          \* the thread that owns the mutex, or Nobody
  rw_condreaders,    \* the threads asleep on rw_condreaders
  rw_condwriters,    \* the threads asleep on rw_condwriters
  rw_nwaitreaders, rw_nwaitwriters, rw_refcount,
  exited,            \* the process has called exit(1)
  at,      \* where each thread is: outside the lock ("idle"), about to lock
           \* the mutex ("lock"), holding it ("body"), in pthread_cond_wait
           \* ("wait"), refused by it ("refused"), back from it ("woken"),
           \* about to unlock the mutex and return ("unlock"), at one of the
           \* steps of destroy, or ended inside a call ("dead")
  call,    \* the function each thread called last
  result,  \* what that function returns
  held,    \* the lock each thread holds by what its calls have returned
  still    \* history: the threads that have stood still since each thread
           \* entered destroy

fields  == <<rw_magic, gone, rw_condreaders, rw_condwriters, rw_nwaitreaders,
             rw_nwaitwriters, rw_refcount>>
threads == <<at, call, result, held, still>>
vars    == <<fields, rw_mutex, exited, threads>>

\* PTHREAD_RWLOCK_INITIALIZER, with every thread outside the lock.
Init == /\ rw_magic = TRUE /\ gone = FALSE /\ rw_mutex = Nobody
        /\ rw_condreaders = {} /\ rw_condwriters = {}
        /\ rw_nwaitreaders = 0 /\ rw_nwaitwriters = 0 /\ rw_refcount = 0
        /\ exited = FALSE
        /\ at = [t \in Threads |-> "idle"]
        /\ call = [t \in Threads |-> "unlock"]
        /\ result = [t \in Threads |-> OK]
        /\ held = [t \in Threads |-> "none"]
        /\ still = [t \in Threads |-> {}]
-----------------------------------------------------------------------------
\* Entry of every function that locks the mutex: the test of rw_magic.
Enter(t, op) ==
  /\ at[t] = "idle"
  /\ call' = [call EXCEPT ![t] = op]
  /\ IF rw_magic
     THEN at' = [at EXCEPT ![t] = "lock"] /\ UNCHANGED result
     ELSE result' = [result EXCEPT ![t] = EINVAL] /\ UNCHANGED at
  /\ UNCHANGED <<fields, rw_mutex, exited, held>>

\* pthread_mutex_lock(&rw->rw_mutex)
Acquire(t) == /\ at[t] = "lock" /\ rw_mutex = Nobody
              /\ rw_mutex' = t
              /\ at' = [at EXCEPT ![t] = "body"]
              /\ result' = [result EXCEPT ![t] = OK]
              /\ UNCHANGED <<fields, exited, call, held>>

\* pthread_mutex_lock of a destroyed mutex: every function returns its error.
LockFails(t) == /\ at[t] = "lock" /\ gone
                /\ at' = [at EXCEPT ![t] = "idle"]
                /\ result' = [result EXCEPT ![t] = EINVAL]
                /\ UNCHANGED <<fields, rw_mutex, exited, call, held>>

\* The thread that owns the mutex is done with the fields and returns r.
Leave(t, r) == /\ rw_mutex' = t
               /\ at' = [at EXCEPT ![t] = "unlock"]
               /\ result' = [result EXCEPT ![t] = r]

\* pthread_cond_wait: the mutex is released as the thread goes to sleep.
Sleep(t) == /\ ~gone
            /\ rw_mutex' = Nobody
            /\ at' = [at EXCEPT ![t] = "wait"]
            /\ UNCHANGED result

\* pthread_cond_wait returns an error at once, the mutex is kept.
Refuse(t) == /\ \E e \in WaitErrors \cup (IF gone THEN {EINVAL} ELSE {}) :
                   result' = [result EXCEPT ![t] = e]
             /\ rw_mutex' = t
             /\ at' = [at EXCEPT ![t] = "refused"]

\* The return of pthread_cond_wait, to the loop or, on an error, out of it.
EndWait(t) ==
  /\ rw_mutex' = t
  /\ \/ /\ at[t] = "wait" /\ t \notin rw_condreaders \cup rw_condwriters
        /\ rw_mutex = Nobody
        /\ at' = [at EXCEPT ![t] = "woken"]
     \/ at[t] = "refused" /\ at' = [at EXCEPT ![t] = "unlock"]
  /\ UNCHANGED result

\* The loop conditions of rdlock and wrlock; the try functions test the same.
ReaderMustWaitNoPref == rw_refcount < 0
ReaderMustWaitOffByOne == rw_refcount < -1 \/ rw_nwaitwriters > 0
ReaderMustWait == rw_refcount < 0 \/ rw_nwaitwriters > 0
WriterMustWaitWriters == rw_refcount > 0
WriterMustWaitReaders == rw_refcount < 0
WriterMustWait == rw_refcount # 0

\* The loop of rdlock, mutex held, before the first wait or after another:
\* take a read lock, or wait for it counted as a waiting reader.
Rdlock(t) ==
  /\ at[t] \in {"body", "woken"} /\ call[t] = "rdlock"
  /\ \/ /\ ~ReaderMustWait /\ Leave(t, OK)
        /\ rw_refcount' = rw_refcount + 1
        /\ UNCHANGED <<rw_nwaitreaders, rw_condreaders>>
     \/ /\ ReaderMustWait /\ Sleep(t)
        /\ rw_nwaitreaders' = rw_nwaitreaders + 1
        /\ rw_condreaders' = rw_condreaders \cup {t}
        /\ UNCHANGED rw_refcount
     \/ /\ ReaderMustWait /\ Refuse(t)
        /\ rw_nwaitreaders' = rw_nwaitreaders + 1
        /\ UNCHANGED <<rw_refcount, rw_condreaders>>
  /\ UNCHANGED <<rw_magic, gone, rw_condwriters, rw_nwaitwriters, exited, call, held>>

\* Back from pthread_cond_wait, with the mutex, and no longer counted.
RdlockWakeForgets(t) ==
  /\ call[t] = "rdlock" /\ EndWait(t) /\ rw_nwaitreaders' = rw_nwaitreaders
  /\ UNCHANGED <<rw_magic, gone, rw_condreaders, rw_condwriters, rw_nwaitwriters,
                 rw_refcount, exited, call, held>>
RdlockWake(t) ==
  /\ call[t] = "rdlock" /\ EndWait(t) /\ rw_nwaitreaders' = rw_nwaitreaders - 1
  /\ UNCHANGED <<rw_magic, gone, rw_condreaders, rw_condwriters, rw_nwaitwriters,
                 rw_refcount, exited, call, held>>

\* The loop of wrlock.  As an if, it would let a writer in that has waited.
WrlockIf(t) ==
  /\ at[t] \in {"body", "woken"} /\ call[t] = "wrlock"
  /\ \/ /\ ~WriterMustWait \/ at[t] = "woken"
        /\ Leave(t, OK) /\ rw_refcount' = -1
        /\ UNCHANGED <<rw_nwaitwriters, rw_condwriters>>
     \/ /\ WriterMustWait /\ at[t] = "body" /\ Sleep(t)
        /\ rw_nwaitwriters' = rw_nwaitwriters + 1
        /\ rw_condwriters' = rw_condwriters \cup {t}
        /\ UNCHANGED rw_refcount
  /\ UNCHANGED <<rw_magic, gone, rw_condreaders, rw_nwaitreaders, exited, call, held>>
Wrlock(t) ==
  /\ at[t] \in {"body", "woken"} /\ call[t] = "wrlock"
  /\ \/ /\ ~WriterMustWait /\ Leave(t, OK)
        /\ rw_refcount' = -1
        /\ UNCHANGED <<rw_nwaitwriters, rw_condwriters>>
     \/ /\ WriterMustWait /\ Sleep(t)
        /\ rw_nwaitwriters' = rw_nwaitwriters + 1
        /\ rw_condwriters' = rw_condwriters \cup {t}
        /\ UNCHANGED rw_refcount
     \/ /\ WriterMustWait /\ Refuse(t)
        /\ rw_nwaitwriters' = rw_nwaitwriters + 1
        /\ UNCHANGED <<rw_refcount, rw_condwriters>>
  /\ UNCHANGED <<rw_magic, gone, rw_condreaders, rw_nwaitreaders, exited, call, held>>

WrlockWake(t) ==
  /\ call[t] = "wrlock" /\ EndWait(t) /\ rw_nwaitwriters' = rw_nwaitwriters - 1
  /\ UNCHANGED <<rw_magic, gone, rw_condreaders, rw_condwriters, rw_nwaitreaders,
                 rw_refcount, exited, call, held>>

Tryrdlock(t) ==
  /\ at[t] = "body" /\ call[t] = "tryrdlock"
  /\ IF ReaderMustWait
     THEN Leave(t, EBUSY) /\ UNCHANGED rw_refcount
     ELSE Leave(t, OK) /\ rw_refcount' = rw_refcount + 1
  /\ UNCHANGED <<rw_magic, gone, rw_condreaders, rw_condwriters, rw_nwaitreaders,
                 rw_nwaitwriters, exited, call, held>>

Trywrlock(t) ==
  /\ at[t] = "body" /\ call[t] = "trywrlock"
  /\ IF WriterMustWait
     THEN Leave(t, EBUSY) /\ UNCHANGED rw_refcount
     ELSE Leave(t, OK) /\ rw_refcount' = -1
  /\ UNCHANGED <<rw_magic, gone, rw_condreaders, rw_condwriters, rw_nwaitreaders,
                 rw_nwaitwriters, exited, call, held>>
-----------------------------------------------------------------------------
\* pthread_cond_signal wakes one sleeper, if there is one.
SignalWriterLost == UNCHANGED rw_condwriters
SignalWriter == \/ rw_condwriters = {} /\ UNCHANGED rw_condwriters
                \/ \E w \in rw_condwriters : rw_condwriters' = rw_condwriters \ {w}

\* The end of unlock: whom to wake once the count has become c.
WakeLoneReaderNot(c) ==
  \/ rw_nwaitwriters > 0 /\ c = 0 /\ SignalWriter /\ UNCHANGED rw_condreaders
  \/ rw_nwaitwriters > 0 /\ c # 0 /\ UNCHANGED <<rw_condwriters, rw_condreaders>>
  \/ /\ rw_nwaitwriters = 0 /\ UNCHANGED rw_condwriters
     /\ rw_condreaders' = IF rw_nwaitreaders > 1 THEN {} ELSE rw_condreaders
WakeWaiters(c) ==
  \/ rw_nwaitwriters > 0 /\ c = 0 /\ SignalWriter /\ UNCHANGED rw_condreaders
  \/ rw_nwaitwriters > 0 /\ c # 0 /\ UNCHANGED <<rw_condwriters, rw_condreaders>>
  \/ /\ rw_nwaitwriters = 0 /\ UNCHANGED rw_condwriters
     /\ rw_condreaders' = IF rw_nwaitreaders > 0 THEN {} ELSE rw_condreaders

\* The count after one release; unlocking a lock nobody holds ends the process.
ReleasedAsReader == rw_refcount - 1
Released == IF rw_refcount > 0 THEN rw_refcount - 1 ELSE 0

Unlock(t) ==
  /\ at[t] = "body" /\ call[t] = "unlock"
  /\ \/ /\ rw_refcount > 0 \/ rw_refcount = -1
        /\ rw_refcount' = Released
        /\ WakeWaiters(Released)
        /\ Leave(t, OK)
        /\ UNCHANGED exited
     \/ /\ ~(rw_refcount > 0 \/ rw_refcount = -1)
        /\ exited' = TRUE
        /\ UNCHANGED <<rw_refcount, rw_condreaders, rw_condwriters, rw_mutex, at, result>>
  /\ UNCHANGED <<rw_magic, gone, rw_nwaitreaders, rw_nwaitwriters, call, held>>

\* What a caller holds once a call of op has returned 0.
Grants(op) == IF op \in {"rdlock", "tryrdlock"} THEN "read"
              ELSE IF op \in {"wrlock", "trywrlock"} THEN "write" ELSE "none"

\* pthread_mutex_unlock(&rw->rw_mutex); return(result)
Return(t) ==
  /\ at[t] = "unlock"
  /\ rw_mutex' = IF gone THEN rw_mutex ELSE Nobody
  /\ at' = [at EXCEPT ![t] = "idle"]
  /\ held' = [held EXCEPT ![t] = IF result[t] = OK THEN Grants(call[t]) ELSE @]
  /\ UNCHANGED <<fields, exited, call, result>>
-----------------------------------------------------------------------------
\* destroy: the test of rw_magic.
Destroy(t) ==
  /\ at[t] = "idle"
  /\ call' = [call EXCEPT ![t] = "destroy"]
  /\ IF rw_magic
     THEN /\ at' = [at EXCEPT ![t] = "refcount"]
          /\ still' = [still EXCEPT ![t] = Threads \ {t}]
          /\ UNCHANGED result
     ELSE result' = [result EXCEPT ![t] = EINVAL] /\ UNCHANGED <<at, still>>
  /\ UNCHANGED <<fields, rw_mutex, exited, held>>

\* The test of a count n, at one place of destroy.
TestCount(t, place, n, next) ==
  /\ at[t] = place
  /\ IF n = 0
     THEN at' = [at EXCEPT ![t] = next] /\ UNCHANGED <<result, still>>
     ELSE /\ at' = [at EXCEPT ![t] = "idle"]
          /\ result' = [result EXCEPT ![t] = EBUSY]
          /\ still' = [still EXCEPT ![t] = {}]
  /\ UNCHANGED <<fields, rw_mutex, exited, call, held>>
TestNoWriters(t) == \/ TestCount(t, "refcount", rw_refcount, "readers")
                    \/ TestCount(t, "readers", rw_nwaitreaders, "mutex")
TestReaderCounts(t) == \/ TestCount(t, "refcount", IF rw_refcount > 0 THEN 1 ELSE 0, "readers")
                       \/ TestCount(t, "readers", rw_nwaitreaders, "writers")
                       \/ TestCount(t, "writers", rw_nwaitwriters, "mutex")
TestBusy(t) == \/ TestCount(t, "refcount", rw_refcount, "readers")
               \/ TestCount(t, "readers", rw_nwaitreaders, "writers")
               \/ TestCount(t, "writers", rw_nwaitwriters, "mutex")

MutexInUse == rw_mutex # Nobody \/ \E u \in Threads : at[u] = "wait"
\* pthread_mutex_destroy and the two pthread_cond_destroy.
DestroyMutex(t) ==
  /\ at[t] = "mutex" /\ at' = [at EXCEPT ![t] = "condreaders"]
  /\ gone' = (gone \/ ~MutexInUse)
  /\ UNCHANGED <<rw_magic, rw_condreaders, rw_condwriters, rw_nwaitreaders, rw_nwaitwriters,
                 rw_refcount, rw_mutex, exited, call, result, held, still>>
DestroyConds(t) ==
  /\ \/ /\ at[t] = "condreaders" /\ rw_condreaders = {}
        /\ at' = [at EXCEPT ![t] = "condwriters"]
     \/ /\ at[t] = "condwriters" /\ rw_condwriters = {}
        /\ at' = [at EXCEPT ![t] = "magic"]
  /\ UNCHANGED <<fields, rw_mutex, exited, call, result, held, still>>

\* rw_magic = 0: the lock is out of service.
EndDestroy(t) ==
  /\ at[t] = "magic" /\ at' = [at EXCEPT ![t] = "idle"]
  /\ rw_magic' = FALSE
  /\ result' = [result EXCEPT ![t] = OK]
  /\ still' = [still EXCEPT ![t] = {}]
  /\ UNCHANGED <<gone, rw_condreaders, rw_condwriters, rw_nwaitreaders, rw_nwaitwriters,
                 rw_refcount, rw_mutex, exited, call, held>>

\* init with no attributes, before any other thread uses the lock.
Initialise(t) ==
  /\ at[t] = "idle"
  /\ call' = [call EXCEPT ![t] = "init"]
  /\ result' = [result EXCEPT ![t] = OK]
  /\ rw_magic' = TRUE /\ gone' = FALSE /\ rw_mutex' = Nobody
  /\ rw_condreaders' = {} /\ rw_condwriters' = {}
  /\ rw_nwaitreaders' = 0 /\ rw_nwaitwriters' = 0 /\ rw_refcount' = 0
  /\ UNCHANGED <<exited, at, held, still>>
-----------------------------------------------------------------------------
\* t moves, for all that destroy sees of it.
Moves(t) == still' = [d \in Threads |-> still[d] \ {t}]

\* A caller takes the lock when it holds none, and unlocks the one it holds.
Call(t, op) == /\ op \in Uses[t]
               /\ op = "unlock" <=> held[t] # "none"
               /\ op \in LockOps \cup {"unlock"}
               /\ Enter(t, op)
               /\ Moves(t)

SpuriousWakeup(t) ==
  /\ t \in rw_condreaders \cup rw_condwriters
  /\ rw_condreaders' = rw_condreaders \ {t}
  /\ rw_condwriters' = rw_condwriters \ {t}
  /\ UNCHANGED <<rw_magic, gone, rw_nwaitreaders, rw_nwaitwriters, rw_refcount,
                 rw_mutex, exited, threads>>

\* A step of the code of the lock by thread t.
LockStep(t) == \/ Acquire(t) \/ LockFails(t) \/ Return(t)
               \/ Rdlock(t) \/ RdlockWake(t) \/ Wrlock(t) \/ WrlockWake(t)
               \/ Tryrdlock(t) \/ Trywrlock(t) \/ Unlock(t)
DestroyStep(t) == TestBusy(t) \/ DestroyMutex(t) \/ DestroyConds(t) \/ EndDestroy(t)
Step(t) == (LockStep(t) /\ Moves(t)) \/ DestroyStep(t)

Next == /\ ~exited
        /\ \E t \in Threads : \/ \E op \in Ops : Call(t, op)
                              \/ "destroy" \in Uses[t] /\ Destroy(t)
                              \/ Step(t)
                              \/ SpuriousWakeup(t)

Spec == Init /\ [][Next]_vars

\* Every thread goes on with the call it is in and gives the lock back, and
\* spurious wakeups do not go on for ever.  Nothing forces a thread to ask
\* for the lock, and no thread has a claim on the mutex before another.
LiveSpec == /\ Spec
            /\ \A t \in Threads : WF_vars(Step(t)) /\ WF_vars(Call(t, "unlock"))
            /\ <>[][\A t \in Threads : ~SpuriousWakeup(t)]_vars
-----------------------------------------------------------------------------
LockPlaces == {"lock", "body", "wait", "refused", "woken", "unlock"}
TearPlaces == {"mutex", "condreaders", "condwriters", "magic"}
DestroyPlaces == TearPlaces \cup {"refcount", "readers", "writers"}
Places == LockPlaces \cup DestroyPlaces \cup {"idle", "dead"}

TypeOK ==
  /\ rw_magic \in BOOLEAN /\ gone \in BOOLEAN /\ exited \in BOOLEAN
  /\ rw_mutex \in Threads \cup {Nobody}
  /\ rw_condreaders \subseteq Threads /\ rw_condwriters \subseteq Threads
  /\ rw_nwaitreaders \in Nat /\ rw_nwaitwriters \in Nat
  /\ rw_refcount \in Nat \cup {-1}
  /\ at \in [Threads -> Places]
  /\ call \in [Threads -> Ops]
  /\ result \in [Threads -> Int]
  /\ held \in [Threads -> {"none", "read", "write"}]
  /\ still \in [Threads -> SUBSET Threads]

\* What a thread holds from the moment rw_refcount records it, which is
\* before the call that obtains or releases it returns.
Owns(t) == IF at[t] = "unlock" /\ result[t] = OK THEN Grants(call[t]) ELSE held[t]
Readers == {t \in Threads : Owns(t) = "read"}
Writers == {t \in Threads : Owns(t) = "write"}
\* The threads inside pthread_cond_wait, whether they sleep, have been woken
\* or get an error from it.
WaitingIn(op) == {t \in Threads : at[t] \in {"wait", "refused"} /\ call[t] = op}
\* The writers that wait for the lock, until they have it or give up.
WaitingWriters == {t \in Threads : at[t] \in {"wait", "woken"} /\ call[t] = "wrlock"}

(***************************************************************************)
(* rw_refcount says who holds the lock (pthread_rwlock.h:7-11): with -1    *)
(* exactly one thread holds it, for writing; with n >= 0 exactly n threads *)
(* hold it, all for reading.  In particular a writer excludes all others.  *)
(***************************************************************************)
RefcountTellsHolders ==
  \/ rw_refcount = -1 /\ Readers = {} /\ \E w \in Threads : Writers = {w}
  \/ rw_refcount = Cardinality(Readers) /\ Writers = {}

(***************************************************************************)
(* The two counters count the threads in pthread_cond_wait whatever the    *)
(* order of sleeping, signalling, waking for no reason and sleeping again  *)
(* (rdlock.c:18-20, wrlock.c:17-19): destroy and the preference for        *)
(* writers both rely on them.                                              *)
(***************************************************************************)
CountersCountWaiters ==
  /\ rw_nwaitreaders = Cardinality(WaitingIn("rdlock"))
  /\ rw_nwaitwriters = Cardinality(WaitingIn("wrlock"))

(***************************************************************************)
(* No wakeup is lost (unlock.c:25-30): while a thread sleeps on one of the *)
(* condition variables, either someone holds the lock, who will wake it or *)
(* leave that to another as long as the lock is in service, or a waiting   *)
(* writer is awake, who will take the lock and wake the others when it     *)
(* unlocks.                                                                *)
(***************************************************************************)
NoLostWakeup ==
  rw_condreaders \cup rw_condwriters # {} =>
    rw_refcount # 0 \/ WaitingWriters \ rw_condwriters # {}

(***************************************************************************)
(* Threads that unlock only what they hold never reach the exit(1) of      *)
(* unlock.c:20-23, whatever the others do between their calls.             *)
(***************************************************************************)
NeverExits == ~exited

(***************************************************************************)
(* destroy reads the three counts one by one and without the mutex         *)
(* (destroy.c:10-12).  Once it has gone past them, no thread that has not  *)
(* moved since destroy began holds the lock or is inside                   *)
(* pthread_cond_wait, though it may be long awake: what destroy overlooks  *)
(* are the threads that move while it runs, and no others.                 *)
(***************************************************************************)
DestroySeesWhoStays ==
  \A d \in Threads : at[d] \in TearPlaces =>
    \A t \in still[d] : Owns(t) = "none" /\ at[t] \notin {"wait", "refused"}

\* Refinement: the lock keeps the promises of RWLockSpec.
Abs == INSTANCE RWLockSpec WITH hold <- [t \in Threads |-> Owns(t)],
                                waiting <- WaitingWriters
ImplementsRWLockSpec == Abs!Spec

(***************************************************************************)
(* Preference for writers (rdlock.c:16, unlock.c:25): once a writer waits, *)
(* a writer holds the lock in the end, however many readers keep coming.   *)
(***************************************************************************)
WaitingWriterGetsIn == (rw_nwaitwriters > 0) ~> (rw_refcount = -1)

(***************************************************************************)
(* A reader does not sleep for ever (unlock.c:25-30): it is woken in the   *)
(* end, or writers keep taking the lock.  (That it then gets the lock is   *)
(* not promised: other readers may overtake it at the mutex for ever.)     *)
(***************************************************************************)
SleepingReaderIsWoken ==
  \A t \in Threads : (t \in rw_condreaders) ~> (t \notin rw_condreaders \/ rw_refcount = -1)
=============================================================================
