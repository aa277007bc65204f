----------------------- MODULE RWLockProgramsProofs -----------------------
(***************************************************************************)
(* Theorems of RWLockPrograms for any number of threads and loops, over    *)
(* the invariant of the lock that RWLockProofs proves.  What a program     *)
(* adds says where each of its threads is in its call of the lock and what *)
(* it then holds.                                                          *)
(***************************************************************************)
EXTENDS RWLockPrograms, RWLockProofs, TotalsProofs

\* The lock is in service, nobody destroys it and it grants what it is asked for.
GrantPlaces == {"idle", "lock", "body", "wait", "woken", "unlock", "dead"}
Granting ==
  /\ rw_magic /\ ~gone
  /\ \A t \in Threads : /\ at[t] \in GrantPlaces
                        /\ at[t] = "unlock" => result[t] = OK
                        /\ at[t] \in LockPlaces => call[t] \in {"rdlock", "wrlock", "unlock"}

\* A writer excludes all others.
Exclusive == \A t, u \in Threads : Owns(t) = "write" /\ u # t => Owns(u) = "none"

-----------------------------------------------------------------------------
(* test1 and rwlock *)

InLoop == {"incremented", "check", "check_readers", "dec", "decremented", "unlock"}
Updating == {"incremented", "decremented"}
Entered == {"check", "check_readers", "dec", "decremented"}
Kind(t) == IF t \in ReaderThreads THEN "read" ELSE "write"
LockOf(t) == IF t \in ReaderThreads THEN "rdlock" ELSE "wrlock"

TestTypes ==
  /\ pc \in [Threads -> {"lock", "inc"} \cup InLoop]
  /\ i \in [Threads -> Nat] /\ reg \in [Threads -> Nat]
  /\ nreaders \in Nat /\ nwriters \in Nat
  /\ rcountlock \in ReaderThreads \cup {Nobody}

\* What a thread holds at each place, or which call it is in there.
TestPlaces ==
  \A t \in Threads :
    /\ pc[t] \in InLoop => at[t] = "idle" /\ held[t] = Kind(t)
    /\ pc[t] = "inc"  => IF at[t] = "idle" THEN held[t] = Kind(t) ELSE call[t] = LockOf(t)
    /\ pc[t] = "lock" => IF at[t] = "idle" THEN held[t] = "none" ELSE call[t] = "unlock"
    /\ pc[t] = "check_readers" => t \notin ReaderThreads

\* The counters count the readers and the writers that have entered; the value
\* that a thread is about to store is still right.
CounterOf(t) == IF t \in ReaderThreads THEN nreaders ELSE nwriters
ReadersIn == Cardinality({t \in ReaderThreads : pc[t] \in Entered})
WritersIn == Cardinality({t \in Threads \ ReaderThreads : pc[t] \in Entered})
TestCounts ==
  /\ nreaders = ReadersIn /\ nwriters = WritersIn
  /\ \A t \in Threads : pc[t] \in Updating => reg[t] = CounterOf(t)
  /\ \A t \in ReaderThreads : pc[t] \in Updating <=> rcountlock = t

TestInv == TestTypes /\ TestPlaces /\ TestCounts /\ ~failed

\* rwlock: all that is used of the lock is held.
LibInv == /\ held \in [Threads -> {"none", "read", "write"}]
          /\ \A t \in Threads : at[t] = "idle"

-----------------------------------------------------------------------------
(* incr_rwlock1 *)

IncrTypes ==
  /\ pc \in [Threads -> {"wrlock", "create", "join", "end", "new", "loop", "load", "store",
                         "unlock"}]
  /\ i \in [Threads -> Nat] /\ reg \in [Threads -> Nat] /\ counter \in Nat

IncrPlaces ==
  \A t \in Threads :
    /\ pc[t] \in {"store", "unlock"} => at[t] = "idle" /\ held[t] = "write"
    /\ pc[t] \in {"create", "load"} =>
         IF at[t] = "idle" THEN held[t] = "write" ELSE call[t] = "wrlock"
    /\ pc[t] \in {"loop", "join"} =>
         IF at[t] = "idle" THEN held[t] = "none" ELSE call[t] = "unlock"
    /\ pc[t] \in {"new", "wrlock", "end"} => at[t] = "idle" /\ held[t] = "none"

Stores == [t \in Incr!Incr |-> Incr!Stores(t)]
IncrCounts == /\ IsFiniteSet(Units(Stores)) /\ counter = Total(Stores)
              /\ \A t \in Threads : pc[t] = "store" => reg[t] = counter

IncrInv == IncrTypes /\ IncrPlaces /\ IncrCounts

-----------------------------------------------------------------------------
(* testcancel *)

CancelTypes ==
  /\ pc \in [Threads -> {"init", "create", "join2", "join1", "destroy", "return", "end", "new",
                         "rdlock", "cancel", "unlock", "wrlock", "cancelled"}]
  /\ pc[main] \in {"init", "create", "join2", "join1", "destroy", "return", "end"}
  /\ pc[thread1] \in {"new", "rdlock", "cancel", "unlock", "return", "end"}
  /\ pc[thread2] \in {"new", "wrlock", "unlock", "return", "end", "cancelled"}
  /\ cancelled => pc[thread1] \in {"unlock", "return", "end"}
  /\ pc[thread2] = "cancelled" => cancelled
  /\ pc[main] = "init" <=> pc[thread1] = "new"
  /\ pc[main] \in {"init", "create"} <=> pc[thread2] = "new"

\* As long as thread2 has not died inside wrlock.
MainPlaces ==
  /\ held[main] = "none" /\ at[main] \in DestroyPlaces \cup {"idle"}
  /\ at[main] # "idle" => pc[main] = "return"
Thread1Places ==
  /\ at[thread1] \in LockPlaces \cup {"idle"}
  /\ pc[thread1] \in {"new", "rdlock", "end"} => at[thread1] = "idle" /\ held[thread1] = "none"
  /\ pc[thread1] = "cancel" => IF at[thread1] = "idle" THEN held[thread1] = "read"
                                                       ELSE call[thread1] = "rdlock"
  /\ pc[thread1] = "unlock" => at[thread1] = "idle" /\ held[thread1] = "read"
  /\ pc[thread1] = "return" => IF at[thread1] = "idle" THEN held[thread1] = "none"
                                                       ELSE call[thread1] = "unlock"
Thread2Places ==
  /\ at[thread2] \in LockPlaces \cup {"idle", "dead"}
  /\ pc[thread2] \in {"new", "wrlock"} => /\ at[thread2] = "idle" /\ held[thread2] = "none"
                                          /\ call[thread2] = "unlock"
  /\ pc[thread2] = "unlock" => IF at[thread2] = "idle" THEN held[thread2] = "write"
                                                       ELSE call[thread2] = "wrlock"
  /\ pc[thread2] = "return" => IF at[thread2] = "idle" THEN held[thread2] = "none"
                                                       ELSE call[thread2] = "unlock"
  /\ pc[thread2] = "end" => at[thread2] = "idle" /\ held[thread2] = "none"
  /\ pc[thread2] = "cancelled" => /\ at[thread2] = "dead"
                                  /\ \/ held[thread2] = "write"
                                     \/ held[thread2] = "none" /\ call[thread2] = "unlock"
  /\ at[thread2] = "dead" => pc[thread2] = "cancelled"
OthersIdle == \A t \in Threads \ {main, thread1, thread2} : at[t] = "idle" /\ held[t] = "none"
Joined ==
  /\ pc[main] \in {"join1", "destroy", "return", "end"} => pc[thread2] \in {"end", "cancelled"}
  /\ pc[main] \in {"destroy", "return", "end"} => pc[thread1] = "end"
  /\ pc[main] \notin {"return", "end"} => Granting

\* What main has found when destroy is over, and before.
Destroyed ==
  /\ at[main] # "idle" => rw_magic /\ (at[main] # "refcount" => rw_refcount = 0)
  /\ pc[main] \in {"return", "end"} /\ at[main] = "idle" =>
       IF held[thread2] = "write" THEN result[main] = EBUSY ELSE result[main] # EBUSY

ThreadPlaces == MainPlaces /\ Thread1Places /\ Thread2Places /\ OthersIdle
NotDead == IInv /\ ThreadPlaces /\ Joined /\ Destroyed

\* After it has, with the mutex.  If thread1 has the lock it stays so; if not,
\* main goes on to destroy, which finds a waiting writer.
Dead ==
  /\ TypeOK /\ rw_magic /\ ~gone /\ rw_mutex = thread2 /\ rw_nwaitwriters # 0
  /\ rw_condreaders = {} /\ rw_condwriters = {}
  /\ pc[thread2] = "cancelled"
  /\ at[thread2] = "dead" /\ call[thread2] = "wrlock" /\ held[thread2] = "none"
Stuck ==
  /\ rw_refcount # 0 /\ pc[main] \in {"join2", "join1"} /\ at[main] = "idle"
  /\ \/ pc[thread1] = "unlock" /\ at[thread1] = "idle"
     \/ pc[thread1] = "return" /\ at[thread1] = "lock"
Signalled ==
  /\ rw_refcount = 0
  /\ pc[thread1] \in {"return", "end"} /\ at[thread1] = "idle" /\ held[thread1] = "none"
  /\ at[main] \in {"idle", "refcount", "readers", "writers"}
  /\ at[main] # "idle" => pc[main] = "return"
  /\ pc[main] \in {"return", "end"} /\ at[main] = "idle" => result[main] = EBUSY
DeadInWrlock == Dead /\ (Stuck \/ Signalled)

\* After a cancellation of a thread2 that is not there.
Crashed == /\ \A t \in Threads : pc[t] = "crashed" /\ at[t] = "idle"
           /\ rw_condreaders = {} /\ rw_condwriters = {}

CancelInv == Crashed \/ (CancelTypes /\ (NotDead \/ DeadInWrlock))

ProgInv == /\ prog \in {"test1", "rwlock", "testcancel", "incr_rwlock1"}
           /\ prog = "test1" => IInv /\ Granting /\ TestInv
           /\ prog = "rwlock" => LibInv /\ Exclusive /\ TestInv
           /\ prog = "incr_rwlock1" => IInv /\ Granting /\ IncrInv
           /\ prog = "testcancel" => CancelInv
-----------------------------------------------------------------------------
(* The lock in each program is that of RWLock. *)

LEMMA ProgramConstants ==
  /\ ReaderThreads \subseteq Threads /\ nloop \in Nat /\ WaitErrors = {}
  /\ {main, thread1, thread2} \subseteq Threads
  /\ main # thread1 /\ main # thread2 /\ thread1 # thread2
  /\ IsFiniteSet(Threads) /\ IsFiniteSet(ReaderThreads) /\ Nobody \notin Threads
<1>1. IsFiniteSet(Threads) /\ Nobody \notin Threads
  BY ThreadsAssumption
<1>2. ReaderThreads \subseteq Threads
  BY ProgramsAssumption DEF Test!Test1Constants
<1>3. IsFiniteSet(ReaderThreads)
  BY <1>1, <1>2, FS_Subset
<1> QED
  BY <1>1, <1>2, <1>3, ProgramsAssumption
  DEF Test!Test1Constants, Cancel!CancelConstants, Incr!IncrConstants

LEMMA SameInTest ==
  /\ Test!Init <=> Init
  /\ \A t, op : Test!Call(t, op) <=> Call(t, op)
  /\ \A t : (Test!Step(t) <=> Step(t)) /\ (Test!SpuriousWakeup(t) <=> SpuriousWakeup(t))
  /\ Test!vars = vars
BY DEF Test!Init, Test!Call, Test!Enter, Test!Moves, Test!Step, Test!LockStep, Test!DestroyStep,
  Test!SpuriousWakeup, Test!vars, Test!fields, Test!threads, Test!Acquire, Test!LockFails,
  Test!Return, Test!Rdlock, Test!RdlockWake, Test!Wrlock, Test!WrlockWake, Test!Tryrdlock,
  Test!Trywrlock, Test!Unlock, Test!Leave, Test!Sleep, Test!Refuse, Test!EndWait,
  Test!ReaderMustWait, Test!WriterMustWait, Test!SignalWriter, Test!WakeWaiters, Test!Released,
  Test!Grants, Test!TestCount, Test!TestBusy, Test!MutexInUse, Test!DestroyMutex,
  Test!DestroyConds, Test!EndDestroy, Test!LockOps, Test!OK, Test!EBUSY, Test!EINVAL, Init,
  Call, Enter, Moves, Step, LockStep, DestroyStep, SpuriousWakeup, vars, fields, threads,
  Acquire, LockFails, Return, Rdlock, RdlockWake, Wrlock, WrlockWake, Tryrdlock, Trywrlock,
  Unlock, Leave, Sleep, Refuse, EndWait, ReaderMustWait, WriterMustWait, SignalWriter,
  WakeWaiters, Released, Grants, TestCount, TestBusy, MutexInUse, DestroyMutex, DestroyConds,
  EndDestroy, LockOps, OK, EBUSY, EINVAL

LEMMA SameInIncr ==
  /\ Incr!Init <=> Init
  /\ \A t, op : Incr!Call(t, op) <=> Call(t, op)
  /\ \A t : (Incr!Step(t) <=> Step(t)) /\ (Incr!SpuriousWakeup(t) <=> SpuriousWakeup(t))
  /\ Incr!vars = vars
BY DEF Incr!Init, Incr!Call, Incr!Enter, Incr!Moves, Incr!Step, Incr!LockStep, Incr!DestroyStep,
  Incr!SpuriousWakeup, Incr!vars, Incr!fields, Incr!threads, Incr!Acquire, Incr!LockFails,
  Incr!Return, Incr!Rdlock, Incr!RdlockWake, Incr!Wrlock, Incr!WrlockWake, Incr!Tryrdlock,
  Incr!Trywrlock, Incr!Unlock, Incr!Leave, Incr!Sleep, Incr!Refuse, Incr!EndWait,
  Incr!ReaderMustWait, Incr!WriterMustWait, Incr!SignalWriter, Incr!WakeWaiters, Incr!Released,
  Incr!Grants, Incr!TestCount, Incr!TestBusy, Incr!MutexInUse, Incr!DestroyMutex,
  Incr!DestroyConds, Incr!EndDestroy, Incr!LockOps, Incr!OK, Incr!EBUSY, Incr!EINVAL, Init,
  Call, Enter, Moves, Step, LockStep, DestroyStep, SpuriousWakeup, vars, fields, threads,
  Acquire, LockFails, Return, Rdlock, RdlockWake, Wrlock, WrlockWake, Tryrdlock, Trywrlock,
  Unlock, Leave, Sleep, Refuse, EndWait, ReaderMustWait, WriterMustWait, SignalWriter,
  WakeWaiters, Released, Grants, TestCount, TestBusy, MutexInUse, DestroyMutex, DestroyConds,
  EndDestroy, LockOps, OK, EBUSY, EINVAL

LEMMA SameInCancel ==
  /\ Cancel!Init <=> Init
  /\ \A t, op : Cancel!Call(t, op) <=> Call(t, op)
  /\ \A t : (Cancel!Step(t) <=> Step(t)) /\ (Cancel!SpuriousWakeup(t) <=> SpuriousWakeup(t))
  /\ \A t : (Cancel!Destroy(t) <=> Destroy(t)) /\ (Cancel!Initialise(t) <=> Initialise(t))
  /\ Cancel!vars = vars /\ Cancel!fields = fields
BY DEF Cancel!Init, Cancel!Call, Cancel!Enter, Cancel!Moves, Cancel!Step, Cancel!LockStep,
  Cancel!DestroyStep, Cancel!SpuriousWakeup, Cancel!vars, Cancel!fields, Cancel!threads,
  Cancel!Acquire, Cancel!LockFails, Cancel!Return, Cancel!Rdlock, Cancel!RdlockWake,
  Cancel!Wrlock, Cancel!WrlockWake, Cancel!Tryrdlock, Cancel!Trywrlock, Cancel!Unlock,
  Cancel!Leave, Cancel!Sleep, Cancel!Refuse, Cancel!EndWait, Cancel!ReaderMustWait,
  Cancel!WriterMustWait, Cancel!SignalWriter, Cancel!WakeWaiters, Cancel!Released,
  Cancel!Grants, Cancel!TestCount, Cancel!TestBusy, Cancel!MutexInUse, Cancel!DestroyMutex,
  Cancel!DestroyConds, Cancel!EndDestroy, Cancel!LockOps, Cancel!OK, Cancel!EBUSY,
  Cancel!EINVAL, Cancel!Destroy, Cancel!Initialise, Init, Call, Enter, Moves, Step, LockStep,
  DestroyStep, SpuriousWakeup, vars, fields, threads, Acquire, LockFails, Return, Rdlock,
  RdlockWake, Wrlock, WrlockWake, Tryrdlock, Trywrlock, Unlock, Leave, Sleep, Refuse, EndWait,
  ReaderMustWait, WriterMustWait, SignalWriter, WakeWaiters, Released, Grants, TestCount,
  TestBusy, MutexInUse, DestroyMutex, DestroyConds, EndDestroy, LockOps, OK, EBUSY, EINVAL,
  Destroy, Initialise
-----------------------------------------------------------------------------
(* What the programs need to know of a step in the lock. *)

\* A thread goes on in its call, or returns with what it was granted.
Inside(t) ==
  /\ at[t] \in LockPlaces /\ call' = call
  /\ \A u \in Threads \ {t} : at'[u] = at[u] /\ held'[u] = held[u]
  /\ \/ at'[t] \in LockPlaces /\ held'[t] = held[t]
     \/ at'[t] = "idle" /\ held'[t] = Grants(call[t])

LEMMA LockInvariant ==
  ASSUME IInv, NEW t \in Threads,
         \/ Step(t) \/ SpuriousWakeup(t) \/ UNCHANGED vars \/ Destroy(t)
         \/ \E op \in Ops : Call(t, op)
  PROVE  IInv'
<1>1. ~exited
  BY DEF IInv, NeverExits
<1>2. CASE Destroy(t)
  BY <1>2, DestroySteps
<1>3. CASE ~Destroy(t)
  BY <1>1, <1>3, NextInvariant DEF Next
<1> QED
  BY <1>2, <1>3

\* A thread that has not called the lock makes no step in it, and one that has
\* called it makes none of destroy.
LEMMA StepPlace ==
  ASSUME NEW t \in Threads, Step(t)
  PROVE  /\ at[t] \in LockPlaces \cup DestroyPlaces
         /\ at[t] \notin DestroyPlaces => LockStep(t)
<1>1. LockStep(t) => at[t] \in LockPlaces
  BY DEF LockStep, Acquire, LockFails, Return, Rdlock, RdlockWake, Wrlock, WrlockWake, Tryrdlock,
         Trywrlock, Unlock, EndWait, LockPlaces
<1>2. DestroyStep(t) => at[t] \in DestroyPlaces
  BY DEF DestroyStep, TestBusy, TestCount, DestroyMutex, DestroyConds, EndDestroy, DestroyPlaces,
         TearPlaces
<1> QED
  BY <1>1, <1>2 DEF Step

\* No action of the lock but Return changes held.
LEMMA InsideStep ==
  ASSUME IInv, Granting, NEW t \in Threads, Step(t)
  PROVE  Inside(t) /\ Granting'
<1>1. /\ at \in [Threads -> Places] /\ call \in [Threads -> Ops] /\ result \in [Threads -> Int]
      /\ held \in [Threads -> {"none", "read", "write"}]
      /\ ~gone /\ at[t] \in GrantPlaces
  BY DEF IInv, TypeOK, Granting
<1>2. LockStep(t)
  BY <1>1, StepPlace DEF GrantPlaces, DestroyPlaces, TearPlaces
<1>3. ~LockFails(t) /\ ~Refuse(t) /\ at[t] # "refused"
  BY <1>1, ProgramConstants DEF LockFails, Refuse, GrantPlaces
<1>4. call' = call /\ rw_magic' = rw_magic /\ gone' = gone
  BY <1>2, <1>3 DEF LockStep, Acquire, Return, Rdlock, RdlockWake, Wrlock, WrlockWake, Tryrdlock,
                    Trywrlock, Unlock, fields
<1>5. \/ at[t] = "unlock" /\ at' = [at EXCEPT ![t] = "idle"] /\ result' = result
         /\ held' = [held EXCEPT ![t] = Grants(call[t])]
      \/ /\ at[t] \in LockPlaces /\ held' = held
         /\ \/ at' = at
            \/ \E l \in GrantPlaces \ {"idle", "dead"} : at' = [at EXCEPT ![t] = l]
         /\ \/ result' = result /\ (at'[t] = "unlock" => at[t] = "unlock")
            \/ result' = [result EXCEPT ![t] = OK]
  <2> USE DEF LockPlaces, GrantPlaces
  <2>1. CASE Acquire(t)
    BY <1>1, <2>1 DEF Acquire
  <2>2. CASE Return(t)
    BY <1>1, <2>2 DEF Return, Granting
  <2>3. CASE Rdlock(t)
    BY <1>1, <1>3, <2>3 DEF Rdlock, Leave, Sleep
  <2>4. CASE Wrlock(t)
    BY <1>1, <1>3, <2>4 DEF Wrlock, Leave, Sleep
  <2>5. CASE RdlockWake(t) \/ WrlockWake(t)
    BY <1>1, <1>3, <2>5 DEF RdlockWake, WrlockWake, EndWait
  <2>6. CASE Tryrdlock(t) \/ Trywrlock(t)
    BY <1>1, <2>6 DEF Tryrdlock, Trywrlock, Granting
  <2>7. CASE Unlock(t)
    BY <1>1, <2>7 DEF Unlock, Leave
  <2> QED
    BY <1>2, <1>3, <2>1, <2>2, <2>3, <2>4, <2>5, <2>6, <2>7 DEF LockStep
<1>6. Inside(t)
  BY <1>1, <1>4, <1>5 DEF Inside, LockPlaces, GrantPlaces
<1>7. Granting'
  BY <1>1, <1>4, <1>5 DEF Granting, LockPlaces, GrantPlaces
<1> QED
  BY <1>6, <1>7

LEMMA CallEffect ==
  ASSUME TypeOK, Granting, NEW t \in Threads, NEW op \in {"rdlock", "wrlock", "unlock"},
         Call(t, op)
  PROVE  /\ at' = [at EXCEPT ![t] = "lock"] /\ call' = [call EXCEPT ![t] = op]
         /\ UNCHANGED <<held, result, rw_mutex>> /\ at[t] = "idle"
         /\ op \in Ops /\ Granting'
<1>1. /\ at' = [at EXCEPT ![t] = "lock"] /\ call' = [call EXCEPT ![t] = op]
      /\ UNCHANGED <<held, result, rw_magic, gone, rw_mutex>> /\ at[t] = "idle" /\ op \in Ops
  BY DEF Granting, Call, Enter, fields, Ops, LockOps
<1>2. Granting'
  BY <1>1 DEF Granting, GrantPlaces, TypeOK
<1> QED
  BY <1>1, <1>2

LEMMA HoldersExclude == ASSUME IInv PROVE Exclusive
<1> SUFFICES ASSUME NEW t \in Threads, NEW u \in Threads, Owns(t) = "write", u # t
             PROVE  Owns(u) = "none"
  BY DEF Exclusive
<1>1. rw_refcount = -1 /\ Writers = {t} /\ Owns(u) # "read"
  BY HolderFacts DEF IInv, TypeOK
<1>2. Owns(u) # "write"
  BY <1>1 DEF Writers
<1> QED
  BY <1>1, <1>2, OwnsType DEF IInv
-----------------------------------------------------------------------------
(* test1 and rwlock: the harness *)

LEMMA TestPlacesFacts ==
  ASSUME TestTypes
  PROVE  /\ ReadersIn \in Nat /\ WritersIn \in Nat
         /\ DOMAIN pc = Threads
         /\ IsFiniteSet(Threads \ ReaderThreads) /\ IsFiniteSet(ReaderThreads)
<1>1. IsFiniteSet(Threads \ ReaderThreads) /\ IsFiniteSet(ReaderThreads)
  BY ProgramConstants, FS_Subset
<1>2. ReadersIn \in Nat /\ WritersIn \in Nat
  BY <1>1, CountAt DEF ReadersIn, WritersIn
<1> QED
  BY <1>1, <1>2 DEF TestTypes

\* What is added to the number of those in the body when a thread moves.
Added(t, to) == (IF to \in Entered THEN 1 ELSE 0) - (IF pc[t] \in Entered THEN 1 ELSE 0)

LEMMA TestMoves ==
  ASSUME TestTypes, NEW t \in Threads, NEW to, pc' = [pc EXCEPT ![t] = to]
  PROVE  /\ pc'[t] = to /\ \A u \in Threads \ {t} : pc'[u] = pc[u]
         /\ ReadersIn' = IF t \in ReaderThreads THEN ReadersIn + Added(t, to) ELSE ReadersIn
         /\ WritersIn' = IF t \in ReaderThreads THEN WritersIn ELSE WritersIn + Added(t, to)
<1>1. pc'[t] = to /\ \A u \in Threads \ {t} : pc'[u] = pc[u]
  BY DEF TestTypes
<1>2. ASSUME NEW S, S \subseteq Threads, IsFiniteSet(S), t \in S
      PROVE  Cardinality({u \in S : (pc')[u] \in Entered}) =
               Cardinality({u \in S : pc[u] \in Entered})
                 + (IF to \in Entered THEN 1 ELSE 0) - (IF pc[t] \in Entered THEN 1 ELSE 0)
  <2>1. \A qc : qc = [pc EXCEPT ![t] = to] =>
          Cardinality({u \in S : qc[u] \in Entered}) =
            Cardinality({u \in S : pc[u] \in Entered})
              + (IF to \in Entered THEN 1 ELSE 0) - (IF pc[t] \in Entered THEN 1 ELSE 0)
    BY <1>2, TestPlacesFacts, CountMoves
  <2> QED
    BY <2>1
<1>3. ASSUME NEW S, S \subseteq Threads, t \notin S
      PROVE  {u \in S : pc'[u] \in Entered} = {u \in S : pc[u] \in Entered}
  BY <1>1, <1>3
<1>4. CASE t \in ReaderThreads
  <2>1. ReadersIn' = ReadersIn + (IF to \in Entered THEN 1 ELSE 0)
                               - (IF pc[t] \in Entered THEN 1 ELSE 0)
    BY <1>2, <1>4, ProgramConstants, TestPlacesFacts DEF ReadersIn
  <2>2. WritersIn' = WritersIn
    BY <1>3, <1>4, ProgramConstants DEF WritersIn
  <2> QED
    BY <1>1, <1>4, <2>1, <2>2, TestPlacesFacts DEF Added
<1>5. CASE t \notin ReaderThreads
  <2>1. WritersIn' = WritersIn + (IF to \in Entered THEN 1 ELSE 0)
                               - (IF pc[t] \in Entered THEN 1 ELSE 0)
    BY <1>2, <1>5, ProgramConstants, TestPlacesFacts DEF WritersIn
  <2>2. ReadersIn' = ReadersIn
    BY <1>3, <1>5, ProgramConstants DEF ReadersIn
  <2> QED
    BY <1>1, <1>5, <2>1, <2>2, TestPlacesFacts DEF Added
<1> QED
  BY <1>4, <1>5

\* Whoever is in the body of its loop holds the lock.
LEMMA BodyHolds ==
  ASSUME TestInv, NEW t \in Threads, pc[t] \in InLoop
  PROVE  Owns(t) = Kind(t)
BY DEF TestInv, TestPlaces, Owns

\* Two threads in the body are two readers.
LEMMA TogetherRead ==
  ASSUME TestInv, Exclusive, NEW t \in Threads, NEW u \in Threads, t # u,
         pc[t] \in InLoop, pc[u] \in InLoop
  PROVE  t \in ReaderThreads /\ u \in ReaderThreads
<1>1. Owns(t) = Kind(t) /\ Owns(u) = Kind(u)
  BY BodyHolds
<1> QED
  BY <1>1 DEF Exclusive, Kind

LEMMA LoadStep ==
  ASSUME TestInv, Exclusive, NEW t \in Threads, Test!Load(t)
  PROVE  TestInv'
<1> DEFINE to == IF pc[t] = "inc" THEN "incremented" ELSE "decremented"
<1>1. /\ pc[t] \in {"inc", "dec"} /\ at[t] = "idle"
      /\ IF t \in ReaderThreads THEN rcountlock = Nobody /\ rcountlock' = t
                                ELSE rcountlock' = rcountlock
      /\ reg' = [reg EXCEPT ![t] = CounterOf(t)] /\ pc' = [pc EXCEPT ![t] = to]
      /\ UNCHANGED <<i, nreaders, nwriters, failed>>
      /\ at' = at /\ held' = held /\ call' = call
  BY DEF Test!Load, Test!Back, Test!Guarded, Test!Goto, CounterOf, Test!vars, Test!threads
<1>2. /\ pc'[t] = to /\ to \in {"incremented", "decremented"}
      /\ \A u \in Threads \ {t} : pc'[u] = pc[u]
      /\ ReadersIn' = ReadersIn /\ WritersIn' = WritersIn
  <2>1. Added(t, to) = 0
    BY <1>1 DEF Added, Entered
  <2> HIDE DEF to
  <2>2. /\ pc'[t] = to /\ \A u \in Threads \ {t} : pc'[u] = pc[u]
        /\ ReadersIn' = IF t \in ReaderThreads THEN ReadersIn + Added(t, to) ELSE ReadersIn
        /\ WritersIn' = IF t \in ReaderThreads THEN WritersIn ELSE WritersIn + Added(t, to)
    BY <1>1, TestMoves DEF TestInv
  <2> QED
    BY <2>1, <2>2, TestPlacesFacts DEF to, TestInv
<1>3. CounterOf(t) \in Nat /\ reg'[t] = CounterOf(t) /\ \A u \in Threads \ {t} : reg'[u] = reg[u]
  BY <1>1 DEF TestInv, TestTypes, CounterOf
<1>4. TestTypes'
  <2>1. pc' \in [Threads -> {"lock", "inc"} \cup InLoop]
    BY <1>1 DEF TestInv, TestTypes, InLoop
  <2>2. reg' \in [Threads -> Nat]
    BY <1>1, <1>3 DEF TestInv, TestTypes
  <2> QED
    BY <1>1, <2>1, <2>2 DEF TestInv, TestTypes
<1>5. TestPlaces'
  <2>1. held[t] = Kind(t)
    BY <1>1 DEF TestInv, TestPlaces, InLoop
  <2> QED
    BY <1>1, <1>2, <2>1 DEF TestInv, TestPlaces, Kind, LockOf, InLoop
<1>6. \A u \in Threads : pc'[u] \in Updating => reg'[u] = CounterOf(u)'
  BY <1>1, <1>2, <1>3 DEF TestInv, TestCounts, CounterOf
<1>7. \A u \in ReaderThreads : pc'[u] \in Updating <=> rcountlock' = u
  BY <1>1, <1>2, ProgramConstants DEF TestInv, TestCounts, Updating
<1>8. TestCounts'
  BY <1>1, <1>2, <1>6, <1>7 DEF TestInv, TestCounts
<1> QED
  BY <1>1, <1>4, <1>5, <1>8 DEF TestInv

\* A thread that updates its counter has it to itself: a reader has the mutex,
\* a writer the lock.
LEMMA UpdatesAlone ==
  ASSUME TestInv, Exclusive, NEW t \in Threads, NEW u \in Threads, t # u,
         pc[t] \in Updating, pc[u] \in Updating
  PROVE  Kind(t) # Kind(u)
<1>1. t \in ReaderThreads /\ u \in ReaderThreads
  BY TogetherRead DEF InLoop, Updating
<1>2. rcountlock = t /\ rcountlock = u
  BY <1>1 DEF TestInv, TestCounts
<1> QED
  BY <1>2

LEMMA StoreStep ==
  ASSUME TestInv, Exclusive, NEW t \in Threads, Test!Store(t)
  PROVE  TestInv'
<1> DEFINE to == IF pc[t] = "incremented" THEN "check" ELSE "unlock"
           n == IF pc[t] = "incremented" THEN reg[t] + 1 ELSE reg[t] - 1
<1>1. /\ pc[t] \in {"incremented", "decremented"}
      /\ IF t \in ReaderThreads THEN nreaders' = n /\ nwriters' = nwriters
                                ELSE nwriters' = n /\ nreaders' = nreaders
      /\ rcountlock' = IF t \in ReaderThreads THEN Nobody ELSE rcountlock
      /\ pc' = [pc EXCEPT ![t] = to]
      /\ UNCHANGED <<i, reg, failed>> /\ at' = at /\ held' = held /\ call' = call
  BY DEF Test!Store, Test!Guarded, Test!Goto, Test!vars, Test!threads
<1>2. reg[t] = CounterOf(t) /\ at[t] = "idle" /\ held[t] = Kind(t)
  BY <1>1 DEF TestInv, TestCounts, TestPlaces, Updating, InLoop
<1>3. nreaders \in Nat /\ nwriters \in Nat /\ nreaders = ReadersIn /\ nwriters = WritersIn
  BY DEF TestInv, TestTypes, TestCounts
<1>4. n = CounterOf(t) + Added(t, to) /\ to \in {"check", "unlock"}
  BY <1>1, <1>2, <1>3 DEF Added, Entered, CounterOf
<1> HIDE DEF to, n
<1>5. /\ pc'[t] = to /\ \A u \in Threads \ {t} : pc'[u] = pc[u]
      /\ ReadersIn' = IF t \in ReaderThreads THEN ReadersIn + Added(t, to) ELSE ReadersIn
      /\ WritersIn' = IF t \in ReaderThreads THEN WritersIn ELSE WritersIn + Added(t, to)
  BY <1>1, TestMoves DEF TestInv
<1>6. nreaders' = ReadersIn' /\ nwriters' = WritersIn'
  BY <1>1, <1>3, <1>4, <1>5 DEF CounterOf
<1>7. TestTypes'
  <2>1. pc' \in [Threads -> {"lock", "inc"} \cup InLoop]
    BY <1>1, <1>4 DEF TestInv, TestTypes, InLoop
  <2>2. pc' \in [Threads -> {"lock", "inc"} \cup InLoop] /\ DOMAIN pc' = Threads
    BY <2>1
  <2>3. ReadersIn' \in Nat /\ WritersIn' \in Nat
    <3>1. IsFiniteSet(Threads \ ReaderThreads) /\ IsFiniteSet(ReaderThreads)
      BY TestPlacesFacts DEF TestInv
    <3> QED
      BY <3>1, CountAt DEF ReadersIn, WritersIn
  <2>4. rcountlock' \in ReaderThreads \cup {Nobody}
    BY <1>1 DEF TestInv, TestTypes
  <2>5. i' \in [Threads -> Nat] /\ reg' \in [Threads -> Nat]
    BY <1>1 DEF TestInv, TestTypes
  <2> QED
    BY <1>6, <2>1, <2>3, <2>4, <2>5 DEF TestTypes
<1>8. TestPlaces'
  BY <1>1, <1>2, <1>4, <1>5 DEF TestInv, TestPlaces, Kind, LockOf, InLoop
<1>9. ASSUME NEW u \in Threads, pc'[u] \in Updating
      PROVE  reg'[u] = CounterOf(u)'
  <2>1. u # t /\ pc[u] \in Updating
    BY <1>4, <1>5, <1>9 DEF Updating
  <2>2. Kind(u) # Kind(t)
    BY <1>1, <2>1, UpdatesAlone DEF Updating
  <2> QED
    BY <1>1, <2>1, <2>2 DEF TestInv, TestCounts, Kind, CounterOf
<1>10. ASSUME NEW u \in ReaderThreads PROVE pc'[u] \in Updating <=> rcountlock' = u
  <2>1. u \in Threads /\ t # Nobody /\ u # Nobody
    BY ProgramConstants
  <2>2. CASE u = t
    BY <1>1, <1>4, <1>5, <1>10, <2>1, <2>2 DEF Updating
  <2>3. CASE u # t /\ t \in ReaderThreads
    <3>1. rcountlock = t
      BY <1>1, <2>3 DEF TestInv, TestCounts, Updating
    <3> QED
      BY <1>1, <1>5, <2>1, <2>3, <3>1 DEF TestInv, TestCounts
  <2>4. CASE u # t /\ t \notin ReaderThreads
    BY <1>1, <1>5, <2>1, <2>4 DEF TestInv, TestCounts
  <2> QED
    BY <2>2, <2>3, <2>4
<1> QED
  BY <1>1, <1>6, <1>7, <1>8, <1>9, <1>10 DEF TestInv, TestCounts

\* What makes the checks pass.
LEMMA CheckFinds ==
  ASSUME TestInv, Exclusive, NEW t \in Threads
  PROVE  /\ pc[t] = "check" /\ t \in ReaderThreads => nwriters = 0
         /\ pc[t] = "check" /\ t \notin ReaderThreads => nwriters = 1
         /\ pc[t] = "check_readers" => nreaders = 0
<1>1. IsFiniteSet(Threads \ ReaderThreads) /\ IsFiniteSet(ReaderThreads)
  BY TestPlacesFacts DEF TestInv
<1>2. nreaders = ReadersIn /\ nwriters = WritersIn
  BY DEF TestInv, TestCounts
<1>3. \A u \in Threads \ {t} : pc[t] \in InLoop /\ pc[u] \in Entered
                                 => t \in ReaderThreads /\ u \in ReaderThreads
  BY TogetherRead DEF Entered, InLoop
<1>4. CASE pc[t] = "check" /\ t \in ReaderThreads
  <2>1. \A u \in Threads \ ReaderThreads : pc[u] \notin Entered
    BY <1>3, <1>4 DEF InLoop
  <2> QED
    BY <1>1, <1>2, <1>4, <2>1, CountAt DEF WritersIn
<1>5. CASE pc[t] = "check" /\ t \notin ReaderThreads
  <2>1. {u \in Threads \ ReaderThreads : pc[u] \in Entered} = {t}
    BY <1>3, <1>5 DEF InLoop, Entered
  <2> QED
    BY <1>2, <1>5, <2>1, FS_Singleton DEF WritersIn
<1>6. CASE pc[t] = "check_readers"
  <2>1. t \notin ReaderThreads
    BY <1>6 DEF TestInv, TestPlaces
  <2>2. \A u \in ReaderThreads : pc[u] \notin Entered
    BY <1>3, <1>6, <2>1, ProgramConstants DEF InLoop
  <2> QED
    BY <1>1, <1>2, <1>6, <2>2, CountAt DEF ReadersIn
<1> QED
  BY <1>4, <1>5, <1>6

LEMMA CheckStep ==
  ASSUME TestInv, Exclusive, NEW t \in Threads, Test!Check(t)
  PROVE  TestInv'
<1>1. PICK to \in {"dec", "check_readers"} :
        /\ pc[t] \in {"check", "check_readers"} /\ pc' = [pc EXCEPT ![t] = to]
        /\ to = "check_readers" => t \notin ReaderThreads
        /\ UNCHANGED <<i, reg, rcountlock, nreaders, nwriters>>
        /\ at' = at /\ held' = held /\ call' = call
  BY DEF Test!Check, Test!Goto, Test!vars, Test!threads
<1>2. ~failed'
  <2>1. CASE pc[t] = "check" /\ t \in ReaderThreads
    <3>1. failed' = (nwriters > 0)
      BY <2>1 DEF Test!Check
    <3>2. ~(nwriters > 0)
      BY <2>1, CheckFinds
    <3> QED
      BY <3>1, <3>2, Zenon
  <2>2. CASE pc[t] = "check" /\ t \notin ReaderThreads
    <3>1. failed' = (nwriters > 1)
      BY <2>2 DEF Test!Check
    <3>2. ~(nwriters > 1)
      BY <2>2, CheckFinds
    <3> QED
      BY <3>1, <3>2, Zenon
  <2>3. CASE pc[t] = "check_readers"
    <3>1. failed' = (nreaders > 0)
      BY <2>3 DEF Test!Check
    <3>2. ~(nreaders > 0)
      BY <2>3, CheckFinds
    <3> QED
      BY <3>1, <3>2, Zenon
  <2> QED
    BY <1>1, <2>1, <2>2, <2>3
<1>3. /\ pc'[t] = to /\ \A u \in Threads \ {t} : pc'[u] = pc[u]
      /\ ReadersIn' = ReadersIn /\ WritersIn' = WritersIn
  <2>1. Added(t, to) = 0
    BY <1>1 DEF Added, Entered
  <2>2. /\ pc'[t] = to /\ \A u \in Threads \ {t} : pc'[u] = pc[u]
        /\ ReadersIn' = IF t \in ReaderThreads THEN ReadersIn + Added(t, to) ELSE ReadersIn
        /\ WritersIn' = IF t \in ReaderThreads THEN WritersIn ELSE WritersIn + Added(t, to)
    BY <1>1, TestMoves DEF TestInv
  <2> QED
    BY <2>1, <2>2, TestPlacesFacts DEF TestInv
<1>4. TestTypes'
  BY <1>1 DEF TestInv, TestTypes, InLoop
<1>5. TestPlaces'
  BY <1>1, <1>3 DEF TestInv, TestPlaces, Kind, LockOf, InLoop
<1>6. TestCounts'
  <2>1. \A u \in Threads : pc'[u] \in Updating <=> pc[u] \in Updating
    BY <1>1, <1>3 DEF Updating
  <2> QED
    BY <1>1, <1>3, <2>1, ProgramConstants DEF TestInv, TestCounts, CounterOf
<1> QED
  BY <1>2, <1>4, <1>5, <1>6 DEF TestInv
-----------------------------------------------------------------------------
(* test1: the harness over the lock of the repository *)

Test1Inv == IInv /\ Granting /\ TestInv

\* A thread goes to a place outside the body of its loop.
LEMMA TestGoes ==
  ASSUME TestInv, NEW t \in Threads, NEW to \in {"inc", "lock"}, pc[t] \in {"lock", "unlock"},
         pc' = [pc EXCEPT ![t] = to], i' \in [Threads -> Nat],
         UNCHANGED <<reg, rcountlock, nreaders, nwriters, failed>>
  PROVE  /\ pc'[t] = to /\ \A u \in Threads \ {t} : pc'[u] = pc[u]
         /\ TestTypes' /\ TestCounts' /\ ~failed'
<1>1. Added(t, to) = 0
  BY DEF Added, Entered
<1>2. /\ pc'[t] = to /\ \A u \in Threads \ {t} : pc'[u] = pc[u]
      /\ ReadersIn' = IF t \in ReaderThreads THEN ReadersIn + Added(t, to) ELSE ReadersIn
      /\ WritersIn' = IF t \in ReaderThreads THEN WritersIn ELSE WritersIn + Added(t, to)
  BY TestMoves DEF TestInv
<1>3. ReadersIn' = ReadersIn /\ WritersIn' = WritersIn
  BY <1>1, <1>2, TestPlacesFacts DEF TestInv
<1>4. TestTypes'
  BY DEF TestInv, TestTypes
<1>5. \A u \in Threads : pc'[u] \in Updating <=> pc[u] \in Updating
  BY <1>2 DEF Updating
<1>6. TestCounts'
  BY <1>3, <1>5, ProgramConstants DEF TestInv, TestCounts, CounterOf
<1> QED
  BY <1>2, <1>4, <1>6 DEF TestInv

LEMMA TakeLockStep ==
  ASSUME Test1Inv, NEW t \in Threads, Test!TakeLock(t)
  PROVE  Test1Inv'
<1>1. /\ pc[t] = "lock" /\ at[t] = "idle" /\ Call(t, LockOf(t)) /\ pc' = [pc EXCEPT ![t] = "inc"]
      /\ UNCHANGED <<i, reg, rcountlock, nreaders, nwriters, failed>>
  BY SameInTest DEF Test!TakeLock, Test!Back, Test!Goto, LockOf
<1>2. LockOf(t) \in {"rdlock", "wrlock", "unlock"}
  BY DEF LockOf
<1> DEFINE op == LockOf(t)
<1> HIDE DEF op
<1>3. /\ at' = [at EXCEPT ![t] = "lock"] /\ call' = [call EXCEPT ![t] = op]
      /\ held' = held /\ op \in Ops /\ Granting'
  <2>1. op \in {"rdlock", "wrlock", "unlock"} /\ Call(t, op)
    BY <1>1, <1>2 DEF op
  <2> QED
    BY <2>1, CallEffect DEF Test1Inv, IInv
<1>4. IInv'
  BY <1>1, <1>3, LockInvariant DEF Test1Inv, op
<1>5. /\ pc'[t] = "inc" /\ \A u \in Threads \ {t} : pc'[u] = pc[u]
      /\ TestTypes' /\ TestCounts' /\ ~failed'
  BY <1>1, TestGoes DEF Test1Inv, TestInv, TestTypes
<1>6. TestPlaces'
  <2>1. at \in [Threads -> Places] /\ call \in [Threads -> Ops]
    BY DEF Test1Inv, IInv, TypeOK
  <2>2. /\ at'[t] = "lock" /\ call'[t] = LockOf(t)
        /\ \A u \in Threads \ {t} : at'[u] = at[u] /\ call'[u] = call[u]
    BY <1>3, <2>1 DEF op
  <2> QED
    BY <1>3, <1>5, <2>2 DEF Test1Inv, TestInv, TestPlaces, InLoop, Kind, LockOf
<1> QED
  BY <1>3, <1>4, <1>5, <1>6 DEF Test1Inv, TestInv

LEMMA GiveLockStep ==
  ASSUME Test1Inv, NEW t \in Threads, Test!GiveLock(t)
  PROVE  Test1Inv'
<1>1. /\ pc[t] = "unlock" /\ Call(t, "unlock") /\ pc' = [pc EXCEPT ![t] = "lock"]
      /\ i' = [i EXCEPT ![t] = @ + 1]
      /\ UNCHANGED <<reg, rcountlock, nreaders, nwriters, failed>>
  BY SameInTest DEF Test!GiveLock, Test!Goto
<1>2. /\ at' = [at EXCEPT ![t] = "lock"] /\ call' = [call EXCEPT ![t] = "unlock"]
      /\ held' = held /\ "unlock" \in Ops /\ Granting'
  BY <1>1, CallEffect DEF Test1Inv, IInv
<1>3. IInv'
  BY <1>1, <1>2, LockInvariant DEF Test1Inv
<1>4. i' \in [Threads -> Nat]
  BY <1>1 DEF Test1Inv, TestInv, TestTypes
<1>5. /\ pc'[t] = "lock" /\ \A u \in Threads \ {t} : pc'[u] = pc[u]
      /\ TestTypes' /\ TestCounts' /\ ~failed'
  BY <1>1, <1>4, TestGoes DEF Test1Inv
<1>6. TestPlaces'
  <2>1. at \in [Threads -> Places] /\ call \in [Threads -> Ops]
    BY DEF Test1Inv, IInv, TypeOK
  <2>2. /\ at'[t] = "lock" /\ call'[t] = "unlock"
        /\ \A u \in Threads \ {t} : at'[u] = at[u] /\ call'[u] = call[u]
    BY <1>2, <2>1
  <2> QED
    BY <1>2, <1>5, <2>2 DEF Test1Inv, TestInv, TestPlaces, InLoop, Kind, LockOf
<1> QED
  BY <1>2, <1>3, <1>5, <1>6 DEF Test1Inv, TestInv

LEMMA TestInLockStep ==
  ASSUME Test1Inv, NEW t \in Threads, Test!InLock(t)
  PROVE  Test1Inv'
<1>1. /\ Step(t)
      /\ UNCHANGED <<pc, i, reg, rcountlock, nreaders, nwriters, failed>>
  BY SameInTest DEF Test!InLock, Test!client
<1>2. IInv' /\ Inside(t) /\ Granting'
  BY <1>1, LockInvariant, InsideStep DEF Test1Inv
<1>3. TestPlaces'
  BY <1>1, <1>2 DEF Test1Inv, TestInv, TestPlaces, Inside, LockPlaces, Grants, Kind, LockOf
<1>4. TestTypes' /\ TestCounts' /\ ~failed'
  BY <1>1 DEF Test1Inv, TestInv, TestTypes, TestCounts, CounterOf, ReadersIn, WritersIn
<1> QED
  BY <1>2, <1>3, <1>4 DEF Test1Inv, TestInv

LEMMA Test1Steps ==
  ASSUME Test1Inv, NEW t \in Threads, Test!ThreadStep(t) \/ Test!Wakeup(t)
  PROVE  Test1Inv'
<1>1. CASE Test!Wakeup(t)
  <2>1. SpuriousWakeup(t) /\ UNCHANGED <<pc, i, reg, rcountlock, nreaders, nwriters, failed>>
    BY <1>1, SameInTest DEF Test!Wakeup, Test!client
  <2>2. IInv'
    BY <2>1, LockInvariant DEF Test1Inv
  <2>3. Granting' /\ TestInv'
    BY <2>1 DEF SpuriousWakeup, threads, Test1Inv, Granting, TestInv, TestTypes, TestPlaces,
       TestCounts, CounterOf, ReadersIn, WritersIn
  <2> QED
    BY <2>2, <2>3 DEF Test1Inv
<1>2. CASE Test!TakeLock(t) \/ Test!GiveLock(t) \/ Test!InLock(t)
  BY <1>2, TakeLockStep, GiveLockStep, TestInLockStep
<1>3. CASE Test!Load(t) \/ Test!Store(t) \/ Test!Check(t)
  <2>1. UNCHANGED vars
    BY <1>3, SameInTest
    DEF Test!Load, Test!Store, Test!Check, Test!vars, Test!fields, Test!threads,
        vars, fields, threads
  <2>2. IInv'
    BY <2>1, LockInvariant DEF Test1Inv
  <2>3. Granting'
    BY <2>1 DEF vars, fields, threads, Test1Inv, Granting
  <2>4. TestInv'
    BY <1>3, HoldersExclude, LoadStep, StoreStep, CheckStep DEF Test1Inv
  <2> QED
    BY <2>2, <2>3, <2>4 DEF Test1Inv
<1> QED
  BY <1>1, <1>2, <1>3 DEF Test!ThreadStep, Test!Harness

LEMMA TestInit ==
  ASSUME Test!Test1Init
  PROVE  IInv /\ Granting /\ TestInv
<1>1. /\ Init /\ pc = [t \in Threads |-> "lock"]
      /\ i = [t \in Threads |-> 0] /\ reg = [t \in Threads |-> 0]
      /\ rcountlock = Nobody /\ nreaders = 0 /\ nwriters = 0 /\ failed = FALSE
  BY SameInTest DEF Test!Test1Init
<1>2. IInv /\ Granting
  BY <1>1, InitInvariant DEF Init, Granting, GrantPlaces, LockPlaces
<1>3. TestTypes /\ TestPlaces
  BY <1>1 DEF Init, TestTypes, TestPlaces, InLoop
<1>4. ReadersIn = 0 /\ WritersIn = 0
  <2>1. \A t \in Threads : pc[t] \notin Entered
    BY <1>1 DEF Entered
  <2>2. IsFiniteSet(ReaderThreads) /\ IsFiniteSet(Threads \ ReaderThreads)
    BY <1>3, TestPlacesFacts
  <2> QED
    BY <2>1, <2>2, CountAt, ProgramConstants DEF ReadersIn, WritersIn
<1>5. TestCounts
  BY <1>1, <1>4, ProgramConstants DEF TestCounts, Updating
<1> QED
  BY <1>1, <1>2, <1>3, <1>5 DEF TestInv
-----------------------------------------------------------------------------
(* rwlock: the harness over what a thread is granted *)

RwlockInv == LibInv /\ Exclusive /\ TestInv

LEMMA SameHarness ==
  ASSUME NEW t
  PROVE  /\ Lib!Load(t) <=> Test!Load(t)
         /\ Lib!Store(t) <=> Test!Store(t)
         /\ Lib!Check(t) <=> Test!Check(t)
BY DEF Lib!Load, Lib!Store, Lib!Check, Lib!Back, Lib!Guarded, Lib!Goto, Lib!vars, Lib!fields,
  Lib!threads, Test!Load, Test!Store, Test!Check, Test!Back, Test!Guarded, Test!Goto, Test!vars,
  Test!fields, Test!threads

\* Outside the lock what a thread owns is what it was granted.
LEMMA LibOwns ==
  ASSUME LibInv
  PROVE  \A t \in Threads : Owns(t) = held[t]
BY DEF LibInv, Owns

LEMMA GrantedStep ==
  ASSUME RwlockInv, NEW t \in Threads, Lib!Granted(t)
  PROVE  RwlockInv'
<1>1. /\ pc[t] = "lock" /\ pc' = [pc EXCEPT ![t] = "inc"]
      /\ held' = [held EXCEPT ![t] = Kind(t)]
      /\ IF t \in ReaderThreads THEN \A u \in Threads : held[u] # "write"
                                ELSE \A u \in Threads : held[u] = "none"
      /\ UNCHANGED <<i, reg, rcountlock, nreaders, nwriters, failed>>
      /\ at' = at /\ call' = call /\ result' = result
  BY DEF Lib!Granted, Lib!Goto, Lib!MayRead, Lib!MayWrite, Kind
<1>2. /\ pc'[t] = "inc" /\ \A u \in Threads \ {t} : pc'[u] = pc[u]
      /\ TestTypes' /\ TestCounts' /\ ~failed'
  BY <1>1, TestGoes DEF RwlockInv, TestInv, TestTypes
<1>3. held'[t] = Kind(t) /\ \A u \in Threads \ {t} : held'[u] = held[u]
  BY <1>1 DEF RwlockInv, LibInv
<1>4. TestPlaces'
  BY <1>1, <1>2, <1>3 DEF RwlockInv, LibInv, TestInv, TestPlaces, InLoop
<1>5. LibInv'
  BY <1>1 DEF RwlockInv, LibInv, Kind
<1>6. \A u \in Threads : Owns(u) = held[u] /\ Owns(u)' = held'[u]
  BY <1>1 DEF RwlockInv, LibInv, Owns
<1>7. Exclusive'
  BY <1>1, <1>3, <1>6 DEF RwlockInv, Exclusive, Kind
<1> QED
  BY <1>2, <1>4, <1>5, <1>7 DEF RwlockInv, TestInv

LEMMA GiveBackStep ==
  ASSUME RwlockInv, NEW t \in Threads, Lib!GiveBack(t)
  PROVE  RwlockInv'
<1>1. /\ pc[t] = "unlock" /\ pc' = [pc EXCEPT ![t] = "lock"]
      /\ held' = [held EXCEPT ![t] = "none"] /\ i' = [i EXCEPT ![t] = @ + 1]
      /\ UNCHANGED <<reg, rcountlock, nreaders, nwriters, failed>>
      /\ at' = at /\ call' = call /\ result' = result
  BY DEF Lib!GiveBack, Lib!Goto
<1>2. /\ pc'[t] = "lock" /\ \A u \in Threads \ {t} : pc'[u] = pc[u]
      /\ TestTypes' /\ TestCounts' /\ ~failed'
  <2>1. i' \in [Threads -> Nat]
    BY <1>1 DEF RwlockInv, TestInv, TestTypes
  <2> QED
    BY <1>1, <2>1, TestGoes DEF RwlockInv
<1>3. held'[t] = "none" /\ \A u \in Threads \ {t} : held'[u] = held[u]
  BY <1>1 DEF RwlockInv, LibInv
<1>4. TestPlaces'
  BY <1>1, <1>2, <1>3 DEF RwlockInv, LibInv, TestInv, TestPlaces, InLoop
<1>5. LibInv'
  BY <1>1 DEF RwlockInv, LibInv
<1>6. \A u \in Threads : Owns(u) = held[u] /\ Owns(u)' = held'[u]
  BY <1>1 DEF RwlockInv, LibInv, Owns
<1>7. Exclusive'
  BY <1>3, <1>6 DEF RwlockInv, Exclusive
<1> QED
  BY <1>2, <1>4, <1>5, <1>7 DEF RwlockInv, TestInv

LEMMA RwlockSteps ==
  ASSUME RwlockInv, NEW t \in Threads, Lib!ReaderOrWriter(t)
  PROVE  RwlockInv'
<1>1. CASE Test!Load(t) \/ Test!Store(t) \/ Test!Check(t)
  <2>1. at' = at /\ held' = held /\ call' = call /\ result' = result
    BY <1>1 DEF Test!Load, Test!Store, Test!Check, Test!vars, Test!threads
  <2>2. LibInv' /\ Exclusive'
    BY <2>1 DEF RwlockInv, LibInv, Exclusive, Owns
  <2>3. TestInv'
    BY <1>1, LoadStep, StoreStep, CheckStep DEF RwlockInv
  <2> QED
    BY <2>2, <2>3 DEF RwlockInv
<1>2. CASE Lib!Granted(t) \/ Lib!GiveBack(t)
  BY <1>2, GrantedStep, GiveBackStep
<1> QED
  BY <1>1, <1>2, SameHarness DEF Lib!ReaderOrWriter

LEMMA RwlockInit ==
  ASSUME Test!Test1Init
  PROVE  RwlockInv
<1>1. Init /\ IInv /\ TestInv
  BY TestInit, SameInTest DEF Test!Test1Init
<1>2. LibInv
  BY <1>1 DEF Init, LibInv
<1> QED
  BY <1>1, <1>2, HoldersExclude DEF RwlockInv
-----------------------------------------------------------------------------
(* incr_rwlock1 *)

Incr1Inv == IInv /\ Granting /\ IncrInv

LEMMA SameTotal == \A f : Incr!Total(f) = Total(f)
<1>1. \A S : Incr!Cardinality(S) = Cardinality(S)
  BY DEF Incr!Cardinality, Cardinality
<1> QED
  BY <1>1 DEF Incr!Total, Incr!Units, Total, Units

\* While a thread has the lock no other is where it needs it.
LEMMA StoresAlone ==
  ASSUME Incr1Inv, NEW t \in Threads, NEW u \in Threads, t # u, pc[t] = "store"
  PROVE  pc[u] # "store"
<1> SUFFICES ASSUME pc[u] = "store" PROVE FALSE
  OBVIOUS
<1>1. Owns(t) = "write" /\ Owns(u) = "write"
  BY DEF Incr1Inv, IncrInv, IncrPlaces, Owns
<1> QED
  BY <1>1, HoldersExclude DEF Incr1Inv, Exclusive

\* A thread that moves on without storing, or comes back for the next turn.
LEMMA IncrGoes ==
  ASSUME Incr1Inv, NEW t \in Threads, NEW to, pc' = [pc EXCEPT ![t] = to],
         to \in {"wrlock", "create", "join", "end", "new", "loop", "load", "store", "unlock"},
         counter' = counter, i' \in [Threads -> Nat], reg' \in [Threads -> Nat],
         Stores' = Stores, \A u \in Threads \ {t} : reg'[u] = reg[u],
         to = "store" => reg'[t] = counter
  PROVE  /\ pc'[t] = to /\ \A u \in Threads \ {t} : pc'[u] = pc[u]
         /\ IncrTypes' /\ IncrCounts'
<1>1. pc'[t] = to /\ \A u \in Threads \ {t} : pc'[u] = pc[u]
  BY DEF Incr1Inv, IncrInv, IncrTypes
<1>2. IncrTypes'
  BY DEF Incr1Inv, IncrInv, IncrTypes
<1>3. IncrCounts'
  BY <1>1 DEF Incr1Inv, IncrInv, IncrCounts
<1> QED
  BY <1>1, <1>2, <1>3

LEMMA StoresKept ==
  ASSUME IncrTypes, NEW t \in Threads, NEW to, pc' = [pc EXCEPT ![t] = to],
         \/ i' = i /\ pc[t] # "unlock" /\ to # "unlock"
         \/ i' = [i EXCEPT ![t] = i[t] + 1] /\ pc[t] = "unlock" /\ to # "unlock"
  PROVE  Stores' = Stores
<1>1. pc'[t] = to /\ \A u \in Threads \ {t} : pc'[u] = pc[u]
  BY DEF IncrTypes
<1>2. ASSUME NEW u \in Threads PROVE Incr!Stores(u)' = Incr!Stores(u)
  BY <1>1 DEF IncrTypes, Incr!Stores
<1> QED
  BY <1>2 DEF Stores, Incr!Incr

LEMMA MainLockStep ==
  ASSUME Incr1Inv, Incr!MainLock
  PROVE  Incr1Inv'
<1>1. /\ pc[main] = "wrlock" /\ pc' = [pc EXCEPT ![main] = "create"] /\ Call(main, "wrlock")
      /\ UNCHANGED <<i, reg, counter>> /\ main \in Threads
  BY SameInIncr, ProgramConstants DEF Incr!MainLock, Incr!Goto
<1>2. /\ at' = [at EXCEPT ![main] = "lock"] /\ call' = [call EXCEPT ![main] = "wrlock"]
      /\ held' = held /\ "wrlock" \in Ops /\ Granting'
  BY <1>1, CallEffect DEF Incr1Inv, IInv
<1>3. IInv'
  BY <1>1, <1>2, LockInvariant DEF Incr1Inv
<1>4. Stores' = Stores
  BY <1>1, StoresKept DEF Incr1Inv, IncrInv
<1>5. /\ pc'[main] = "create" /\ \A u \in Threads \ {main} : pc'[u] = pc[u]
      /\ IncrTypes' /\ IncrCounts'
  BY <1>1, <1>4, IncrGoes DEF Incr1Inv, IncrInv, IncrTypes
<1>6. IncrPlaces'
  BY <1>1, <1>2, <1>5 DEF Incr1Inv, IInv, TypeOK, IncrInv, IncrPlaces
<1> QED
  BY <1>2, <1>3, <1>5, <1>6 DEF Incr1Inv, IncrInv

LEMMA LockCounterStep ==
  ASSUME Incr1Inv, NEW t \in Threads, Incr!LockCounter(t)
  PROVE  Incr1Inv'
<1>1. /\ pc[t] = "loop" /\ pc' = [pc EXCEPT ![t] = "load"] /\ Call(t, "wrlock")
      /\ UNCHANGED <<i, reg, counter>>
  BY SameInIncr DEF Incr!LockCounter, Incr!Goto
<1>2. /\ at' = [at EXCEPT ![t] = "lock"] /\ call' = [call EXCEPT ![t] = "wrlock"]
      /\ held' = held /\ "wrlock" \in Ops /\ Granting'
  BY <1>1, CallEffect DEF Incr1Inv, IInv
<1>3. IInv'
  BY <1>1, <1>2, LockInvariant DEF Incr1Inv
<1>4. Stores' = Stores
  BY <1>1, StoresKept DEF Incr1Inv, IncrInv
<1>5. /\ pc'[t] = "load" /\ \A u \in Threads \ {t} : pc'[u] = pc[u]
      /\ IncrTypes' /\ IncrCounts'
  BY <1>1, <1>4, IncrGoes DEF Incr1Inv, IncrInv, IncrTypes
<1>6. IncrPlaces'
  BY <1>1, <1>2, <1>5 DEF Incr1Inv, IInv, TypeOK, IncrInv, IncrPlaces
<1> QED
  BY <1>2, <1>3, <1>5, <1>6 DEF Incr1Inv, IncrInv

LEMMA MainUnlockStep ==
  ASSUME Incr1Inv, Incr!MainUnlock
  PROVE  Incr1Inv'
<1>1. /\ pc[main] = "create" /\ pc' = [pc EXCEPT ![main] = "join"] /\ Call(main, "unlock")
      /\ UNCHANGED <<i, reg, counter>> /\ main \in Threads
  BY SameInIncr, ProgramConstants DEF Incr!MainUnlock, Incr!Goto
<1>2. /\ at' = [at EXCEPT ![main] = "lock"] /\ call' = [call EXCEPT ![main] = "unlock"]
      /\ held' = held /\ "unlock" \in Ops /\ Granting'
  BY <1>1, CallEffect DEF Incr1Inv, IInv
<1>3. IInv'
  BY <1>1, <1>2, LockInvariant DEF Incr1Inv
<1>4. Stores' = Stores
  BY <1>1, StoresKept DEF Incr1Inv, IncrInv
<1>5. /\ pc'[main] = "join" /\ \A u \in Threads \ {main} : pc'[u] = pc[u]
      /\ IncrTypes' /\ IncrCounts'
  BY <1>1, <1>4, IncrGoes DEF Incr1Inv, IncrInv, IncrTypes
<1>6. IncrPlaces'
  BY <1>1, <1>2, <1>5 DEF Incr1Inv, IInv, TypeOK, IncrInv, IncrPlaces
<1> QED
  BY <1>2, <1>3, <1>5, <1>6 DEF Incr1Inv, IncrInv

LEMMA UnlockCounterStep ==
  ASSUME Incr1Inv, NEW t \in Threads, Incr!UnlockCounter(t)
  PROVE  Incr1Inv'
<1>1. /\ pc[t] = "unlock" /\ pc' = [pc EXCEPT ![t] = "loop"] /\ Call(t, "unlock")
      /\ i' = [i EXCEPT ![t] = i[t] + 1] /\ UNCHANGED <<reg, counter>>
  BY SameInIncr DEF Incr!UnlockCounter, Incr!Goto
<1>2. /\ at' = [at EXCEPT ![t] = "lock"] /\ call' = [call EXCEPT ![t] = "unlock"]
      /\ held' = held /\ "unlock" \in Ops /\ Granting'
  BY <1>1, CallEffect DEF Incr1Inv, IInv
<1>3. IInv'
  BY <1>1, <1>2, LockInvariant DEF Incr1Inv
<1>4. Stores' = Stores
  BY <1>1, StoresKept DEF Incr1Inv, IncrInv
<1>5. i' \in [Threads -> Nat]
  BY <1>1 DEF Incr1Inv, IncrInv, IncrTypes
<1>6. /\ pc'[t] = "loop" /\ \A u \in Threads \ {t} : pc'[u] = pc[u]
      /\ IncrTypes' /\ IncrCounts'
  BY <1>1, <1>4, <1>5, IncrGoes DEF Incr1Inv, IncrInv, IncrTypes
<1>7. IncrPlaces'
  BY <1>1, <1>2, <1>6 DEF Incr1Inv, IInv, TypeOK, IncrInv, IncrPlaces
<1> QED
  BY <1>2, <1>3, <1>6, <1>7 DEF Incr1Inv, IncrInv

\* The steps outside the lock that store nothing.
LEMMA IncrQuietStep ==
  ASSUME Incr1Inv, NEW t \in Threads,
         \/ t # main /\ (Incr!LoadCounter(t) \/ Incr!End(t))
         \/ t = main /\ Incr!MainJoin
         \/ t \in Incr!Incr /\ Incr!Create(t)
  PROVE  Incr1Inv'
<1>1. PICK to \in {"store", "end", "loop"} :
        /\ pc' = [pc EXCEPT ![t] = to] /\ at[t] = "idle"
        /\ \/ to = "store" /\ pc[t] = "load" /\ reg' = [reg EXCEPT ![t] = counter]
           \/ to = "end" /\ pc[t] \in {"loop", "join"} /\ reg' = reg
           \/ to = "loop" /\ pc[t] = "new" /\ reg' = reg
        /\ i' = i /\ counter' = counter
        /\ UNCHANGED vars
  <2>1. CASE Incr!LoadCounter(t)
    BY <2>1, SameInIncr DEF Incr!LoadCounter, Incr!Goto, Incr!vars, Incr!fields, Incr!threads,
       vars, fields, threads
  <2>2. CASE Incr!End(t)
    BY <2>2 DEF Incr!End, Incr!Goto, Incr!vars, Incr!fields, Incr!threads, vars, fields, threads
  <2>3. CASE t = main /\ Incr!MainJoin
    BY <2>3 DEF Incr!MainJoin, Incr!Goto, Incr!vars, Incr!fields, Incr!threads, vars, fields,
       threads
  <2>4. CASE t \in Incr!Incr /\ Incr!Create(t)
    <3>1. at[t] = "idle"
      BY <2>4 DEF Incr!Create, Incr1Inv, IncrInv, IncrPlaces
    <3> QED
      BY <2>4, <3>1 DEF Incr!Create, Incr!vars, Incr!fields, Incr!threads, vars, fields, threads
  <2> QED
    BY <2>1, <2>2, <2>3, <2>4
<1>2. IInv'
  BY <1>1, LockInvariant DEF Incr1Inv
<1>3. Granting' /\ at' = at /\ held' = held /\ call' = call
  BY <1>1 DEF vars, fields, threads, Incr1Inv, Granting
<1>4. Stores' = Stores
  BY <1>1, StoresKept DEF Incr1Inv, IncrInv
<1>5. /\ i' \in [Threads -> Nat] /\ reg' \in [Threads -> Nat]
      /\ \A u \in Threads \ {t} : reg'[u] = reg[u]
      /\ to = "store" => reg'[t] = counter
  BY <1>1 DEF Incr1Inv, IncrInv, IncrTypes
<1>6. /\ pc'[t] = to /\ \A u \in Threads \ {t} : pc'[u] = pc[u]
      /\ IncrTypes' /\ IncrCounts'
  BY <1>1, <1>4, <1>5, IncrGoes
<1>7. IncrPlaces'
  BY <1>1, <1>3, <1>6 DEF Incr1Inv, IncrInv, IncrPlaces
<1> QED
  BY <1>2, <1>3, <1>6, <1>7 DEF Incr1Inv, IncrInv

LEMMA StoreCounterStep ==
  ASSUME Incr1Inv, NEW t \in Incr!Incr, Incr!StoreCounter(t)
  PROVE  Incr1Inv'
<1>0. t \in Threads
  BY DEF Incr!Incr
<1>1. /\ pc[t] = "store" /\ pc' = [pc EXCEPT ![t] = "unlock"] /\ at[t] = "idle"
      /\ counter' = reg[t] + 1 /\ i' = i /\ reg' = reg /\ UNCHANGED vars
  BY DEF Incr!StoreCounter, Incr!Goto, Incr!vars, Incr!fields, Incr!threads, vars, fields, threads
<1>2. IInv'
  BY <1>0, <1>1, LockInvariant DEF Incr1Inv
<1>3. Granting' /\ at' = at /\ held' = held /\ call' = call
  BY <1>1 DEF vars, fields, threads, Incr1Inv, Granting
<1>4. pc'[t] = "unlock" /\ \A u \in Threads \ {t} : pc'[u] = pc[u] /\ pc[u] # "store"
  BY <1>0, <1>1, StoresAlone DEF Incr1Inv, IncrInv, IncrTypes
<1>5. Stores \in [Incr!Incr -> Nat]
  BY DEF Stores, Incr!Stores, Incr!Incr, Incr1Inv, IncrInv, IncrTypes
<1>6. /\ Stores' \in [Incr!Incr -> Nat] /\ Stores'[t] = Stores[t] + 1
      /\ \A u \in Incr!Incr \ {t} : Stores'[u] = Stores[u]
  BY <1>0, <1>1, <1>4, <1>5 DEF Stores, Incr!Stores, Incr!Incr, Incr1Inv, IncrInv, IncrTypes
<1>7. IsFiniteSet(Units(Stores')) /\ Total(Stores) \in Nat /\ Total(Stores') = Total(Stores) + 1
  <2>1. IsFiniteSet(Units(Stores))
    BY DEF Incr1Inv, IncrInv, IncrCounts
  <2>2. OneMore(Incr!Incr, Stores, t, Stores')
    BY <1>5, <1>6, <2>1 DEF OneMore
  <2> QED
    BY <2>2, TotalPlusOne
<1>8. IncrTypes'
  BY <1>0, <1>1 DEF Incr1Inv, IncrInv, IncrTypes
<1>9. counter' = Total(Stores')
  BY <1>0, <1>1, <1>7 DEF Incr1Inv, IncrInv, IncrCounts
<1>10. IncrCounts'
  BY <1>0, <1>4, <1>7, <1>9 DEF IncrCounts
<1>11. IncrPlaces'
  BY <1>0, <1>1, <1>3, <1>4 DEF Incr1Inv, IncrInv, IncrPlaces
<1> QED
  BY <1>2, <1>3, <1>8, <1>10, <1>11 DEF Incr1Inv, IncrInv

LEMMA IncrInLockStep ==
  ASSUME Incr1Inv, NEW t \in Threads, Incr!InLock(t)
  PROVE  Incr1Inv'
<1>1. Step(t) /\ UNCHANGED <<pc, i, reg, counter>>
  BY SameInIncr DEF Incr!InLock, Incr!client
<1>2. IInv' /\ Inside(t) /\ Granting'
  BY <1>1, LockInvariant, InsideStep DEF Incr1Inv
<1>3. IncrPlaces'
  BY <1>1, <1>2 DEF Incr1Inv, IncrInv, IncrPlaces, Inside, LockPlaces, Grants
<1>4. IncrTypes' /\ IncrCounts'
  BY <1>1 DEF Incr1Inv, IncrInv, IncrTypes, IncrCounts, Stores, Incr!Stores
<1> QED
  BY <1>2, <1>3, <1>4 DEF Incr1Inv, IncrInv

LEMMA IncrSteps ==
  ASSUME Incr1Inv, NEW t \in Threads, Incr!ThreadStep(t) \/ Incr!Wakeup(t)
  PROVE  Incr1Inv'
<1>1. CASE Incr!Wakeup(t)
  <2>1. SpuriousWakeup(t) /\ UNCHANGED <<pc, i, reg, counter>>
    BY <1>1, SameInIncr DEF Incr!Wakeup, Incr!client
  <2>2. IInv'
    BY <2>1, LockInvariant DEF Incr1Inv
  <2>3. Granting' /\ IncrInv'
    BY <2>1 DEF SpuriousWakeup, threads, Incr1Inv, Granting, IncrInv, IncrTypes, IncrPlaces,
       IncrCounts, Stores, Incr!Stores
  <2> QED
    BY <2>2, <2>3 DEF Incr1Inv
<1>2. CASE t = main /\ Incr!Main
  BY <1>2, MainLockStep, MainUnlockStep, IncrQuietStep DEF Incr!Main, Incr!Incr
<1>3. CASE t # main /\ Incr!Body(t)
  BY <1>3, LockCounterStep, UnlockCounterStep, StoreCounterStep, IncrQuietStep
  DEF Incr!Body, Incr!Incr
<1>4. CASE Incr!InLock(t)
  BY <1>4, IncrInLockStep
<1> QED
  BY <1>1, <1>2, <1>3, <1>4 DEF Incr!ThreadStep

LEMMA IncrInitially ==
  ASSUME Incr!IncrInit
  PROVE  Incr1Inv
<1>1. /\ Init /\ pc = [t \in Threads |-> IF t = main THEN "wrlock" ELSE "new"]
      /\ i = [t \in Threads |-> 0] /\ reg = [t \in Threads |-> 0] /\ counter = 0
  BY SameInIncr DEF Incr!IncrInit
<1>2. IInv /\ Granting
  BY <1>1, InitInvariant DEF Init, Granting, GrantPlaces, LockPlaces
<1>3. IncrTypes /\ IncrPlaces
  BY <1>1 DEF Init, IncrTypes, IncrPlaces
<1>4. Stores = [t \in Incr!Incr |-> 0]
  BY <1>1 DEF Stores, Incr!Stores, Incr!Incr
<1>5. IsFiniteSet(Units(Stores)) /\ Total(Stores) = 0
  BY <1>4, TotalOfNothing
<1>6. \A t \in Threads : pc[t] # "store"
  BY <1>1
<1>7. IncrCounts
  BY <1>1, <1>5, <1>6 DEF IncrCounts
<1> QED
  BY <1>2, <1>3, <1>7 DEF Incr1Inv, IncrInv
-----------------------------------------------------------------------------
(* testcancel *)

Cancel1Inv == CancelTypes /\ NotDead

\* Where thread t does not go on while the others do.
Stays(t) == /\ at'[t] = at[t] /\ held'[t] = held[t] /\ call'[t] = call[t]

LEMMA CancelThreads ==
  /\ {main, thread1, thread2} \subseteq Threads /\ Nobody \notin Threads
  /\ main # thread1 /\ main # thread2 /\ thread1 # thread2
BY ProgramConstants

\* init makes of a lock nobody uses one that keeps the invariant.
LEMMA InitialiseStep ==
  ASSUME IInv, NEW u \in Threads, \A t \in Threads : at[t] = "idle" /\ held[t] = "none",
         Initialise(u)
  PROVE  IInv' /\ Granting'
<1>1. /\ call' = [call EXCEPT ![u] = "init"] /\ result' = [result EXCEPT ![u] = OK]
      /\ rw_magic' = TRUE /\ gone' = FALSE /\ rw_mutex' = Nobody
      /\ rw_condreaders' = {} /\ rw_condwriters' = {}
      /\ rw_nwaitreaders' = 0 /\ rw_nwaitwriters' = 0 /\ rw_refcount' = 0
      /\ exited' = exited /\ at' = at /\ held' = held /\ still' = still
  BY DEF Initialise
<1>2. TypeOK'
  <2>1. call' \in [Threads -> Ops] /\ result' \in [Threads -> Int]
    BY <1>1 DEF IInv, TypeOK, Ops, OK
  <2> QED
    BY <1>1, <2>1 DEF IInv, TypeOK
<1>3. CallsMatch' /\ MutexHeld' /\ SleepersWait' /\ StayersSeen'
  BY <1>1 DEF CallsMatch, MutexHeld, SleepersWait, StayersSeen, Seen, LockPlaces, HoldPlaces,
              TearPlaces
<1>4. Readers' = {} /\ Writers' = {} /\ \A op : WaitingIn(op)' = {}
  BY <1>1 DEF Readers, Writers, WaitingIn, Owns
<1>5. RefcountTellsHolders' /\ CountersCountWaiters' /\ NoLostWakeup' /\ NeverExits'
  BY <1>1, <1>4, FS_EmptySet DEF IInv, RefcountTellsHolders, CountersCountWaiters, NoLostWakeup,
                               NeverExits
<1>6. Granting'
  BY <1>1 DEF Granting, GrantPlaces, LockPlaces
<1> QED
  BY <1>2, <1>3, <1>5, <1>6 DEF IInv

LEMMA CancelStartStep ==
  ASSUME Cancel1Inv, Cancel!Start
  PROVE  Cancel1Inv'
<1>1. /\ pc[main] = "init" /\ Initialise(main) /\ cancelled' = cancelled
      /\ pc' = [pc EXCEPT ![main] = "create", ![thread1] = "rdlock"]
  BY SameInCancel DEF Cancel!Start
<1>2. /\ pc'[main] = "create" /\ pc'[thread1] = "rdlock" /\ pc'[thread2] = pc[thread2]
  BY <1>1, CancelThreads DEF Cancel1Inv, CancelTypes
<1>3. pc[thread1] = "new" /\ pc[thread2] = "new"
  BY <1>1 DEF Cancel1Inv, CancelTypes
<1>4. /\ at' = at /\ held' = held /\ call' = [call EXCEPT ![main] = "init"]
      /\ \A t \in Threads : at[t] = "idle" /\ held[t] = "none"
  BY <1>1, <1>3 DEF Initialise, Cancel1Inv, NotDead, ThreadPlaces, MainPlaces, Thread1Places,
     Thread2Places, OthersIdle
<1>5. IInv' /\ Granting'
  BY <1>1, <1>4, InitialiseStep, CancelThreads DEF Cancel1Inv, NotDead
<1>6. call'[thread2] = call[thread2]
  BY <1>4, CancelThreads DEF Cancel1Inv, NotDead, IInv, TypeOK
<1>7. CancelTypes'
  BY <1>1, <1>2, <1>3 DEF Cancel1Inv, CancelTypes
<1>8. ThreadPlaces'
  BY <1>2, <1>3, <1>4, <1>6, CancelThreads DEF Cancel1Inv, NotDead, ThreadPlaces, MainPlaces,
     Thread1Places, Thread2Places, OthersIdle
<1>9. Joined' /\ Destroyed'
  BY <1>2, <1>4, <1>5, CancelThreads DEF Joined, Destroyed
<1> QED
  BY <1>5, <1>7, <1>8, <1>9 DEF Cancel1Inv, NotDead

\* While thread1 or thread2 still have something to do, main has not come to
\* destroy, and the lock grants what it is asked for.
LEMMA BeforeDestroy ==
  ASSUME Cancel1Inv, pc[thread1] # "end" \/ pc[thread2] \notin {"end", "cancelled"}
  PROVE  Granting /\ at[main] = "idle" /\ pc[main] \notin {"destroy", "return", "end"}
BY DEF Cancel1Inv, NotDead, Joined, ThreadPlaces, MainPlaces

LEMMA CancelCallStep ==
  ASSUME Cancel1Inv,
         \/ Cancel!Thread1Lock \/ Cancel!Thread1Unlock
         \/ Cancel!Thread2Lock \/ Cancel!Thread2Unlock
  PROVE  Cancel1Inv'
<1>1. PICK t \in {thread1, thread2}, op \in {"rdlock", "wrlock", "unlock"},
           to \in {"cancel", "unlock", "return"} :
        /\ \/ t = thread1 /\ op = "rdlock" /\ pc[t] = "rdlock" /\ to = "cancel"
           \/ t = thread1 /\ op = "unlock" /\ pc[t] = "unlock" /\ to = "return"
           \/ t = thread2 /\ op = "wrlock" /\ pc[t] = "wrlock" /\ to = "unlock"
           \/ t = thread2 /\ op = "unlock" /\ pc[t] = "unlock" /\ to = "return"
        /\ Call(t, op) /\ pc' = [pc EXCEPT ![t] = to] /\ cancelled' = cancelled
  BY SameInCancel
  DEF Cancel!Thread1Lock, Cancel!Thread1Unlock, Cancel!Thread2Lock, Cancel!Thread2Unlock,
      Cancel!Goto
<1>2. t \in Threads /\ t # main
  BY CancelThreads
<1>3. Granting /\ at[main] = "idle" /\ pc[main] \notin {"destroy", "return", "end"}
  BY <1>1, BeforeDestroy
<1>4. /\ at' = [at EXCEPT ![t] = "lock"] /\ call' = [call EXCEPT ![t] = op]
      /\ held' = held /\ at[t] = "idle" /\ op \in Ops /\ Granting'
  BY <1>1, <1>2, <1>3, CallEffect DEF Cancel1Inv, NotDead, IInv
<1>5. IInv'
  BY <1>1, <1>2, <1>4, LockInvariant DEF Cancel1Inv, NotDead
<1>6. /\ at'[t] = "lock" /\ call'[t] = op /\ pc'[t] = to
      /\ \A u \in Threads \ {t} : at'[u] = at[u] /\ call'[u] = call[u] /\ pc'[u] = pc[u]
  BY <1>1, <1>2, <1>4 DEF Cancel1Inv, CancelTypes, NotDead, IInv, TypeOK
<1>7. CancelTypes'
  BY <1>1, <1>2, <1>6, CancelThreads DEF Cancel1Inv, CancelTypes
<1>8. MainPlaces' /\ OthersIdle'
  BY <1>1, <1>2, <1>4, <1>6, CancelThreads
  DEF Cancel1Inv, NotDead, ThreadPlaces, MainPlaces, OthersIdle
<1>9. Thread1Places'
  BY <1>1, <1>2, <1>4, <1>6, CancelThreads
  DEF Cancel1Inv, NotDead, ThreadPlaces, Thread1Places, LockPlaces
<1>10. Thread2Places'
  BY <1>1, <1>2, <1>4, <1>6, CancelThreads
  DEF Cancel1Inv, NotDead, ThreadPlaces, Thread2Places, LockPlaces
<1>11. Joined' /\ Destroyed'
  BY <1>1, <1>2, <1>3, <1>4, <1>6, CancelThreads
  DEF Cancel1Inv, NotDead, Joined, Destroyed
<1> QED
  BY <1>5, <1>7, <1>8, <1>9, <1>10, <1>11 DEF Cancel1Inv, NotDead, ThreadPlaces

LEMMA CancelQuietStep ==
  ASSUME Cancel1Inv,
         \/ Cancel!Create \/ Cancel!Join2 \/ Cancel!Join1 \/ Cancel!Cancel
         \/ Cancel!End(main) \/ Cancel!End(thread1) \/ Cancel!End(thread2)
  PROVE  Cancel1Inv'
<1>1. UNCHANGED vars
  BY DEF Cancel!Create, Cancel!Join2, Cancel!Join1, Cancel!Cancel, Cancel!End, Cancel!vars, Cancel!fields,
         Cancel!threads, vars, fields, threads
<1>2. IInv'
  BY <1>1, LockInvariant, CancelThreads DEF Cancel1Inv, NotDead
<1>3. UNCHANGED <<at, call, held, result, rw_magic, rw_refcount>> /\ (Granting => Granting')
  BY <1>1 DEF vars, fields, threads, Granting
<1>4. DOMAIN pc = Threads
  BY DEF Cancel1Inv, CancelTypes
<1> USE CancelThreads
<1>5. /\ \/ /\ pc[main] = "create" /\ pc'[main] = "join2"
            /\ pc[thread2] = "new" /\ pc'[thread2] = "wrlock"
            /\ pc'[thread1] = pc[thread1] /\ cancelled' = cancelled
         \/ /\ pc[main] = "join2" /\ pc'[main] = "join1" /\ pc[thread2] \in {"end", "cancelled"}
            /\ pc'[thread1] = pc[thread1] /\ pc'[thread2] = pc[thread2] /\ cancelled' = cancelled
         \/ /\ pc[main] = "join1" /\ pc'[main] = "destroy" /\ pc[thread1] = "end"
            /\ pc'[thread1] = pc[thread1] /\ pc'[thread2] = pc[thread2] /\ cancelled' = cancelled
         \/ /\ pc[main] = "return" /\ pc'[main] = "end" /\ at[main] = "idle"
            /\ pc'[thread1] = pc[thread1] /\ pc'[thread2] = pc[thread2] /\ cancelled' = cancelled
         \/ /\ pc[thread1] = "cancel" /\ pc'[thread1] = "unlock" /\ at[thread1] = "idle"
            /\ pc'[main] = pc[main] /\ pc'[thread2] = pc[thread2] /\ ~cancelled
         \/ /\ pc[thread1] = "return" /\ pc'[thread1] = "end" /\ at[thread1] = "idle"
            /\ pc'[main] = pc[main] /\ pc'[thread2] = pc[thread2] /\ cancelled' = cancelled
         \/ /\ pc[thread2] = "return" /\ pc'[thread2] = "end" /\ at[thread2] = "idle"
            /\ pc'[main] = pc[main] /\ pc'[thread1] = pc[thread1] /\ cancelled' = cancelled
      /\ pc' \in [Threads -> {"init", "create", "join2", "join1", "destroy", "return", "end",
                              "new", "rdlock", "cancel", "unlock", "wrlock", "cancelled"}]
  <2>1. CASE Cancel!Create
    BY <1>4, <2>1 DEF Cancel!Create, Cancel1Inv, CancelTypes
  <2>2. CASE Cancel!Join2 \/ Cancel!Join1
    BY <1>4, <2>2 DEF Cancel!Join2, Cancel!Join1, Cancel!Goto, Cancel!Ended, Cancel1Inv,
                      CancelTypes
  <2>3. CASE Cancel!Cancel
    BY <1>4, <2>3 DEF Cancel!Cancel, Cancel!Goto, Cancel1Inv, CancelTypes
  <2>4. CASE Cancel!End(main)
    BY <1>4, <2>4 DEF Cancel!End, Cancel!Goto, Cancel1Inv, CancelTypes
  <2>5. CASE Cancel!End(thread1)
    BY <1>4, <2>5 DEF Cancel!End, Cancel!Goto, Cancel1Inv, CancelTypes
  <2>6. CASE Cancel!End(thread2)
    BY <1>4, <2>6 DEF Cancel!End, Cancel!Goto, Cancel1Inv, CancelTypes
  <2> QED
    BY <2>1, <2>2, <2>3, <2>4, <2>5, <2>6
<1>6. CancelTypes'
  BY <1>5 DEF Cancel1Inv, CancelTypes
<1>7. MainPlaces' /\ Thread1Places' /\ Thread2Places' /\ OthersIdle'
  BY <1>3, <1>5
  DEF Cancel1Inv, NotDead, ThreadPlaces, MainPlaces, Thread1Places, Thread2Places, OthersIdle
<1>8. Joined' /\ Destroyed'
  BY <1>3, <1>5 DEF Cancel1Inv, CancelTypes, NotDead, Joined, Destroyed
<1> QED
  BY <1>2, <1>6, <1>7, <1>8 DEF Cancel1Inv, NotDead, ThreadPlaces

\* The counts that destroy finds: only thread2 can still hold the lock, dead.
LEMMA CountsAtDestroy ==
  ASSUME Cancel1Inv, pc[main] \in {"destroy", "return", "end"}
  PROVE  /\ rw_refcount # 0 <=> held[thread2] = "write"
         /\ rw_nwaitreaders = 0 /\ rw_nwaitwriters = 0
<1> USE CancelThreads
<1>1. /\ at[thread1] = "idle" /\ held[thread1] = "none" /\ at[thread2] \in {"idle", "dead"}
      /\ held[thread2] \in {"none", "write"}
  BY DEF Cancel1Inv, NotDead, Joined, ThreadPlaces, Thread1Places, Thread2Places
<1>2. \A u \in Threads : at[u] \notin LockPlaces
  BY <1>1 DEF Cancel1Inv, NotDead, ThreadPlaces, MainPlaces, OthersIdle, LockPlaces, DestroyPlaces,
     TearPlaces
<1>3. \A u \in Threads : Owns(u) = held[u] /\ (u # thread2 => held[u] = "none")
  BY <1>1, <1>2 DEF Owns, LockPlaces, Cancel1Inv, NotDead, ThreadPlaces, MainPlaces, OthersIdle
<1>4. WaitingIn("rdlock") = {} /\ WaitingIn("wrlock") = {}
  BY <1>2 DEF WaitingIn, LockPlaces
<1>5. Readers = {} /\ Writers = IF held[thread2] = "write" THEN {thread2} ELSE {}
  BY <1>1, <1>3 DEF Readers, Writers
<1>6. rw_refcount # 0 <=> held[thread2] = "write"
  BY <1>5, FS_EmptySet DEF Cancel1Inv, NotDead, IInv, RefcountTellsHolders
<1> QED
  BY <1>4, <1>6, FS_EmptySet DEF Cancel1Inv, NotDead, IInv, CountersCountWaiters

\* main enters destroy or goes on in it: it finds the lock busy exactly if
\* thread2 died with the write lock.
LEMMA CancelDestroyStep ==
  ASSUME Cancel1Inv, Cancel!DestroyLock \/ Cancel!InLock(main)
  PROVE  Cancel1Inv'
<1> USE CancelThreads
<1>1. /\ cancelled' = cancelled
      /\ \/ /\ pc[main] = "destroy" /\ pc' = [pc EXCEPT ![main] = "return"]
            /\ at[main] = "idle" /\ Destroy(main)
         \/ pc' = pc /\ Step(main)
  BY SameInCancel DEF Cancel!DestroyLock, Cancel!InLock, Cancel!Goto, Cancel!client
<1>2. Destroy(main) \/ DestroyStep(main)
  <2>1. at[main] \notin LockPlaces
    BY DEF Cancel1Inv, NotDead, ThreadPlaces, MainPlaces, LockPlaces, DestroyPlaces, TearPlaces
  <2>2. LockStep(main) => at[main] \in LockPlaces
    BY DEF LockStep, Acquire, LockFails, Return, Rdlock, RdlockWake, Wrlock, WrlockWake,
           Tryrdlock, Trywrlock, Unlock, EndWait, LockPlaces
  <2> QED
    BY <1>1, <2>1, <2>2 DEF Step
<1>3. Step(main) => at[main] # "idle"
  BY StepPlace DEF LockPlaces, DestroyPlaces, TearPlaces
<1>4. IInv' /\ Aside(main)
  BY <1>2, DestroySteps, DestroyMoves DEF Cancel1Inv, NotDead, IInv
<1>5. /\ pc'[main] = "return" /\ pc[main] \in {"destroy", "return"}
      /\ pc'[thread1] = pc[thread1] /\ pc'[thread2] = pc[thread2]
      /\ pc[thread1] = "end" /\ pc[thread2] \in {"end", "cancelled"}
  <2>1. \/ pc[main] = "destroy" /\ pc' = [pc EXCEPT ![main] = "return"]
        \/ pc' = pc /\ pc[main] = "return"
    BY <1>1, <1>3 DEF Cancel1Inv, NotDead, ThreadPlaces, MainPlaces
  <2> QED
    BY <1>1, <2>1 DEF Cancel1Inv, CancelTypes, NotDead, Joined
<1>6. CancelTypes'
  BY <1>1, <1>5 DEF Cancel1Inv, CancelTypes
<1>7. Stays(thread1) /\ Stays(thread2) /\ \A t \in Threads \ {main} : Stays(t)
  BY <1>4 DEF Aside, Stays
<1>8. Thread1Places' /\ Thread2Places' /\ OthersIdle'
  BY <1>5, <1>7 DEF Stays, Cancel1Inv, NotDead, ThreadPlaces, Thread1Places, Thread2Places, OthersIdle
<1>9. /\ rw_refcount # 0 <=> held[thread2] = "write"
      /\ rw_nwaitreaders = 0 /\ rw_nwaitwriters = 0
  BY <1>5, CountsAtDestroy
<1>10. at[main] = "idle" => rw_magic
  BY <1>1, <1>3 DEF Cancel1Inv, NotDead, Joined, Granting
<1>11. /\ at'[main] \in DestroyPlaces \cup {"idle"}
       /\ at'[main] # "idle" => rw_magic' /\ (at'[main] # "refcount" => rw_refcount' = 0)
       /\ at'[main] = "idle" => IF held[thread2] = "write" THEN result'[main] = EBUSY
                                                           ELSE result'[main] # EBUSY
  <2> USE DEF IInv, TypeOK, DestroyPlaces, TearPlaces
  <2>1. CASE Destroy(main)
    BY <1>1, <1>10, <2>1 DEF Destroy, fields, Cancel1Inv, NotDead
  <2>2. CASE TestBusy(main)
    BY <1>9, <2>2 DEF TestBusy, TestCount, fields, Cancel1Inv, NotDead, Destroyed
  <2>3. CASE DestroyMutex(main) \/ DestroyConds(main)
    BY <2>3 DEF DestroyMutex, DestroyConds, fields, Cancel1Inv, NotDead, Destroyed
  <2>4. CASE EndDestroy(main)
    BY <1>9, <2>4 DEF EndDestroy, Cancel1Inv, NotDead, Destroyed, EBUSY, OK
  <2> QED
    BY <1>2, <2>1, <2>2, <2>3, <2>4 DEF DestroyStep
<1>12. MainPlaces'
  BY <1>4, <1>5, <1>11 DEF Aside, Cancel1Inv, NotDead, ThreadPlaces, MainPlaces
<1>13. Joined' /\ Destroyed'
  BY <1>5, <1>7, <1>11 DEF Stays, Joined, Destroyed
<1> QED
  BY <1>4, <1>6, <1>8, <1>12, <1>13 DEF Cancel1Inv, NotDead, ThreadPlaces

LEMMA CancelInLockStep ==
  ASSUME Cancel1Inv, NEW t \in {thread1, thread2}, Cancel!InLock(t)
  PROVE  Cancel1Inv'
<1> USE CancelThreads
<1>1. Step(t) /\ pc' = pc /\ cancelled' = cancelled
  BY SameInCancel DEF Cancel!InLock, Cancel!client
<1>2. at[t] \in LockPlaces
  BY <1>1, StepPlace DEF Cancel1Inv, NotDead, ThreadPlaces, Thread1Places, Thread2Places, LockPlaces,
     DestroyPlaces, TearPlaces
<1>3. pc[thread1] # "end" \/ pc[thread2] \notin {"end", "cancelled"}
  BY <1>2 DEF Cancel1Inv, NotDead, ThreadPlaces, Thread1Places, Thread2Places, LockPlaces
<1>4. Granting /\ at[main] = "idle" /\ pc[main] \notin {"destroy", "return", "end"}
  BY <1>3, BeforeDestroy
<1>5. IInv' /\ Inside(t) /\ Granting'
  BY <1>1, <1>4, LockInvariant, InsideStep DEF Cancel1Inv, NotDead
<1>6. Thread1Places'
  BY <1>1, <1>5 DEF Cancel1Inv, NotDead, ThreadPlaces, Thread1Places, Inside, LockPlaces, Grants
<1>7. Thread2Places'
  BY <1>1, <1>5 DEF Cancel1Inv, NotDead, ThreadPlaces, Thread2Places, Inside, LockPlaces, Grants
<1>8. MainPlaces' /\ OthersIdle'
  BY <1>1, <1>5 DEF Cancel1Inv, NotDead, ThreadPlaces, MainPlaces, OthersIdle, Inside
<1>9. Joined' /\ Destroyed' /\ CancelTypes'
  BY <1>1, <1>4, <1>5 DEF Cancel1Inv, CancelTypes, NotDead, Joined, Destroyed, Inside
<1> QED
  BY <1>5, <1>6, <1>7, <1>8, <1>9 DEF Cancel1Inv, NotDead, ThreadPlaces

LEMMA CancelWakeupStep ==
  ASSUME Cancel1Inv, NEW t \in Threads, Cancel!Wakeup(t)
  PROVE  Cancel1Inv'
<1>1. SpuriousWakeup(t) /\ pc' = pc /\ cancelled' = cancelled
  BY SameInCancel DEF Cancel!Wakeup, Cancel!client
<1>2. IInv'
  BY <1>1, LockInvariant DEF Cancel1Inv, NotDead
<1>3. UNCHANGED <<at, call, held, result, rw_magic, gone, rw_refcount>>
  BY <1>1 DEF SpuriousWakeup, threads
<1> QED
  BY <1>1, <1>2, <1>3
  DEF Cancel1Inv, CancelTypes, NotDead, Granting, ThreadPlaces, MainPlaces, Thread1Places,
      Thread2Places, OthersIdle, Joined, Destroyed

\* thread2 dies outside the lock, with what it holds then.
LEMMA CancelOutsideStep ==
  ASSUME Cancel1Inv, Cancel!CancelOutside
  PROVE  Cancel1Inv'
<1> USE CancelThreads
<1>1. /\ cancelled /\ pc[thread2] \in {"wrlock", "unlock"} /\ at[thread2] = "idle"
      /\ at' = [at EXCEPT ![thread2] = "dead"] /\ pc' = [pc EXCEPT ![thread2] = "cancelled"]
      /\ UNCHANGED <<fields, rw_mutex, exited, call, result, held, still>>
      /\ cancelled' = cancelled
  BY DEF Cancel!CancelOutside, Cancel!fields, fields
<1>2. at \in [Threads -> Places] /\ DOMAIN pc = Threads
  BY DEF Cancel1Inv, CancelTypes, NotDead, IInv, TypeOK
<1>3. /\ at'[thread2] = "dead" /\ pc'[thread2] = "cancelled"
      /\ \A u \in Threads \ {thread2} : at'[u] = at[u] /\ pc'[u] = pc[u]
  BY <1>1, <1>2
<1>4. IInv'
  <2>1. TypeOK'
    <3>1. at' \in [Threads -> Places]
      BY <1>1, <1>2 DEF Places
    <3> QED
      BY <1>1, <3>1 DEF Cancel1Inv, NotDead, IInv, TypeOK, fields
  <2>2. CallsMatch' /\ MutexHeld'
    BY <1>1, <1>3
    DEF Cancel1Inv, NotDead, IInv, CallsMatch, MutexHeld, LockPlaces, HoldPlaces
  <2>3. \A op : WaitingIn(op)' = WaitingIn(op)
    BY <1>1, <1>3 DEF WaitingIn
  <2>4. \A u \in Threads : Owns(u)' = Owns(u)
    BY <1>1, <1>3 DEF Owns, Grants
  <2>5. RefcountTellsHolders'
    BY <1>1, <2>4, KeepHolders DEF Cancel1Inv, NotDead, IInv, fields
  <2>6. WaitingWriters' = WaitingWriters
    BY <1>1, <1>3 DEF WaitingWriters
  <2>7. SleepersWait' /\ CountersCountWaiters' /\ NoLostWakeup' /\ NeverExits'
    BY <1>1, <1>3, <2>3, <2>6 DEF Cancel1Inv, NotDead, IInv, SleepersWait,
       CountersCountWaiters, NoLostWakeup, NeverExits, fields
  <2>8. StayersSeen'
    <3> SUFFICES ASSUME NEW d \in Threads, NEW u \in still[d] PROVE Seen(d, u)'
      BY <1>1 DEF StayersSeen
    <3>1. Seen(d, u) /\ u \in Threads
      BY DEF Cancel1Inv, NotDead, IInv, StayersSeen, TypeOK
    <3> QED
      BY <1>3, <2>3, <2>4, <3>1 DEF Seen, TearPlaces
  <2> QED
    BY <2>1, <2>2, <2>5, <2>7, <2>8 DEF IInv
<1>5. Granting /\ at[main] = "idle" /\ pc[main] \notin {"destroy", "return", "end"}
  BY <1>1, BeforeDestroy
<1>6. CancelTypes'
  BY <1>1, <1>2, <1>3 DEF Cancel1Inv, CancelTypes
<1>7. ThreadPlaces'
  BY <1>1, <1>3 DEF Cancel1Inv, NotDead, ThreadPlaces, MainPlaces, Thread1Places, Thread2Places,
                    OthersIdle
<1>8. Granting'
  BY <1>1, <1>3, <1>5 DEF Granting, GrantPlaces, LockPlaces, fields
<1>9. Joined' /\ Destroyed'
  BY <1>1, <1>3, <1>5, <1>8 DEF Cancel1Inv, NotDead, Joined, Destroyed
<1> QED
  BY <1>4, <1>6, <1>7, <1>9 DEF Cancel1Inv, NotDead

\* Only one of the others can be in the way of a thread2 that dies in wrlock:
\* thread1, which has the lock and is about to unlock it, or has called unlock
\* and must lock the mutex first.  If thread1 has unlocked, it is out of there.
LEMMA DiesInWait ==
  ASSUME Cancel1Inv, Cancel!CancelInWait
  PROVE  CancelTypes' /\ DeadInWrlock'
<1> USE CancelThreads
<1>1. /\ cancelled /\ at[thread2] = "wait" /\ rw_mutex = Nobody
      /\ rw_condwriters' = rw_condwriters \ {thread2} /\ rw_mutex' = thread2
      /\ at' = [at EXCEPT ![thread2] = "dead"] /\ pc' = [pc EXCEPT ![thread2] = "cancelled"]
      /\ UNCHANGED <<rw_magic, gone, rw_condreaders, rw_nwaitreaders, rw_nwaitwriters,
                     rw_refcount, exited, call, result, held, still, cancelled>>
  BY DEF Cancel!CancelInWait, Cancel!CancelMutex
<1>2. at \in [Threads -> Places] /\ DOMAIN pc = Threads
  BY DEF Cancel1Inv, CancelTypes, NotDead, IInv, TypeOK
<1>3. pc[thread2] = "unlock" /\ call[thread2] = "wrlock" /\ held[thread2] = "none"
  BY <1>1 DEF Cancel1Inv, CancelTypes, NotDead, ThreadPlaces, Thread2Places, IInv, CallsMatch,
     LockPlaces
<1>4. Granting /\ at[main] = "idle" /\ pc[main] = "join2"
  BY <1>3, BeforeDestroy DEF Cancel1Inv, CancelTypes, NotDead, Joined
<1>5. pc[thread1] \in {"unlock", "return", "end"}
  BY <1>1 DEF Cancel1Inv, CancelTypes
<1>6. at[thread1] \in {"idle", "lock"} /\ (at[thread1] = "lock" => pc[thread1] = "return")
  <2>1. at[thread1] \notin HoldPlaces
    BY <1>1 DEF Cancel1Inv, NotDead, IInv, MutexHeld
  <2>2. at[thread1] # "wait"
    BY <1>5 DEF Cancel1Inv, NotDead, ThreadPlaces, Thread1Places, IInv, CallsMatch
  <2>3. at[thread1] \in LockPlaces \cup {"idle"}
    BY DEF Cancel1Inv, NotDead, ThreadPlaces, Thread1Places
  <2> QED
    BY <1>5, <2>1, <2>2, <2>3
    DEF Cancel1Inv, NotDead, ThreadPlaces, Thread1Places, LockPlaces, HoldPlaces
<1>7. \A u \in Threads \ {thread2} : /\ at[u] \notin {"wait", "unlock"}
                                     /\ u # thread1 => held[u] = "none"
  BY <1>4, <1>6 DEF Cancel1Inv, NotDead, ThreadPlaces, MainPlaces, OthersIdle
<1>8. \A u \in Threads : Owns(u) = held[u]
  BY <1>1, <1>7 DEF Owns
<1>9. rw_refcount # 0 <=> held[thread1] # "none"
  <2>1. rw_refcount = 0 => \A u \in Threads : Owns(u) = "none"
    BY HolderFacts DEF Cancel1Inv, NotDead, IInv
  <2>2. (\A u \in Threads : Owns(u) = "none") => Readers = {} /\ Writers = {}
    BY DEF Readers, Writers
  <2>3. (\A u \in Threads : Owns(u) = "none") => rw_refcount = 0
    BY <2>2, FS_EmptySet DEF Cancel1Inv, NotDead, IInv, RefcountTellsHolders
  <2> QED
    BY <1>3, <1>7, <1>8, <2>1, <2>3
<1>10. /\ pc'[thread2] = "cancelled" /\ at'[thread2] = "dead"
       /\ \A t \in Threads \ {thread2} : at'[t] = at[t] /\ pc'[t] = pc[t]
  BY <1>1, <1>2
<1>11. CancelTypes'
  BY <1>1, <1>2, <1>4, <1>10 DEF Cancel1Inv, CancelTypes
<1>12. TypeOK'
  <2>1. at' \in [Threads -> Places]
    BY <1>1, <1>2 DEF Places
  <2> QED
    BY <1>1, <2>1 DEF Cancel1Inv, NotDead, IInv, TypeOK
<1>13. rw_condreaders' = {} /\ rw_condwriters' = {}
  <2>1. rw_condreaders \subseteq {} /\ rw_condwriters \subseteq {thread2}
    BY <1>3, <1>7 DEF Cancel1Inv, NotDead, IInv, SleepersWait
  <2> QED
    BY <1>1, <2>1
<1>14. rw_nwaitwriters # 0
  <2>1. WaitingIn("wrlock") # {}
    BY <1>1, <1>3 DEF WaitingIn
  <2> QED
    BY <2>1, ThreadSets, Subsets DEF Cancel1Inv, NotDead, IInv, CountersCountWaiters
<1>15. Dead'
  BY <1>1, <1>3, <1>4, <1>10, <1>12, <1>13, <1>14 DEF Dead, Granting
<1>16. CASE rw_refcount # 0
  <2>1. \/ pc[thread1] = "unlock" /\ at[thread1] = "idle"
        \/ pc[thread1] = "return" /\ at[thread1] = "lock"
    BY <1>5, <1>6, <1>9, <1>16 DEF Cancel1Inv, NotDead, ThreadPlaces, Thread1Places
  <2>2. Stuck'
    BY <1>1, <1>4, <1>10, <1>16, <2>1 DEF Stuck
  <2> QED
    BY <1>11, <1>15, <2>2 DEF DeadInWrlock
<1>17. CASE rw_refcount = 0
  <2>1. held[thread1] = "none"
    BY <1>9, <1>17
  <2>2. pc[thread1] # "unlock"
    BY <2>1 DEF Cancel1Inv, NotDead, ThreadPlaces, Thread1Places
  <2>3. at[thread1] = "idle"
    BY <1>6, <2>1 DEF Cancel1Inv, NotDead, ThreadPlaces, Thread1Places, IInv, CallsMatch, LockPlaces
  <2>4. Signalled'
    BY <1>1, <1>4, <1>5, <1>10, <1>17, <2>1, <2>2, <2>3 DEF Signalled
  <2> QED
    BY <1>11, <1>15, <2>4 DEF DeadInWrlock
<1> QED
  BY <1>16, <1>17

\* From then on no step of thread1 or thread2 in the lock is possible.
LEMMA DeadLockStill ==
  ASSUME CancelTypes, DeadInWrlock, NEW t \in {thread1, thread2}
  PROVE  ~Step(t)
<1> USE CancelThreads
<1>1. at[t] \in {"idle", "lock", "dead"} /\ rw_mutex # Nobody /\ ~gone
  BY DEF DeadInWrlock, Dead, Stuck, Signalled
<1>2. Step(t) => at[t] = "lock" /\ LockStep(t)
  BY <1>1, StepPlace DEF LockPlaces, DestroyPlaces, TearPlaces
<1>3. at[t] = "lock" => ~LockStep(t)
  BY <1>1 DEF LockStep, Acquire, LockFails, Return, Rdlock, RdlockWake, Wrlock, WrlockWake,
              Tryrdlock, Trywrlock, Unlock, EndWait
<1> QED
  BY <1>2, <1>3

\* thread1 can call unlock, where it stays.
LEMMA StuckStep ==
  ASSUME CancelTypes, Dead, Stuck, Cancel!Thread1Unlock
  PROVE  CancelTypes' /\ DeadInWrlock'
<1> USE CancelThreads
<1>1. /\ pc[thread1] = "unlock" /\ pc' = [pc EXCEPT ![thread1] = "return"]
      /\ cancelled' = cancelled /\ Call(thread1, "unlock")
  BY SameInCancel DEF Cancel!Thread1Unlock, Cancel!Goto
<1>2. /\ at' = [at EXCEPT ![thread1] = "lock"] /\ call' = [call EXCEPT ![thread1] = "unlock"]
      /\ still' = [d \in Threads |-> still[d] \ {thread1}]
      /\ UNCHANGED <<fields, rw_mutex, exited, held, result>>
  BY <1>1 DEF Call, Enter, Moves, Dead
<1>3. /\ pc'[thread1] = "return" /\ pc'[main] = pc[main] /\ pc'[thread2] = pc[thread2]
      /\ at'[thread1] = "lock" /\ at'[thread2] = at[thread2] /\ at'[main] = at[main]
      /\ call'[thread2] = call[thread2]
  BY <1>1, <1>2 DEF CancelTypes, Dead, TypeOK
<1>4. CancelTypes'
  BY <1>1, <1>3 DEF CancelTypes
<1>5. TypeOK'
  <2>1. at' \in [Threads -> Places] /\ call' \in [Threads -> Ops]
    BY <1>2, PlaceNames DEF Dead, TypeOK, Ops
  <2>2. still' \in [Threads -> SUBSET Threads]
    BY <1>2 DEF Dead, TypeOK
  <2> QED
    BY <1>2, <2>1, <2>2 DEF Dead, TypeOK, fields
<1>6. Dead' /\ Stuck'
  BY <1>2, <1>3, <1>5 DEF Dead, Stuck, fields
<1> QED
  BY <1>4, <1>6 DEF DeadInWrlock

\* main finds, in destroy, the waiting writer that thread2 has left.
LEMMA SignalledStep ==
  ASSUME CancelTypes, Dead, Signalled, Cancel!DestroyLock \/ Cancel!InLock(main)
  PROVE  CancelTypes' /\ DeadInWrlock'
<1> USE CancelThreads
<1>1. /\ cancelled' = cancelled
      /\ \/ /\ pc[main] = "destroy" /\ pc' = [pc EXCEPT ![main] = "return"]
            /\ at[main] = "idle" /\ Destroy(main)
         \/ pc' = pc /\ Step(main)
  BY SameInCancel DEF Cancel!DestroyLock, Cancel!InLock, Cancel!Goto, Cancel!client
<1>2. \/ Destroy(main) /\ pc[main] = "destroy" /\ pc' = [pc EXCEPT ![main] = "return"]
      \/ TestBusy(main) /\ pc' = pc /\ pc[main] = "return"
  <2>1. CASE Step(main) /\ pc' = pc
    <3>1. at[main] \in {"refcount", "readers", "writers"}
      BY <2>1, StepPlace DEF Signalled, LockPlaces, DestroyPlaces, TearPlaces
    <3>2. DestroyStep(main)
      BY <2>1, <3>1 DEF Step, LockStep, Acquire, LockFails, Return, Rdlock, RdlockWake, Wrlock,
         WrlockWake, Tryrdlock, Trywrlock, Unlock, EndWait
    <3> QED
      BY <2>1, <3>1, <3>2 DEF Signalled, DestroyStep, DestroyMutex, DestroyConds, EndDestroy
  <2> QED
    BY <1>1, <2>1
<1>3. TypeOK' /\ Aside(main)
  BY <1>2, DestroyMoves DEF Dead, DestroyStep
<1>4. /\ pc'[main] = "return" /\ pc'[thread1] = pc[thread1] /\ pc'[thread2] = pc[thread2]
      /\ pc' \in [Threads -> {"init", "create", "join2", "join1", "destroy", "return", "end",
                              "new", "rdlock", "cancel", "unlock", "wrlock", "cancelled"}]
  BY <1>2 DEF CancelTypes
<1>5. CancelTypes'
  BY <1>1, <1>2, <1>4 DEF CancelTypes
<1>6. /\ rw_magic' = rw_magic /\ gone' = gone
      /\ at'[main] \in {"idle", "refcount", "readers", "writers"}
      /\ at'[main] = "idle" => result'[main] = EBUSY
  BY <1>2 DEF Destroy, TestBusy, TestCount, fields, Dead, Signalled, TypeOK
<1>7. Dead'
  BY <1>3, <1>4, <1>6 DEF Dead, Aside
<1>8. Signalled'
  BY <1>3, <1>4, <1>6 DEF Signalled, Aside
<1> QED
  BY <1>5, <1>7, <1>8 DEF DeadInWrlock

\* The steps outside the lock that are left: joins, and the ends of functions.
LEMMA DeadQuietStep ==
  ASSUME CancelTypes, DeadInWrlock,
         Cancel!Join2 \/ Cancel!Join1 \/ Cancel!End(main) \/ Cancel!End(thread1)
  PROVE  CancelTypes' /\ DeadInWrlock'
<1> USE CancelThreads
<1>1. UNCHANGED vars /\ cancelled' = cancelled
  BY DEF Cancel!Join2, Cancel!Join1, Cancel!End, Cancel!vars, Cancel!fields,
         Cancel!threads, vars, fields, threads
<1>2. /\ \/ /\ pc[main] = "join2" /\ pc'[main] = "join1" /\ pc'[thread1] = pc[thread1]
         \/ /\ pc[main] = "join1" /\ pc'[main] = "destroy" /\ pc[thread1] = "end"
            /\ pc'[thread1] = pc[thread1]
         \/ /\ pc[main] = "return" /\ pc'[main] = "end" /\ at[main] = "idle"
            /\ pc'[thread1] = pc[thread1]
         \/ /\ pc[thread1] = "return" /\ pc'[thread1] = "end" /\ at[thread1] = "idle"
            /\ pc'[main] = pc[main]
      /\ pc'[thread2] = pc[thread2]
      /\ pc' \in [Threads -> {"init", "create", "join2", "join1", "destroy", "return", "end",
                              "new", "rdlock", "cancel", "unlock", "wrlock", "cancelled"}]
  <2>1. CASE Cancel!Join2 \/ Cancel!Join1
    BY <2>1 DEF Cancel!Join2, Cancel!Join1, Cancel!Goto, Cancel!Ended, CancelTypes, DeadInWrlock,
       Stuck, Signalled
  <2>2. CASE Cancel!End(main)
    BY <2>2 DEF Cancel!End, Cancel!Goto, CancelTypes
  <2>3. CASE Cancel!End(thread1)
    BY <2>3 DEF Cancel!End, Cancel!Goto, CancelTypes
  <2> QED
    BY <2>1, <2>2, <2>3
<1>3. CancelTypes'
  BY <1>1, <1>2 DEF CancelTypes
<1>4. Dead'
  BY <1>1, <1>2 DEF DeadInWrlock, Dead, TypeOK, vars, fields, threads
<1>5. UNCHANGED <<at, held, result, rw_refcount>>
  BY <1>1 DEF vars, fields, threads
<1>6. Stuck' \/ Signalled'
  BY <1>2, <1>5 DEF DeadInWrlock, Stuck, Signalled
<1> QED
  BY <1>3, <1>4, <1>6 DEF DeadInWrlock

LEMMA DeadStaysDead ==
  ASSUME CancelTypes, DeadInWrlock, NEW t \in Threads, Cancel!ThreadStep(t) \/ Cancel!Wakeup(t)
  PROVE  CancelTypes' /\ DeadInWrlock'
<1> USE CancelThreads
<1>1. ~Cancel!Wakeup(t) /\ ~Cancel!CancelInWait /\ ~Cancel!CancelOutside
  BY SameInCancel
  DEF Cancel!Wakeup, SpuriousWakeup, Cancel!CancelInWait, Cancel!CancelOutside, DeadInWrlock,
      Dead
<1>2. \A u \in {thread1, thread2} : ~Cancel!InLock(u)
  BY DeadLockStill, SameInCancel DEF Cancel!InLock
<1>3. /\ ~Cancel!Start /\ ~Cancel!Create /\ ~Cancel!Thread1Lock /\ ~Cancel!Cancel
      /\ ~Cancel!CancelCrash /\ ~Cancel!Thread2Lock /\ ~Cancel!Thread2Unlock
      /\ ~Cancel!End(thread2)
  BY DEF Cancel!Start, Cancel!Create, Cancel!Thread1Lock, Cancel!Cancel, Cancel!CancelCrash,
     Cancel!Thread2Lock, Cancel!Thread2Unlock, Cancel!End, Cancel!Goto, CancelTypes,
     DeadInWrlock, Dead, Stuck, Signalled
<1>4. CASE Cancel!Thread1Unlock
  BY <1>4, StuckStep DEF DeadInWrlock, Signalled, Cancel!Thread1Unlock, Cancel!Goto
<1>5. CASE Cancel!DestroyLock \/ Cancel!InLock(main)
  <2>1. ~Stuck
    <3>1. Stuck => pc[main] # "destroy" /\ at[main] = "idle"
      BY DEF Stuck
    <3>2. Cancel!InLock(main) => at[main] # "idle"
      BY StepPlace, SameInCancel DEF Cancel!InLock, LockPlaces, DestroyPlaces, TearPlaces
    <3> QED
      BY <1>5, <3>1, <3>2 DEF Cancel!DestroyLock, Cancel!Goto
  <2> QED
    BY <1>5, <2>1, SignalledStep DEF DeadInWrlock
<1>6. CASE Cancel!Join2 \/ Cancel!Join1 \/ Cancel!End(main) \/ Cancel!End(thread1)
  BY <1>6, DeadQuietStep
<1> QED
  BY <1>1, <1>2, <1>3, <1>4, <1>5, <1>6 DEF Cancel!ThreadStep

\* thread1 cancels a thread that is not there.
LEMMA CrashStep ==
  ASSUME Cancel1Inv, Cancel!CancelCrash
  PROVE  Crashed'
<1> USE CancelThreads
<1>1. /\ pc[thread1] = "cancel" /\ at[thread1] = "idle"
      /\ pc[thread2] \in {"new", "end", "cancelled"}
      /\ pc' = [t \in Threads |-> "crashed"] /\ UNCHANGED vars
  BY DEF Cancel!CancelCrash, Cancel!NoThread2, Cancel!Ended, Cancel!vars, Cancel!fields,
         Cancel!threads, vars, fields, threads
<1>2. at[thread2] = "idle" /\ at[main] = "idle"
  BY <1>1, BeforeDestroy DEF Cancel1Inv, CancelTypes, NotDead, ThreadPlaces, Thread2Places
<1>3. \A t \in Threads : at[t] = "idle"
  BY <1>1, <1>2 DEF Cancel1Inv, NotDead, ThreadPlaces, OthersIdle
<1>4. rw_condreaders = {} /\ rw_condwriters = {}
  BY <1>3 DEF Cancel1Inv, NotDead, IInv, SleepersWait
<1> QED
  BY <1>1, <1>3, <1>4 DEF Crashed, vars, fields, threads

LEMMA CrashedForGood ==
  ASSUME Crashed, NEW t \in Threads
  PROVE  ~Cancel!ThreadStep(t) /\ ~Cancel!Wakeup(t)
<1> USE CancelThreads
<1>1. ~Cancel!Wakeup(t)
  BY SameInCancel DEF Cancel!Wakeup, SpuriousWakeup, Crashed
<1>2. ~Cancel!InLock(t)
  BY StepPlace, SameInCancel DEF Cancel!InLock, LockPlaces, DestroyPlaces, TearPlaces, Crashed
<1> QED
  BY <1>1, <1>2
  DEF Cancel!ThreadStep, Cancel!Start, Cancel!Create, Cancel!Join2, Cancel!Join1,
      Cancel!DestroyLock, Cancel!End, Cancel!Thread1Lock, Cancel!Cancel, Cancel!CancelCrash,
      Cancel!Thread1Unlock, Cancel!Thread2Lock, Cancel!Thread2Unlock, Cancel!CancelInWait,
      Cancel!CancelOutside, Cancel!Goto, Crashed

LEMMA CancelSteps ==
  ASSUME CancelInv, NEW t \in Threads, Cancel!ThreadStep(t) \/ Cancel!Wakeup(t)
  PROVE  CancelInv'
<1>1. CASE Crashed
  BY <1>1, CrashedForGood
<1>2. CASE CancelTypes /\ DeadInWrlock
  BY <1>2, DeadStaysDead DEF CancelInv
<1>3. CASE Cancel1Inv
  <2>1. CASE Cancel!CancelInWait
    BY <1>3, <2>1, DiesInWait DEF CancelInv
  <2>2. CASE Cancel!CancelCrash
    BY <1>3, <2>2, CrashStep DEF CancelInv
  <2>3. CASE \/ Cancel!Create \/ Cancel!Join2 \/ Cancel!Join1 \/ Cancel!Cancel
             \/ Cancel!End(main) \/ Cancel!End(thread1) \/ Cancel!End(thread2)
    BY <1>3, <2>3, CancelQuietStep DEF CancelInv, Cancel1Inv
  <2>4. CASE \/ Cancel!Thread1Lock \/ Cancel!Thread1Unlock
             \/ Cancel!Thread2Lock \/ Cancel!Thread2Unlock
    BY <1>3, <2>4, CancelCallStep DEF CancelInv, Cancel1Inv
  <2>5. CASE \/ Cancel!Start \/ Cancel!CancelOutside
             \/ Cancel!DestroyLock \/ Cancel!InLock(main)
    BY <1>3, <2>5, CancelStartStep, CancelDestroyStep, CancelOutsideStep
    DEF CancelInv, Cancel1Inv
  <2>6. CASE t \in {thread1, thread2} /\ Cancel!InLock(t)
    BY <1>3, <2>6, CancelInLockStep DEF CancelInv, Cancel1Inv
  <2>7. CASE Cancel!Wakeup(t)
    BY <1>3, <2>7, CancelWakeupStep DEF CancelInv, Cancel1Inv
  <2> QED
    BY <2>1, <2>2, <2>3, <2>4, <2>5, <2>6, <2>7 DEF Cancel!ThreadStep
<1> QED
  BY <1>1, <1>2, <1>3 DEF CancelInv, Cancel1Inv

LEMMA CancelInitially ==
  ASSUME Cancel!CancelInit
  PROVE  CancelInv
<1> USE CancelThreads
<1>1. /\ Init /\ cancelled = FALSE
      /\ pc = [t \in Threads |-> IF t = main THEN "init" ELSE "new"]
  BY SameInCancel DEF Cancel!CancelInit
<1>2. IInv /\ Granting
  BY <1>1, InitInvariant DEF Init, Granting, GrantPlaces, LockPlaces
<1>3. pc[main] = "init" /\ pc[thread1] = "new" /\ pc[thread2] = "new"
  BY <1>1
<1>4. CancelTypes
  BY <1>1, <1>3 DEF CancelTypes
<1>5. ThreadPlaces
  BY <1>1, <1>3 DEF Init, ThreadPlaces, MainPlaces, Thread1Places, Thread2Places, OthersIdle
<1>6. Joined /\ Destroyed
  BY <1>1, <1>2, <1>3 DEF Init, Joined, Destroyed
<1> QED
  BY <1>2, <1>4, <1>5, <1>6 DEF CancelInv, NotDead
-----------------------------------------------------------------------------
(* The four programs *)

LEMMA ProgramsInvariance == ProgramsSpec => []ProgInv
<1>1. ProgramsInit => ProgInv
  <2> SUFFICES ASSUME ProgramsInit PROVE ProgInv
    OBVIOUS
  <2>1. CASE prog \in {"test1", "rwlock"} /\ Test!Test1Init
    BY <2>1, TestInit, RwlockInit DEF ProgInv, RwlockInv
  <2>2. CASE prog = "testcancel" /\ Cancel!CancelInit
    BY <2>2, CancelInitially DEF ProgInv
  <2>3. CASE prog = "incr_rwlock1" /\ Incr!IncrInit
    BY <2>3, IncrInitially DEF ProgInv, Incr1Inv
  <2> QED
    BY <2>1, <2>2, <2>3 DEF ProgramsInit
<1>2. ProgInv /\ [ProgramsNext]_pvars => ProgInv'
  <2> SUFFICES ASSUME ProgInv, [ProgramsNext]_pvars PROVE ProgInv'
    OBVIOUS
  <2>1. CASE UNCHANGED pvars
    <3>1. /\ UNCHANGED <<prog, pc, i, reg, rcountlock, nreaders, nwriters, failed, cancelled,
                         counter>>
          /\ UNCHANGED vars
      BY <2>1 DEF pvars, testOnly
    <3>2. IInv => IInv'
      BY <3>1, NextInvariant
    <3> QED
      BY <3>1, <3>2
      DEF vars, fields, threads, ProgInv, Granting, TestInv, TestTypes, TestPlaces, TestCounts,
          CounterOf, ReadersIn, WritersIn, LibInv, Exclusive, Owns, IncrInv, IncrTypes,
          IncrPlaces, IncrCounts, Stores, Incr!Stores, CancelInv, CancelTypes, NotDead, ThreadPlaces,
          MainPlaces, Thread1Places, Thread2Places, OthersIdle, Joined, Destroyed, DeadInWrlock,
          Dead, Stuck, Signalled, Crashed, TypeOK
  <2>2. ASSUME NEW t \in Threads, ThreadStep(t) \/ Wakeup(t) PROVE ProgInv'
    <3>1. prog' = prog
      BY <2>2 DEF ThreadStep, Wakeup
    <3>2. CASE prog = "test1"
      <4>1. Test!ThreadStep(t) \/ Test!Wakeup(t)
        BY <2>2, <3>2 DEF ThreadStep, Wakeup
      <4> QED
        BY <3>1, <3>2, <4>1, Test1Steps DEF ProgInv, Test1Inv
    <3>3. CASE prog = "rwlock"
      <4>1. Lib!ReaderOrWriter(t)
        BY <2>2, <3>3 DEF ThreadStep, Wakeup
      <4> QED
        BY <3>1, <3>3, <4>1, RwlockSteps DEF ProgInv, RwlockInv
    <3>4. CASE prog = "testcancel"
      <4>1. Cancel!ThreadStep(t) \/ Cancel!Wakeup(t)
        BY <2>2, <3>4 DEF ThreadStep, Wakeup
      <4> QED
        BY <3>1, <3>4, <4>1, CancelSteps DEF ProgInv
    <3>5. CASE prog = "incr_rwlock1"
      <4>1. Incr!ThreadStep(t) \/ Incr!Wakeup(t)
        BY <2>2, <3>5 DEF ThreadStep, Wakeup
      <4> QED
        BY <3>1, <3>5, <4>1, IncrSteps DEF ProgInv, Incr1Inv
    <3> QED
      BY <3>2, <3>3, <3>4, <3>5 DEF ProgInv
  <2> QED
    BY <2>1, <2>2 DEF ProgramsNext
<1> QED
  BY <1>1, <1>2, PTL DEF ProgramsSpec
-----------------------------------------------------------------------------
(***************************************************************************)
(* However many readers and writers there are, no check of test1 or rwlock *)
(* fails (test1.c:79, 104, 108; rwlock.c:76, 99, 103).  What the lock      *)
(* grants keeps writers alone, a writer alone needs no mutex for nwriters, *)
(* and a reader that reads nwriters finds 0 in it.                         *)
(***************************************************************************)
THEOREM ChecksNeverFail == ProgramsSpec => []ChecksPass
<1>1. ProgInv => ChecksPass
  BY DEF ProgInv, TestInv, ChecksPass, Test!ChecksPass
<1> QED
  BY <1>1, ProgramsInvariance, PTL

(***************************************************************************)
(* A thread2 cancelled inside wrlock keeps rw_mutex: if thread1 still has  *)
(* the lock then, thread1 and main do not come to their ends               *)
(* (testcancel.c:22, 43; wrlock.c:16-22); if not, main finds the lock busy *)
(* (testcancel.c:29-30).  One cancelled elsewhere leaves the lock busy     *)
(* exactly if it held it, whatever other threads the process has.          *)
(***************************************************************************)
THEOREM CancelledWriterBlocks == ProgramsSpec => []CancelledWriter
<1>1. ProgInv => CancelledWriter
  <2> SUFFICES ASSUME ProgInv, prog = "testcancel"
               PROVE  Cancel!WaiterDiesWithMutex /\ Cancel!BusyMeansDiedHolding
    BY DEF CancelledWriter
  <2> USE CancelThreads DEF Cancel!EBUSY, EBUSY
  <2>1. CASE Crashed
    BY <2>1 DEF Crashed, Cancel!WaiterDiesWithMutex, Cancel!BusyMeansDiedHolding,
                Cancel!DiedInWait
  <2>2. CASE DeadInWrlock
    <3>1. Cancel!DiedInWait /\ rw_mutex = thread2
      BY <2>2 DEF DeadInWrlock, Dead, Cancel!DiedInWait
    <3>2. CASE Stuck
      BY <3>1, <3>2 DEF Stuck, Cancel!WaiterDiesWithMutex, Cancel!BusyMeansDiedHolding
    <3>3. CASE Signalled
      BY <3>1, <3>3 DEF Signalled, Cancel!WaiterDiesWithMutex, Cancel!BusyMeansDiedHolding
    <3> QED
      BY <2>2, <3>2, <3>3 DEF DeadInWrlock
  <2>3. CASE NotDead
    <3>1. ~Cancel!DiedInWait
      BY <2>3 DEF NotDead, ThreadPlaces, Thread2Places, Cancel!DiedInWait
    <3>2. pc[main] = "end" =>
            /\ IF held[thread2] = "write" THEN result[main] = EBUSY ELSE result[main] # EBUSY
            /\ held[thread2] = "write" <=> (at[thread2] = "dead" /\ held[thread2] = "write")
      BY <2>3 DEF NotDead, ThreadPlaces, MainPlaces, Thread2Places, Joined, Destroyed
    <3> QED
      BY <3>1, <3>2 DEF Cancel!WaiterDiesWithMutex, Cancel!BusyMeansDiedHolding
  <2> QED
    BY <2>1, <2>2, <2>3 DEF ProgInv, CancelInv
<1> QED
  BY <1>1, ProgramsInvariance, PTL

(***************************************************************************)
(* With any number of threads and loops the counter of incr_rwlock1 is the *)
(* number of stores made (incr_rwlock1.c:44-45, 56-60): between a thread's *)
(* load and its store the lock is its own.                                 *)
(***************************************************************************)
THEOREM NoStoreLost == ProgramsSpec => []CounterExact
<1>1. ProgInv => CounterExact
  <2> SUFFICES ASSUME ProgInv, prog = "incr_rwlock1" PROVE Incr!CounterExact
    BY DEF CounterExact
  <2>1. counter = Total(Stores) /\ Incr!Total(Stores) = Total(Stores)
    BY SameTotal DEF ProgInv, IncrInv, IncrCounts
  <2> QED
    BY <2>1 DEF Incr!CounterExact, Stores
<1> QED
  BY <1>1, ProgramsInvariance, PTL
=============================================================================
