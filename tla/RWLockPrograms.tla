--------------------------- MODULE RWLockPrograms ---------------------------
(***************************************************************************)
(* The programs of codes/8.Read_Write_Locks: three that use the lock of    *)
(* RWLock, each in its own way - test1, testcancel, incr_rwlock1 -, and    *)
(* rwlock, which is test1 on the lock of the C library.  prog says which   *)
(* program a behaviour is one of.  The variables that only the others have *)
(* stay as they are.                                                       *)
(***************************************************************************)
EXTENDS RWLock

CONSTANTS
  ReaderThreads,            \* test1, rwlock: the threads that read, others write
  main, thread1, thread2,   \* testcancel; main also of incr_rwlock1
  nloop

VARIABLES
  prog,
  pc,                                       \* all programs
  i, reg,                                   \* all but testcancel
  rcountlock, nreaders, nwriters, failed,   \* test1, rwlock
  cancelled,                                \* testcancel
  counter                                   \* incr_rwlock1

testOnly == <<rcountlock, nreaders, nwriters, failed>>
pvars == <<prog, vars, pc, i, reg, testOnly, cancelled, counter>>

Test   == INSTANCE Test1
Lib    == INSTANCE RwlockTest      \* the same on the lock of the C library
Cancel == INSTANCE TestCancel WITH LongSleeps <- FALSE
Incr   == INSTANCE IncrRwlock

\* The programs give pthread_cond_wait what it needs: it does not fail.
ASSUME ProgramsAssumption ==
  /\ Test!Test1Constants /\ Cancel!CancelConstants /\ Incr!IncrConstants
  /\ WaitErrors = {}

\* Which functions a thread calls is up to its program.
AnyUse == [t \in Threads |-> Ops]

TestIdle   == rcountlock = Nobody /\ nreaders = 0 /\ nwriters = 0 /\ failed = FALSE
CancelIdle == cancelled = FALSE
IncrIdle   == counter = 0
LoopIdle   == i = 0 /\ reg = 0

ProgramsInit ==
  \/ prog \in {"test1", "rwlock"} /\ Test!Test1Init /\ CancelIdle /\ IncrIdle
  \/ prog = "testcancel" /\ Cancel!CancelInit /\ TestIdle /\ IncrIdle /\ LoopIdle
  \/ prog = "incr_rwlock1" /\ Incr!IncrInit /\ TestIdle /\ CancelIdle

ThreadStep(t) ==
  /\ \/ /\ prog = "test1" /\ Test!ThreadStep(t)
        /\ UNCHANGED <<cancelled, counter>>
     \/ /\ prog = "rwlock" /\ Lib!ReaderOrWriter(t)
        /\ UNCHANGED <<cancelled, counter>>
     \/ /\ prog = "testcancel" /\ Cancel!ThreadStep(t)
        /\ UNCHANGED <<i, reg, testOnly, counter>>
     \/ /\ prog = "incr_rwlock1" /\ Incr!ThreadStep(t)
        /\ UNCHANGED <<testOnly, cancelled>>
  /\ UNCHANGED prog

Wakeup(t) ==
  /\ \/ /\ prog = "test1" /\ Test!Wakeup(t)
        /\ UNCHANGED <<cancelled, counter>>
     \/ /\ prog = "testcancel" /\ Cancel!Wakeup(t)
        /\ UNCHANGED <<i, reg, testOnly, counter>>
     \/ /\ prog = "incr_rwlock1" /\ Incr!Wakeup(t)
        /\ UNCHANGED <<testOnly, cancelled>>
  /\ UNCHANGED prog

ProgramsNext == \E t \in Threads : ThreadStep(t) \/ Wakeup(t)

\* Every thread is scheduled; spurious wakeups do not go on for ever.
ProgramsSpec == /\ ProgramsInit /\ [][ProgramsNext]_pvars
                /\ \A t \in Threads : WF_pvars(ThreadStep(t))
                /\ <>[][\A t \in Threads : ~Wakeup(t)]_pvars
-----------------------------------------------------------------------------
(***************************************************************************)
(* The readers and writers of test1 and rwlock never find whom they must   *)
(* not: no thread leaves through exit(-1) (test1.c:79, 104, 108; rwlock.c: *)
(* 76, 99, 103), although nwriters is never protected and nreaders is read *)
(* without its mutex.                                                      *)
(***************************************************************************)
ChecksPass == prog \in {"test1", "rwlock"} => Test!ChecksPass

(***************************************************************************)
(* A thread2 of testcancel that ends inside wrlock takes rw_mutex with it: *)
(* if thread1 still has the lock, it and main are held up for good         *)
(* (testcancel.c:22, 43; wrlock.c:16-22).  Where main does get to destroy  *)
(* the lock (testcancel.c:29-30), it finds it busy exactly if thread2 died *)
(* inside wrlock or holding the lock.                                      *)
(***************************************************************************)
CancelledWriter ==
  prog = "testcancel" => Cancel!WaiterDiesWithMutex /\ Cancel!BusyMeansDiedHolding

(***************************************************************************)
(* The counter of incr_rwlock1 is at all times the number of stores made   *)
(* (incr_rwlock1.c:44-45, 56-60): the write lock loses no increment.       *)
(***************************************************************************)
CounterExact == prog = "incr_rwlock1" => Incr!CounterExact

(***************************************************************************)
(* Every program comes to its end - the joins of test1.c:58-61, rwlock.c:  *)
(* 54-57 and incr_rwlock1.c:40-42 return - but for testcancel when thread2 *)
(* dies in wrlock while thread1 has the lock, or when thread1 cancels a    *)
(* thread that is not there and that makes the process crash.              *)
(***************************************************************************)
ProgramsEnd == <>CASE prog \in {"test1", "rwlock"} -> Test!Test1Ends
                   [] prog = "testcancel" -> Cancel!CancelEnds
                   [] prog = "incr_rwlock1" -> Incr!IncrEnds
=============================================================================
