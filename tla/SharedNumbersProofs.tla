------------------------ MODULE SharedNumbersProofs ------------------------
(***************************************************************************)
(* Theorems about the programs of SharedNumbers, for any number of         *)
(* processes, loops, crashes and runs of server1.                          *)
(***************************************************************************)
EXTENDS SharedNumbers, TLAPS

\* The file under a lock (LockMain).

LockPlaces == {"lock", "read", "print", "write", "unlock", "end", "halfway"}
LockShape ==
  /\ byfile \in BOOLEAN /\ seqfile \in Nat \ {0}
  /\ locked \subseteq Procs /\ lockfile \in BOOLEAN
  /\ pc \in [Procs -> LockPlaces]
  /\ i \in [Procs -> Nat] /\ seqno \in [Procs -> Nat]
  /\ taken \in [Procs -> SUBSET Nat]

\* Whoever is between my_lock and my_unlock has the lock in use, alone.
OneHolds == \A p, q \in Procs : Holds(p) /\ Holds(q) => p = q
HolderHasLock == \A p \in Procs : Holds(p) => IF byfile THEN lockfile ELSE locked = {p}

\* The number a process has read is the one in the file until it writes the
\* next; when the number in the file is printed, its printer is about to write
\* or has crashed there.
NumberIsCurrent == \A p \in Procs : pc[p] \in {"print", "write"} => seqno[p] = seqfile
PrintedBeforeWritten ==
  \A p \in Procs : /\ pc[p] = "write" => seqfile \in taken[p]
                   /\ seqfile \in taken[p] =>
                        pc[p] = "write" \/ (pc[p] = "halfway" /\ seqno[p] = seqfile)

LockInv == /\ LockShape /\ OneHolds /\ HolderHasLock /\ NumberIsCurrent
           /\ PrintedBeforeWritten /\ NumbersTakenOnce
-----------------------------------------------------------------------------
LEMMA LockInit == Init => LockInv
<1> SUFFICES ASSUME Init PROVE LockInv
  OBVIOUS
<1>1. LockShape
  <2>1. {} \in SUBSET Nat
    OBVIOUS
  <2>2. taken \in [Procs -> SUBSET Nat]
    BY <2>1 DEF Init
  <2>3. byfile \in BOOLEAN /\ lockfile \in BOOLEAN /\ locked \subseteq Procs
    BY DEF Init
  <2>4. /\ seqfile \in Nat \ {0} /\ i \in [Procs -> Nat] /\ seqno \in [Procs -> Nat]
        /\ pc \in [Procs -> LockPlaces]
    BY DEF Init, LockPlaces
  <2> QED
    BY <2>2, <2>3, <2>4 DEF LockShape
<1>2. OneHolds /\ HolderHasLock /\ NumberIsCurrent
  BY DEF Init, OneHolds, HolderHasLock, NumberIsCurrent, Holds
<1>3. \A p \in Procs : taken[p] = {} /\ pc[p] = "lock"
  BY DEF Init
<1>4. PrintedBeforeWritten
  BY <1>3 DEF PrintedBeforeWritten
<1>5. NumbersTakenOnce
  <2>1. Printed = {}
    BY <1>3 DEF Printed
  <2>2. 1 .. seqfile - 1 = {}
    BY DEF Init
  <2> QED
    BY <1>3, <2>1, <2>2 DEF NumbersTakenOnce
<1> QED
  BY <1>1, <1>2, <1>4, <1>5 DEF LockInv

\* Where the file and the numbers printed stay, so does what is said of them,
\* as long as whoever has stopped halfway stays there.
LEMMA KeepNumbers ==
  ASSUME NumbersTakenOnce, UNCHANGED <<seqfile, taken>>,
         \A p \in Procs : pc[p] = "halfway" => pc'[p] = "halfway" /\ seqno'[p] = seqno[p]
  PROVE  NumbersTakenOnce'
<1>1. \A p \in Procs : \A n \in taken[p] : StoppedWith(p, n) => StoppedWith(p, n)'
  BY DEF StoppedWith
<1> QED
  BY <1>1 DEF NumbersTakenOnce, Printed

\* A process that does not write or crash keeps its place in what is printed.
LEMMA KeepPrinted ==
  ASSUME PrintedBeforeWritten, UNCHANGED <<seqfile, taken>>,
         \A p \in Procs : /\ pc'[p] = "write" => pc[p] = "write"
                          /\ pc[p] = "write" =>
                               pc'[p] = "write" \/ (pc'[p] = "halfway" /\ seqno'[p] = seqfile)
                          /\ pc[p] = "halfway" => pc'[p] = "halfway" /\ seqno'[p] = seqno[p]
  PROVE  PrintedBeforeWritten'
BY DEF PrintedBeforeWritten

LEMMA LockStep ==
  ASSUME LockInv, NEW p \in Procs, my_lock(p), UNCHANGED byfile
  PROVE  LockInv'
<1> USE DEF LockInv, my_lock, Goto
<1>1. LockShape'
  BY DEF LockShape, LockPlaces
<1>2. \A q \in Procs : ~Holds(q)
  <2> SUFFICES ASSUME NEW q \in Procs, Holds(q) PROVE FALSE
    OBVIOUS
  <2> QED
    BY DEF HolderHasLock, Free
<1>3. \A q \in Procs : q # p => ~Holds(q)'
  BY <1>2 DEF LockShape, Holds
<1>4. OneHolds'
  BY <1>3 DEF OneHolds
<1>5. HolderHasLock'
  BY <1>3 DEF HolderHasLock, LockShape
<1>6. NumberIsCurrent'
  BY DEF NumberIsCurrent, LockShape
<1>7. /\ \A q \in Procs : pc'[q] = IF q = p THEN "read" ELSE pc[q]
      /\ pc[p] = "lock" /\ UNCHANGED <<seqfile, seqno, taken>>
  BY DEF LockShape
<1>8. PrintedBeforeWritten' /\ NumbersTakenOnce'
  BY <1>7, KeepPrinted, KeepNumbers
<1> QED
  BY <1>1, <1>4, <1>5, <1>6, <1>8

LEMMA ReadStep ==
  ASSUME LockInv, NEW p \in Procs, Read(p), UNCHANGED byfile
  PROVE  LockInv'
<1> USE DEF LockInv, Read, Goto
<1>1. LockShape'
  BY DEF LockShape, LockPlaces
<1>2. \A q \in Procs : Holds(q)' = Holds(q)
  BY DEF LockShape, Holds
<1>3. OneHolds' /\ HolderHasLock'
  BY <1>2 DEF OneHolds, HolderHasLock
<1>4. NumberIsCurrent'
  <2>1. \A q \in Procs : q # p => pc'[q] = pc[q] /\ pc[q] \notin {"print", "write"}
    BY DEF LockShape, OneHolds, Holds
  <2>2. seqno'[p] = seqfile
    BY DEF LockShape
  <2> QED
    BY <2>1, <2>2 DEF NumberIsCurrent
<1>5. /\ \A q \in Procs : /\ pc'[q] = IF q = p THEN "print" ELSE pc[q]
                          /\ q # p => seqno'[q] = seqno[q]
      /\ pc[p] = "read" /\ UNCHANGED <<seqfile, taken>>
  BY DEF LockShape
<1>6. PrintedBeforeWritten' /\ NumbersTakenOnce'
  <2>1. \A q \in Procs : pc[q] = "halfway" => pc'[q] = "halfway" /\ seqno'[q] = seqno[q]
    BY <1>5
  <2> QED
    BY <1>5, <2>1, KeepPrinted, KeepNumbers
<1> QED
  BY <1>1, <1>3, <1>4, <1>6

LEMMA PrintStep ==
  ASSUME LockInv, NEW p \in Procs, HandOut(p), UNCHANGED byfile
  PROVE  LockInv'
<1> USE DEF LockInv, HandOut, Goto
<1>0. seqno[p] = seqfile /\ seqfile \in Nat \ {0} /\ pc[p] = "print"
  BY DEF NumberIsCurrent, LockShape
<1>1. LockShape'
  BY <1>0 DEF LockShape, LockPlaces
<1>2. \A q \in Procs : Holds(q)' = Holds(q)
  BY DEF LockShape, Holds
<1>3. OneHolds' /\ HolderHasLock'
  BY <1>2 DEF OneHolds, HolderHasLock
<1>4. \A q \in Procs : /\ pc'[q] = IF q = p THEN "write" ELSE pc[q]
                       /\ taken'[q] = IF q = p THEN taken[p] \cup {seqfile} ELSE taken[q]
  BY <1>0 DEF LockShape
<1>5. NumberIsCurrent'
  BY <1>0, <1>4 DEF NumberIsCurrent
<1>6. PrintedBeforeWritten'
  BY <1>0, <1>4 DEF PrintedBeforeWritten
\* Nobody else is about to write, so whoever has printed this number crashed.
<1>7. \A q \in Procs : q # p /\ seqfile \in taken[q] => StoppedWith(q, seqfile)
  <2> SUFFICES ASSUME NEW q \in Procs, q # p, seqfile \in taken[q] PROVE StoppedWith(q, seqfile)
    OBVIOUS
  <2>1. Holds(p) /\ (pc[q] = "write" => Holds(q))
    BY <1>0 DEF Holds
  <2> QED
    BY <2>1 DEF PrintedBeforeWritten, OneHolds, StoppedWith
<1>8. NumbersTakenOnce'
  <2>1. \A q \in Procs, n \in Nat : StoppedWith(q, n) => StoppedWith(q, n)'
    BY <1>0, <1>4 DEF StoppedWith
  <2>2. ASSUME NEW q \in Procs, NEW r \in Procs, q # r, NEW n \in taken'[q] \cap taken'[r]
        PROVE  StoppedWith(q, n)' \/ StoppedWith(r, n)'
    <3>1. n \in Nat
      BY <1>1 DEF LockShape
    <3>2. CASE n = seqfile
      BY <1>4, <1>7, <2>1, <2>2, <3>1, <3>2
    <3>3. CASE n # seqfile
      BY <1>4, <2>1, <2>2, <3>1, <3>3 DEF NumbersTakenOnce
    <3> QED
      BY <3>2, <3>3
  <2>3. Printed' = Printed \cup {seqfile}
    BY <1>4 DEF Printed
  <2>4. seqfile \in 1 .. seqfile /\ seqfile' = seqfile
    BY <1>0
  <2> QED
    BY <2>2, <2>3, <2>4 DEF NumbersTakenOnce
<1> QED
  BY <1>1, <1>3, <1>5, <1>6, <1>8

LEMMA WriteStep ==
  ASSUME LockInv, NEW p \in Procs, Write(p), UNCHANGED byfile
  PROVE  LockInv'
<1> USE DEF LockInv, Write, Goto
<1>0. seqno[p] = seqfile /\ seqfile \in Nat \ {0} /\ seqfile' = seqfile + 1
  BY DEF NumberIsCurrent, LockShape
<1>1. LockShape'
  BY <1>0 DEF LockShape, LockPlaces
<1>2. \A q \in Procs : Holds(q)' = Holds(q)
  BY DEF LockShape, Holds
<1>3. OneHolds' /\ HolderHasLock'
  BY <1>2 DEF OneHolds, HolderHasLock
<1>4. \A q \in Procs : /\ pc'[q] = IF q = p THEN "unlock" ELSE pc[q]
                       /\ q # p => pc[q] \notin {"print", "write"}
                       /\ taken'[q] = taken[q] /\ seqno'[q] = seqno[q]
  BY DEF LockShape, OneHolds, Holds
<1>5. NumberIsCurrent'
  BY <1>4 DEF NumberIsCurrent
<1>6. Printed' = Printed /\ Printed \subseteq 1 .. seqfile /\ 1 .. seqfile - 1 \subseteq Printed
  BY DEF Printed, NumbersTakenOnce
<1>7. \A q \in Procs : seqfile' \notin taken'[q]
  BY <1>0, <1>4, <1>6 DEF Printed
<1>8. PrintedBeforeWritten'
  BY <1>4, <1>7 DEF PrintedBeforeWritten
<1>9. NumbersTakenOnce'
  <2>1. \A q \in Procs : \A n \in taken[q] : StoppedWith(q, n) => StoppedWith(q, n)'
    BY <1>4 DEF StoppedWith
  <2>2. seqfile \in Printed
    <3>1. seqfile \in taken[p]
      BY DEF PrintedBeforeWritten
    <3> QED
      BY <3>1 DEF Printed
  <2>3. 1 .. seqfile' - 1 \subseteq Printed' /\ Printed' \subseteq 1 .. seqfile'
    BY <1>0, <1>6, <2>2
  <2> QED
    BY <1>4, <2>1, <2>3 DEF NumbersTakenOnce
<1> QED
  BY <1>1, <1>3, <1>5, <1>8, <1>9

\* A process that leaves the critical section, or ends in it.
LEMMA LeaveStep ==
  ASSUME LockInv, NEW p \in Procs,
         UNCHANGED <<byfile, seqfile, seqno, taken>>,
         pc' \in [Procs -> LockPlaces],
         i' \in [Procs -> Nat], ~Holds(p)',
         \A q \in Procs \ {p} : pc'[q] = pc[q],
         pc[p] = "halfway" => pc'[p] = "halfway", pc[p] = "write" => pc'[p] = "halfway",
         locked' \subseteq locked, lockfile' \in BOOLEAN,
         \A q \in Procs \ {p} : Holds(q) => lockfile' = lockfile /\ (q \in locked => q \in locked')
  PROVE  LockInv'
<1> USE DEF LockInv
<1>1. LockShape'
  BY DEF LockShape, LockPlaces
<1>2. \A q \in Procs : Holds(q)' => q # p /\ Holds(q)
  BY DEF Holds
<1>3. OneHolds' /\ HolderHasLock'
  BY <1>2 DEF OneHolds, HolderHasLock
<1>4. NumberIsCurrent'
  BY <1>2 DEF NumberIsCurrent, Holds
<1>5. /\ pc'[p] # "write" /\ (pc[p] = "write" => seqno'[p] = seqfile)
      /\ \A q \in Procs : q # p => pc'[q] = pc[q]
  BY DEF NumberIsCurrent, Holds
<1>6. PrintedBeforeWritten'
  BY <1>5, KeepPrinted
<1>7. NumbersTakenOnce'
  BY <1>5, KeepNumbers
<1> QED
  BY <1>1, <1>3, <1>4, <1>6, <1>7

LEMMA UnlockStep ==
  ASSUME LockInv, NEW p \in Procs, my_unlock(p), UNCHANGED byfile
  PROVE  LockInv'
<1> USE DEF my_unlock, Goto
<1>1. \A q \in Procs \ {p} : ~Holds(q)
  BY DEF LockInv, OneHolds, Holds
<1>2. /\ pc' \in [Procs -> LockPlaces]
      /\ ~Holds(p)' /\ pc[p] = "unlock" /\ \A q \in Procs \ {p} : pc'[q] = pc[q]
  BY DEF LockInv, LockShape, LockPlaces, Holds
<1>3. i' \in [Procs -> Nat]
  BY DEF LockInv, LockShape
<1>4. locked' \subseteq locked /\ lockfile' \in BOOLEAN
  BY DEF LockInv, LockShape
<1> QED
  BY <1>1, <1>2, <1>3, <1>4, LeaveStep

LEMMA EndStep ==
  ASSUME LockInv, NEW p \in Procs, Exit(p) \/ Crash(p), UNCHANGED byfile
  PROVE  LockInv'
<1> USE DEF Exit, Crash, Goto, Stopped
<1>1. /\ pc' \in [Procs -> LockPlaces]
      /\ i' \in [Procs -> Nat] /\ ~Holds(p)'
      /\ \A q \in Procs \ {p} : pc'[q] = pc[q]
      /\ pc[p] # "halfway" /\ (pc[p] = "write" => pc'[p] = "halfway")
      /\ locked' = locked \ {p} /\ lockfile' = lockfile /\ lockfile' \in BOOLEAN
  BY DEF LockInv, LockShape, LockPlaces, Holds
<1> QED
  BY <1>1, LeaveStep

LEMMA LockNext == LockInv /\ [Next]_vars => LockInv'
<1> SUFFICES ASSUME LockInv, [Next]_vars PROVE LockInv'
  OBVIOUS
<1>1. CASE UNCHANGED vars
  BY <1>1, KeepNumbers, KeepPrinted
     DEF vars, LockInv, LockShape, OneHolds, HolderHasLock, NumberIsCurrent, Holds
<1>2. ASSUME NEW p \in Procs, Step(p) PROVE LockInv'
  BY <1>2, LockStep, ReadStep, PrintStep, WriteStep, UnlockStep, EndStep DEF Step
<1>3. ASSUME NEW p \in Procs, Crash(p), UNCHANGED byfile PROVE LockInv'
  BY <1>3, EndStep
<1> QED
  BY <1>1, <1>2, <1>3 DEF Next, Retry

\* What a step of any of the programs is for the file and its lock.
LEMMA StepsOfLockMain == [NumbersNext]_nvars => [Next]_vars
<1> SUFFICES ASSUME [NumbersNext]_nvars PROVE Next \/ UNCHANGED vars
  OBVIOUS
<1>1. CASE UNCHANGED nvars \/ Finished
  BY <1>1 DEF nvars, Finished
<1>2. CASE Serve
  BY <1>2 DEF Serve, Counting
<1>3. ASSUME NEW p \in Procs, NumbersStep(p) PROVE Next \/ UNCHANGED vars
  BY <1>3 DEF NumbersStep, Locking, Counting, Next
<1>4. ASSUME NEW p \in Procs, CrashOrRetry(p) PROVE Next
  BY <1>4 DEF CrashOrRetry, Locking, Next
<1> QED
  BY <1>1, <1>2, <1>3, <1>4 DEF NumbersNext

LEMMA LockInvariance == NumbersSpec => []LockInv
<1>1. NumbersInit => LockInv
  BY LockInit DEF NumbersInit
<1>2. LockInv /\ [NumbersNext]_nvars => LockInv'
  BY LockNext, StepsOfLockMain
<1> QED
  BY <1>1, <1>2, PTL DEF NumbersSpec

(***************************************************************************)
(* Two processes print one number of the file only if one of them crashed  *)
(* between its printf and its write (lockmain.c:67-73), and no number that *)
(* the file has moved on from is skipped, however many processes take      *)
(* numbers and wherever they crash, with the record lock and the lock file.*)
(***************************************************************************)
THEOREM NumbersOnce == NumbersSpec => []NumbersTakenOnce
<1>1. LockInv => NumbersTakenOnce
  BY DEF LockInv
<1> QED
  BY <1>1, LockInvariance, PTL

(***************************************************************************)
(* Once the maker of LOCKFILE has crashed (lockopen.c:14-17), no process   *)
(* has the lock ever again.                                                *)
(***************************************************************************)
THEOREM OrphanStays == NumbersSpec => StaysLocked
<1>1. LockInv /\ [Next]_vars => (Orphaned => Orphaned')
  <2> SUFFICES ASSUME LockInv, [Next]_vars, Orphaned PROVE Orphaned'
    OBVIOUS
  <2>1. CASE UNCHANGED vars
    BY <2>1 DEF vars, Orphaned, Holds
  <2>2. ASSUME NEW p \in Procs, my_lock(p) PROVE FALSE
    BY <2>2 DEF my_lock, Free, Orphaned
  <2>3. ASSUME NEW p \in Procs, Read(p) \/ HandOut(p) \/ Write(p) \/ my_unlock(p) PROVE FALSE
    BY <2>3 DEF Read, HandOut, Write, my_unlock, Goto, Orphaned, Holds
  <2>4. ASSUME NEW p \in Procs, Exit(p) \/ Crash(p), UNCHANGED byfile PROVE Orphaned'
    BY <2>4 DEF Exit, Crash, Stopped, Goto, Orphaned, Holds, LockInv, LockShape
  <2> QED
    BY <2>1, <2>2, <2>3, <2>4 DEF Next, Step, Retry
<1> QED
  BY <1>1, LockInvariance, StepsOfLockMain, PTL DEF NumbersSpec, StaysLocked
-----------------------------------------------------------------------------
(* The counters in memory (SharedCounter).  The invariant says that a      *)
(* semaphore is 0 while a process is between sem_wait and sem_post with it *)
(* and that nobody has the semaphore which a run of server1 is still to    *)
(* make; so two processes of one semaphore are never in there together.    *)

Sems     == 1 .. Runs
Memories == Counter!Memories
Between(p) == Counter!Holds(p)
Users(m) == Counter!Users(m)

ServerTypes ==
  /\ server \in {"shm_unlink", "shm_open", "ftruncate", "sem_unlink", "sem_open", "exit"}
  /\ run \in Sems
  /\ semname \in Sems \cup {None} /\ shmname \in Sems \cup {None}
  /\ sem \in [Sems -> {0, 1}]

ProcTypes ==
  /\ mem \in [Procs -> Memories \cup {None}]
  /\ mutex \in [Procs -> Sems \cup {None}]
  /\ place \in [Procs -> {"shm_open", "sem_open", "loop", "load", "store", "post", "dead", "end"}]
  /\ temp \in [Procs -> Nat] /\ printed \in [Procs -> SUBSET Nat]
  /\ count \in [Memories -> Nat]

\* Nobody has a semaphore that is not made yet.
NoneFromLater ==
  /\ semname \in Sems => semname <= run /\ (server # "exit" => semname # run)
  /\ \A p \in Procs : mutex[p] \in Sems => mutex[p] <= run /\ (server # "exit" => mutex[p] # run)

\* Who is between sem_wait and sem_post.
Inside ==
  /\ \A p \in Procs : Between(p) => mutex[p] \in Sems /\ sem[mutex[p]] = 0
  /\ \A p, q \in Procs : Between(p) /\ Between(q) /\ mutex[p] = mutex[q] => p = q

\* Who has no memory or no semaphore yet.
Starting ==
  /\ \A p \in Procs : place[p] \in {"shm_open", "sem_open"} => mutex[p] = None
  /\ \A p \in Procs : mutex[p] = None => printed[p] = {}
  /\ \A p \in Procs : place[p] \in {"store"} => mem[p] \in Memories

Apart(m) == \A p, q \in Users(m) : p # q => printed[p] \cap printed[q] = {}
AllBelow(m) == \A n \in Nat : (\E p \in Users(m) : n \in printed[p]) <=> n < count[m]
ReadIsCurrent(m) == \A p \in Users(m) : place[p] = "store" => temp[p] = count[m]

Counted == \A m \in Memories :
             Counter!OneSemaphore(m) => Apart(m) /\ AllBelow(m) /\ ReadIsCurrent(m)

CInv == ServerTypes /\ ProcTypes /\ NoneFromLater /\ Inside /\ Starting /\ Counted
IInv == kind # "lockmain" => CInv

-----------------------------------------------------------------------------
LEMMA ConstantFacts ==
  /\ Runs \in Nat \ {0} /\ None \notin Procs /\ None \notin Sems
  /\ Procs \cap Sems = {} /\ Memories = Procs \cup Sems /\ None \notin Memories
  /\ Forked \subseteq Procs
BY CounterAssumption DEF Counter!CounterConstants, Sems, Memories, Counter!Memories

LEMMA InitInvariant == NumbersInit => IInv
<1> SUFFICES ASSUME NumbersInit, kind # "lockmain" PROVE CInv
  BY DEF IInv
<1> USE ConstantFacts
<1>1. Counter!Init
  BY DEF NumbersInit, NoCounter
<1>2. /\ run = 1 /\ shmname = None /\ semname = None /\ count = [m \in Memories |-> 0]
      /\ temp = [p \in Procs |-> 0] /\ printed = [p \in Procs |-> {}]
  BY <1>1 DEF Counter!Init, Memories
<1>3. 1 \in Sems
  BY DEF Sems
<1>4. \A p \in Procs : printed[p] = {}
  BY <1>2
<1>5. \A m \in Memories : count[m] = 0
  BY <1>2
<1>6. ASSUME \A p \in Procs : ~Between(p)
      PROVE  Counted
  <2> SUFFICES ASSUME NEW m \in Memories PROVE Apart(m) /\ AllBelow(m) /\ ReadIsCurrent(m)
    BY DEF Counted
  <2>1. Users(m) \subseteq Procs
    BY DEF Users, Counter!Users
  <2>2. Apart(m)
    BY <1>4, <2>1 DEF Apart
  <2>3. AllBelow(m)
    BY <1>4, <1>5, <2>1 DEF AllBelow
  <2>4. ReadIsCurrent(m)
    BY <1>6, <2>1 DEF ReadIsCurrent, Between, Counter!Holds
  <2> QED
    BY <2>2, <2>3, <2>4
<1>7. CASE Counter!ServerInit
  <2>1. /\ server = "shm_unlink" /\ mem = [p \in Procs |-> None]
        /\ mutex = [p \in Procs |-> None] /\ place = [p \in Procs |-> "shm_open"]
        /\ sem = [s \in Sems |-> 0]
    BY <1>7 DEF Counter!ServerInit, Sems
  <2>2. ServerTypes /\ NoneFromLater
    BY <1>2, <1>3, <2>1 DEF ServerTypes, NoneFromLater
  <2>3. ProcTypes
    BY <1>2, <2>1 DEF ProcTypes
  <2>4. \A p \in Procs : ~Between(p)
    BY <2>1 DEF Between, Counter!Holds
  <2>5. Inside /\ Starting
    BY <1>4, <2>1, <2>4 DEF Inside, Starting
  <2> QED
    BY <1>6, <2>2, <2>3, <2>4, <2>5 DEF CInv
<1>8. CASE Counter!ForkInit
  <2>1. PICK s \in {1, None} : mutex = [p \in Procs |-> s]
    BY <1>8, Zenon DEF Counter!ForkInit
  <2>2. /\ server = "exit"
        /\ mem = [p \in Procs |-> IF kind = "incr2" THEN 1 ELSE p]
        /\ place = [p \in Procs |-> IF p \in Forked THEN "loop" ELSE "end"]
        /\ sem = [x \in Sems |-> 1]
    BY <1>8 DEF Counter!ForkInit, Counter!OwnCopies, Sems
  <2>3. ServerTypes
    BY <1>2, <1>3, <2>2 DEF ServerTypes
  <2>4. NoneFromLater
    BY <1>2, <1>3, <2>1, <2>2 DEF NoneFromLater
  <2>5. mem \in [Procs -> Memories \cup {None}]
    BY <1>3, <2>2
  <2>6. ProcTypes
    BY <1>2, <1>3, <2>1, <2>2, <2>5 DEF ProcTypes
  <2>7. \A p \in Procs : place[p] \in {"loop", "end"}
    BY <2>2
  <2>8. \A p \in Procs : ~Between(p)
    BY <2>7 DEF Between, Counter!Holds
  <2>9. Inside /\ Starting
    BY <1>4, <2>7, <2>8 DEF Inside, Starting
  <2> QED
    BY <1>6, <2>3, <2>4, <2>6, <2>8, <2>9 DEF CInv
<1> QED
  BY <1>1, <1>7, <1>8 DEF Counter!Init
-----------------------------------------------------------------------------
(* What is counted, in the steps that print nothing *)

LEMMA SameUsers ==
  ASSUME NEW m \in Memories, UNCHANGED <<mem, mutex>>
  PROVE  Users(m)' = Users(m) /\ (Counter!OneSemaphore(m)' <=> Counter!OneSemaphore(m))
BY DEF Users, Counter!Users, Counter!OneSemaphore

LEMMA PrintsNothing ==
  ASSUME Counted, UNCHANGED <<count, mem, mutex, printed>>,
         \A q \in Procs : place'[q] = "store" =>
           (place[q] = "store" /\ temp'[q] = temp[q]) \/ temp'[q] = count[mem[q]]
  PROVE  Counted'
<1> SUFFICES ASSUME NEW m \in Memories, Counter!OneSemaphore(m)'
             PROVE  Apart(m)' /\ AllBelow(m)' /\ ReadIsCurrent(m)'
  BY DEF Counted, Memories, Counter!Memories
<1>1. Users(m)' = Users(m) /\ Counter!OneSemaphore(m)
  BY SameUsers
<1>2. Apart(m) /\ AllBelow(m) /\ ReadIsCurrent(m)
  BY <1>1 DEF Counted
<1>3. Apart(m)'
  BY <1>1, <1>2 DEF Apart
<1>4. AllBelow(m)'
  BY <1>1, <1>2 DEF AllBelow
<1>5. ReadIsCurrent(m)'
  BY <1>1, <1>2 DEF ReadIsCurrent, Users, Counter!Users
<1> QED
  BY <1>3, <1>4, <1>5
-----------------------------------------------------------------------------
LEMMA ServerStep ==
  ASSUME CInv, Counter!Server
  PROVE  CInv'
<1> USE ConstantFacts
<1>0. /\ UNCHANGED <<mem, mutex, place, loop, temp, printed, count>>
      /\ run' = run \/ (server = "exit" /\ run < Runs /\ run' = run + 1 /\ server' # "exit")
  BY DEF Counter!Server, Counter!ShmUnlink, Counter!ShmOpen, Counter!Ftruncate,
         Counter!SemUnlink, Counter!SemOpen, Counter!RunAgain, Counter!ServerGoto
<1>1. run' \in Sems
  BY <1>0 DEF CInv, ServerTypes, Sems
<1>2. ProcTypes'
  BY <1>0 DEF CInv, ProcTypes, Memories, Counter!Memories
<1>3. Starting'
  BY <1>0 DEF CInv, Starting, Memories, Counter!Memories
<1>4. Counted'
  BY <1>0, PrintsNothing DEF CInv
<1>5. CASE Counter!SemOpen
  <2>1. /\ server = "sem_open" /\ server' = "exit" /\ semname' = run
        /\ sem' = [sem EXCEPT ![run] = 1] /\ UNCHANGED <<run, shmname>>
    BY <1>5 DEF Counter!SemOpen, Counter!ServerGoto
  <2>2. ServerTypes'
    BY <2>1 DEF CInv, ServerTypes
  <2>3. NoneFromLater'
    BY <1>0, <2>1 DEF CInv, NoneFromLater, ServerTypes, Sems
  <2>4. \A p \in Procs : Between(p)' = Between(p) /\ mutex[p] # run
    BY <1>0, <2>1 DEF CInv, NoneFromLater, ServerTypes, Between, Counter!Holds
  <2>5. Inside'
    BY <1>0, <2>1, <2>4 DEF CInv, Inside, ServerTypes
  <2> QED
    BY <1>2, <1>3, <1>4, <2>2, <2>3, <2>5 DEF CInv
<1>6. CASE ~Counter!SemOpen
  <2>1. /\ sem' = sem /\ semname' \in {semname, None} /\ shmname' \in {shmname, None, run}
        /\ server' \in {"shm_unlink", "shm_open", "ftruncate", "sem_unlink", "sem_open"}
        /\ (server = "exit" => run' = run + 1)
    BY <1>6 DEF Counter!Server, Counter!ShmUnlink, Counter!ShmOpen, Counter!Ftruncate,
         Counter!SemUnlink, Counter!RunAgain, Counter!ServerGoto, Counter!names
  <2>2. ServerTypes'
    BY <1>1, <2>1 DEF CInv, ServerTypes
  <2>3. NoneFromLater'
    BY <1>0, <2>1 DEF CInv, NoneFromLater, ServerTypes, Sems
  <2>4. Inside'
    BY <1>0, <2>1 DEF CInv, Inside, Between, Counter!Holds
  <2> QED
    BY <1>2, <1>3, <1>4, <2>2, <2>3, <2>4 DEF CInv
<1> QED
  BY <1>5, <1>6
-----------------------------------------------------------------------------
(* The steps of a process *)

LEMMA OpenMemoryStep ==
  ASSUME CInv, NEW p \in Procs, Counter!OpenMemory(p)
  PROVE  CInv'
<1> USE ConstantFacts
<1>1. /\ place[p] = "shm_open" /\ place' = [place EXCEPT ![p] = "sem_open"]
      /\ mem' = [mem EXCEPT ![p] = shmname]
      /\ UNCHANGED <<server, run, shmname, semname, count, sem, mutex, temp, printed>>
  BY DEF Counter!OpenMemory, Counter!Goto, Counter!daemon, Counter!names
<1>2. ServerTypes' /\ NoneFromLater'
  BY <1>1 DEF CInv, ServerTypes, NoneFromLater
<1>3. ProcTypes'
  BY <1>1 DEF CInv, ServerTypes, ProcTypes, Memories, Counter!Memories
<1>4. mutex[p] = None
  BY <1>1 DEF CInv, Starting
<1>5. \A q \in Procs : Between(q)' = Between(q)
  BY <1>1 DEF CInv, ProcTypes, Between, Counter!Holds
<1>6. Inside' /\ Starting'
  BY <1>1, <1>4, <1>5 DEF CInv, ProcTypes, Inside, Starting, Memories, Counter!Memories
<1>7. Counted'
  <2> SUFFICES ASSUME NEW m \in Memories, Counter!OneSemaphore(m)'
               PROVE  Apart(m)' /\ AllBelow(m)' /\ ReadIsCurrent(m)'
    BY DEF Counted, Memories, Counter!Memories
  <2>1. Users(m)' = Users(m)
    BY <1>1, <1>4 DEF CInv, ProcTypes, Users, Counter!Users
  <2>2. Counter!OneSemaphore(m)
    BY <1>1, <2>1 DEF Counter!OneSemaphore, Users
  <2>3. Apart(m) /\ AllBelow(m) /\ ReadIsCurrent(m)
    BY <2>2 DEF CInv, Counted
  <2>4. \A q \in Users(m) : place'[q] = "store" => place[q] = "store"
    BY <1>1 DEF CInv, ProcTypes, Users, Counter!Users
  <2> QED
    BY <1>1, <2>1, <2>3, <2>4 DEF Apart, AllBelow, ReadIsCurrent
<1> QED
  BY <1>2, <1>3, <1>6, <1>7 DEF CInv

LEMMA OpenMutexStep ==
  ASSUME CInv, NEW p \in Procs, Counter!OpenMutex(p)
  PROVE  CInv'
<1> USE ConstantFacts
<1>1. /\ place[p] = "sem_open" /\ place' = [place EXCEPT ![p] = "loop"]
      /\ mutex' = [mutex EXCEPT ![p] = semname]
      /\ UNCHANGED <<server, run, shmname, semname, count, sem, mem, temp, printed>>
  BY DEF Counter!OpenMutex, Counter!Goto, Counter!daemon, Counter!names
<1>2. ServerTypes' /\ NoneFromLater'
  BY <1>1 DEF CInv, ServerTypes, ProcTypes, NoneFromLater
<1>3. ProcTypes'
  BY <1>1 DEF CInv, ServerTypes, ProcTypes, Memories, Counter!Memories
<1>4. mutex[p] = None /\ printed[p] = {}
  BY <1>1 DEF CInv, Starting
<1>5. \A q \in Procs : Between(q)' = Between(q) /\ (Between(q) => q # p)
  BY <1>1 DEF CInv, ProcTypes, Between, Counter!Holds
<1>6. Inside' /\ Starting'
  BY <1>1, <1>4, <1>5 DEF CInv, ProcTypes, Inside, Starting, Memories, Counter!Memories
<1>7. Counted'
  <2> SUFFICES ASSUME NEW m \in Memories, Counter!OneSemaphore(m)'
               PROVE  Apart(m)' /\ AllBelow(m)' /\ ReadIsCurrent(m)'
    BY DEF Counted, Memories, Counter!Memories
  <2>1. Users(m) \subseteq Users(m)' /\ Users(m)' \subseteq Users(m) \cup {p}
    BY <1>1, <1>4 DEF CInv, ProcTypes, Users, Counter!Users
  <2>2. \A q \in Users(m) : q # p /\ mutex'[q] = mutex[q]
    BY <1>1, <1>4 DEF CInv, ProcTypes, Users, Counter!Users
  <2>3. Counter!OneSemaphore(m)
    BY <2>1, <2>2 DEF Counter!OneSemaphore, Users
  <2>4. Apart(m) /\ AllBelow(m) /\ ReadIsCurrent(m)
    BY <2>3 DEF CInv, Counted
  <2>5. Apart(m)'
    BY <1>1, <1>4, <2>1, <2>4 DEF Apart
  <2>6. AllBelow(m)'
    BY <1>1, <1>4, <2>1, <2>4 DEF AllBelow
  <2>7. place'[p] # "store" /\ \A q \in Users(m) : place'[q] = "store" => place[q] = "store"
    BY <1>1 DEF CInv, ProcTypes, Users, Counter!Users
  <2>8. ReadIsCurrent(m)'
    BY <1>1, <2>1, <2>4, <2>7 DEF ReadIsCurrent
  <2> QED
    BY <2>5, <2>6, <2>8
<1> QED
  BY <1>2, <1>3, <1>6, <1>7 DEF CInv

\* sem_wait and sem_post
LEMMA SemaphoreStep ==
  ASSUME CInv, NEW p \in Procs, Counter!Wait(p) \/ Counter!Post(p)
  PROVE  CInv'
<1> USE ConstantFacts
<1>1. /\ mutex[p] \in Sems /\ UNCHANGED <<server, run, shmname, semname>>
      /\ UNCHANGED <<count, mem, mutex, temp, printed>>
  BY DEF Counter!Wait, Counter!Post, Counter!Goto, Counter!daemon, Counter!names, CInv,
         ProcTypes, Inside, Between, Counter!Holds
<1>2. \/ /\ place[p] = "loop" /\ place' = [place EXCEPT ![p] = "load"]
         /\ sem[mutex[p]] > 0 /\ sem' = [sem EXCEPT ![mutex[p]] = sem[mutex[p]] - 1]
      \/ /\ place[p] = "post" /\ place' = [place EXCEPT ![p] = "loop"]
         /\ sem' = [sem EXCEPT ![mutex[p]] = sem[mutex[p]] + 1]
  BY DEF Counter!Wait, Counter!Post, Counter!WaitMutex, Counter!Goto
<1>3. sem[mutex[p]] \in {0, 1}
  BY <1>1 DEF CInv, ServerTypes
<1>4. place[p] = "post" => sem[mutex[p]] = 0
  BY DEF CInv, Inside, Between, Counter!Holds
<1>5. sem' \in [Sems -> {0, 1}]
  BY <1>1, <1>2, <1>3, <1>4 DEF CInv, ServerTypes
<1>6. ServerTypes' /\ NoneFromLater'
  BY <1>1, <1>5 DEF CInv, ServerTypes, NoneFromLater
<1>7. ProcTypes'
  BY <1>1, <1>2 DEF CInv, ProcTypes, Memories, Counter!Memories
<1>8. \A q \in Procs \ {p} : Between(q)' = Between(q) /\ (Between(q) => mutex[q] # mutex[p])
  BY <1>1, <1>2 DEF CInv, ProcTypes, Inside, Between, Counter!Holds
<1>9. Between(p)' => sem'[mutex[p]] = 0
  BY <1>1, <1>2, <1>3 DEF CInv, ServerTypes, ProcTypes, Between, Counter!Holds
<1>10. \A q \in Procs \ {p} : Between(q) => mutex[q] \in Sems /\ sem'[mutex[q]] = 0
  BY <1>1, <1>2, <1>8 DEF CInv, ServerTypes, Inside
<1>11. Inside'
  BY <1>1, <1>8, <1>9, <1>10 DEF CInv, Inside
<1>12. Starting'
  BY <1>1, <1>2 DEF CInv, ProcTypes, Starting, Memories, Counter!Memories
<1>13. Counted'
  BY <1>1, <1>2, PrintsNothing DEF CInv, ProcTypes
<1> QED
  BY <1>6, <1>7, <1>11, <1>12, <1>13 DEF CInv

\* The steps that neither print nor use a semaphore.
LEMMA QuietStep ==
  ASSUME CInv, NEW p \in Procs,
         Counter!NullMutex(p) \/ Counter!Load(p) \/ Counter!Fault(p) \/ Counter!Exit(p)
  PROVE  CInv'
<1> USE ConstantFacts
<1>1. /\ UNCHANGED <<server, run, shmname, semname, sem>>
      /\ UNCHANGED <<count, mem, mutex, printed>>
  BY DEF Counter!NullMutex, Counter!Load, Counter!Fault, Counter!Exit, Counter!daemon,
         Counter!names
<1>2. \/ /\ place[p] \in {"loop", "load"} /\ temp' = temp
         /\ \E to \in {"dead", "end"} : place' = [place EXCEPT ![p] = to]
      \/ /\ place[p] = "load" /\ place' = [place EXCEPT ![p] = "store"] /\ mem[p] # None
         /\ temp' = [temp EXCEPT ![p] = count[mem[p]]]
  BY DEF Counter!NullMutex, Counter!Load, Counter!Fault, Counter!Exit, Counter!Goto,
         Counter!Mapped
<1>3. ServerTypes' /\ NoneFromLater'
  BY <1>1 DEF CInv, ServerTypes, NoneFromLater
<1>4. ProcTypes'
  BY <1>1, <1>2 DEF CInv, ProcTypes, Memories, Counter!Memories
<1>5. \A q \in Procs : Between(q)' => Between(q)
  BY <1>2 DEF CInv, ProcTypes, Between, Counter!Holds
<1>6. Inside'
  BY <1>1, <1>5 DEF CInv, Inside
<1>7. Starting'
  BY <1>1, <1>2 DEF CInv, ProcTypes, Starting, Memories, Counter!Memories
<1>8. Counted'
  BY <1>1, <1>2, PrintsNothing DEF CInv, ProcTypes
<1> QED
  BY <1>3, <1>4, <1>6, <1>7, <1>8 DEF CInv

\* printf("%d", count++), its second half: who uses the memory with the same
\* semaphore is not at this place too.
LEMMA StoreStep ==
  ASSUME CInv, NEW p \in Procs, Counter!Store(p)
  PROVE  CInv'
<1> USE ConstantFacts
<1>1. /\ place[p] = "store" /\ place' = [place EXCEPT ![p] = "post"]
      /\ count' = [count EXCEPT ![mem[p]] = temp[p] + 1]
      /\ printed' = [printed EXCEPT ![p] = printed[p] \cup {temp[p]}]
      /\ UNCHANGED <<server, run, shmname, semname, sem, mem, mutex, temp>>
  BY DEF Counter!Store, Counter!Goto, Counter!daemon, Counter!names
<1>2. mem[p] \in Memories /\ mutex[p] \in Sems /\ temp[p] \in Nat
  BY <1>1 DEF CInv, Starting, Inside, Between, Counter!Holds, ProcTypes
<1>3. ServerTypes' /\ NoneFromLater'
  BY <1>1 DEF CInv, ServerTypes, NoneFromLater
<1>4. count' \in [Memories -> Nat]
  BY <1>1, <1>2 DEF CInv, ProcTypes
<1>5. ProcTypes'
  BY <1>1, <1>2, <1>4 DEF CInv, ProcTypes, Memories, Counter!Memories
<1>6. \A q \in Procs : Between(q)' = Between(q)
  BY <1>1 DEF CInv, ProcTypes, Between, Counter!Holds
<1>7. Inside' /\ Starting'
  BY <1>1, <1>2, <1>6 DEF CInv, ProcTypes, Inside, Starting, Memories, Counter!Memories
<1>8. Counted'
  <2> SUFFICES ASSUME NEW m \in Memories, Counter!OneSemaphore(m)'
               PROVE  Apart(m)' /\ AllBelow(m)' /\ ReadIsCurrent(m)'
    BY DEF Counted, Memories, Counter!Memories
  <2>1. Users(m)' = Users(m) /\ Counter!OneSemaphore(m)
    BY <1>1, SameUsers
  <2>2. Apart(m) /\ AllBelow(m) /\ ReadIsCurrent(m)
    BY <2>1 DEF CInv, Counted
  <2>3. Users(m) \subseteq Procs /\ (p \in Users(m) <=> mem[p] = m)
    BY <1>2 DEF Users, Counter!Users
  <2>4. CASE mem[p] # m
    <3>1. \A q \in Users(m) : printed'[q] = printed[q] /\ place'[q] = place[q]
      BY <1>1, <2>3, <2>4 DEF CInv, ProcTypes
    <3>2. count'[m] = count[m]
      BY <1>1, <2>4 DEF CInv, ProcTypes
    <3> QED
      BY <1>1, <2>1, <2>2, <3>1, <3>2 DEF Apart, AllBelow, ReadIsCurrent
  <2>5. CASE mem[p] = m
    <3>1. temp[p] = count[m] /\ count'[m] = count[m] + 1 /\ count[m] \in Nat
      BY <1>1, <2>2, <2>3, <2>5 DEF CInv, ProcTypes, ReadIsCurrent
    <3>2. \A q \in Users(m) : q # p => printed'[q] = printed[q] /\ place'[q] # "store"
      <4> SUFFICES ASSUME NEW q \in Users(m), q # p
                   PROVE  printed'[q] = printed[q] /\ place'[q] # "store"
        OBVIOUS
      <4>1. mutex[q] = mutex[p]
        BY <2>1, <2>3, <2>5 DEF Counter!OneSemaphore, Users
      <4>2. place[q] # "store"
        BY <1>1, <2>3, <4>1 DEF CInv, Inside, Between, Counter!Holds
      <4> QED
        BY <1>1, <2>3, <4>2 DEF CInv, ProcTypes
    <3>3. printed'[p] = printed[p] \cup {count[m]} /\ place'[p] # "store"
      BY <1>1, <3>1 DEF CInv, ProcTypes
    <3>4. \A q \in Users(m) : count[m] \notin printed[q]
      BY <2>2, <3>1 DEF AllBelow
    <3>5. Apart(m)'
      BY <2>1, <2>2, <3>2, <3>3, <3>4 DEF Apart
    <3>6. ASSUME NEW n \in Nat
          PROVE  (\E q \in Users(m) : n \in printed'[q])
                   <=> n = count[m] \/ \E q \in Users(m) : n \in printed[q]
      BY <2>3, <2>5, <3>2, <3>3
    <3>7. AllBelow(m)'
      BY <2>1, <2>2, <3>1, <3>6 DEF AllBelow
    <3>8. ReadIsCurrent(m)'
      BY <2>1, <3>2, <3>3 DEF ReadIsCurrent
    <3> QED
      BY <3>5, <3>7, <3>8
  <2> QED
    BY <2>4, <2>5
<1> QED
  BY <1>3, <1>5, <1>7, <1>8 DEF CInv
-----------------------------------------------------------------------------
LEMMA NothingChanges ==
  ASSUME CInv, UNCHANGED cvars
  PROVE  CInv'
<1>1. ServerTypes' /\ NoneFromLater'
  BY DEF CInv, cvars, ServerTypes, NoneFromLater
<1>2. ProcTypes' /\ Starting'
  BY DEF CInv, cvars, ProcTypes, Starting, Memories, Counter!Memories
<1>3. Inside'
  BY DEF CInv, cvars, Inside, Between, Counter!Holds
<1>4. Counted'
  BY PrintsNothing DEF CInv, cvars
<1> QED
  BY <1>1, <1>2, <1>3, <1>4 DEF CInv

LEMMA NextInvariant == IInv /\ [NumbersNext]_nvars => IInv'
<1> SUFFICES ASSUME IInv, [NumbersNext]_nvars, kind' # "lockmain" PROVE CInv'
  BY DEF IInv
<1>1. CASE UNCHANGED nvars \/ Finished
  BY <1>1, NothingChanges DEF nvars, cvars, IInv, Finished
<1>2. CASE Serve
  BY <1>2, ServerStep DEF Serve, Counting, IInv
<1>3. ASSUME NEW p \in Procs, Locking PROVE FALSE
  BY <1>3 DEF Locking, cvars
<1>4. ASSUME NEW p \in Procs, Counting, Counter!Step(p) PROVE CInv'
  <2>1. CInv
    BY <1>4 DEF Counting, IInv
  <2> QED
    BY <1>4, <2>1, OpenMemoryStep, OpenMutexStep, SemaphoreStep, QuietStep, StoreStep
    DEF Counter!Step, Counter!Loop
<1> QED
  BY <1>1, <1>2, <1>3, <1>4 DEF NumbersNext, NumbersStep, CrashOrRetry

LEMMA Invariance == NumbersSpec => []IInv
BY InitInvariant, NextInvariant, PTL DEF NumbersSpec

LEMMA CountedIsOnce == IInv => CountedOnce
<1> SUFFICES ASSUME CInv, NEW m \in Counter!Memories, Counter!OneSemaphore(m)
             PROVE  /\ \A p, q \in Counter!Users(m) : p # q => printed[p] \cap printed[q] = {}
                    /\ UNION {printed[p] : p \in Counter!Users(m)} = 0 .. count[m] - 1
  BY DEF IInv, CountedOnce, Counter!CountedOnce
<1>1. Apart(m) /\ AllBelow(m)
  BY DEF CInv, Counted, Memories
<1>2. count[m] \in Nat /\ \A p \in Users(m) : printed[p] \subseteq Nat
  BY DEF CInv, ProcTypes, Memories, Users, Counter!Users
<1>3. \A n : n \in 0 .. count[m] - 1 <=> n \in Nat /\ n < count[m]
  BY <1>2
<1>4. \A n : (\E p \in Users(m) : n \in printed[p]) <=> n \in 0 .. count[m] - 1
  BY <1>1, <1>2, <1>3 DEF AllBelow
<1> QED
  BY <1>1, <1>4 DEF Apart, Users

(***************************************************************************)
(* The processes that use one memory with one semaphore print every value  *)
(* below its counter, each once (client1.c:40-42, incr2.c:43-45, 52-54),   *)
(* however many they are, whenever server1 makes the memory and the        *)
(* semaphore anew, and wherever a process dies (server1.c:20-29).          *)
(***************************************************************************)
THEOREM EachValueOnce == NumbersSpec => []CountedOnce
BY Invariance, CountedIsOnce, PTL
=============================================================================
