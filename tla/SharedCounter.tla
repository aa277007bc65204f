--------------------------- MODULE SharedCounter ---------------------------
(***************************************************************************)
(* Processes that each print and increment a counter nloop times under a   *)
(* semaphore.  client1.c of codes/13.PosixSharedMemory opens the memory    *)
(* and the semaphore by their names, which server1.c makes, and makes anew *)
(* each time it is run.  In codes/12.SharedMemory parent and child have    *)
(* one semaphore, and one counter in a shared mapping (incr2.c), or each   *)
(* its copy of it (incr1.c, incr2private.c).                               *)
(*                                                                         *)
(* The k-th run of server1 makes memory k and semaphore k.  No program     *)
(* looks at what open, mmap and sem_open return: what is missing kills the *)
(* process when it uses it.                                                *)
(***************************************************************************)
EXTENDS Integers

CONSTANTS Procs, Forked,    \* all processes, and parent and child
          Runs,             \* how many times server1 is run
          loops, None       \* nloop of each process

CounterConstants == /\ Forked \subseteq Procs /\ None \notin Procs \cup 1..Runs
                    /\ Procs \cap 1..Runs = {}
                    /\ Runs \in Nat \ {0} /\ loops \in [Procs -> Nat]

Memories == Procs \cup 1..Runs

VARIABLES
  kind,               \* "client1", "incr1", "incr2" or "incr2private"
  server, run,        \* where server1 is, and in which of its runs
  shmname, semname,   \* what the names stand for
  count, sem,         \* the counter in each memory, the value of each semaphore
  mem, mutex,         \* the memory and the semaphore of each process
  pc, i, temp,        \* of each process: place, loop counter, value it has read
  printed             \* of each process: the values it has printed

names  == <<shmname, semname>>
daemon == <<kind, server, run, names>>
vars   == <<daemon, count, sem, mem, mutex, pc, i, temp, printed>>

ServerInit == /\ kind = "client1" /\ server = "shm_unlink"
              /\ mem = [p \in Procs |-> None] /\ mutex = [p \in Procs |-> None]
              /\ pc = [p \in Procs |-> "shm_open"] /\ sem = [s \in 1..Runs |-> 0]

\* After the fork; the name of the semaphore was free, or sem_open failed,
\* which the wrapper of incr2private takes for fatal.
OwnCopies(p) == p
ForkInit == /\ kind \in {"incr1", "incr2", "incr2private"} /\ server = "exit"
            /\ mem = [p \in Procs |-> IF kind = "incr2" THEN 1 ELSE OwnCopies(p)]
            /\ \E s \in IF kind = "incr2private" THEN {1} ELSE {1, None} : mutex = [p \in Procs |-> s]
            /\ pc = [p \in Procs |-> IF p \in Forked THEN "loop" ELSE "end"]
            /\ sem = [s \in 1..Runs |-> 1]

Init == /\ ServerInit \/ ForkInit
        /\ run = 1 /\ shmname = None /\ semname = None
        /\ count = [m \in Memories |-> 0]
        /\ i = [p \in Procs |-> 0] /\ temp = [p \in Procs |-> 0]
        /\ printed = [p \in Procs |-> {}]

Goto(p, from, to) == pc[p] = from /\ pc' = [pc EXCEPT ![p] = to]
-----------------------------------------------------------------------------
\* server1, again and again
ServerGoto(from, to) == server = from /\ server' = to
ShmUnlink == /\ ServerGoto("shm_unlink", "shm_open") /\ shmname' = None
             /\ UNCHANGED <<kind, run, semname, count, sem>>
ShmOpen == /\ ServerGoto("shm_open", "ftruncate") /\ shmname' = run
           /\ UNCHANGED <<kind, run, semname, count, sem>>
Ftruncate == /\ ServerGoto("ftruncate", "sem_unlink")
             /\ UNCHANGED <<kind, run, names, count, sem>>
SemUnlink == /\ ServerGoto("sem_unlink", "sem_open") /\ semname' = None
             /\ UNCHANGED <<kind, run, shmname, count, sem>>
SemOpen == /\ ServerGoto("sem_open", "exit")
           /\ semname' = run /\ sem' = [sem EXCEPT ![run] = 1]
           /\ UNCHANGED <<kind, run, shmname, count>>
RunAgain == /\ kind = "client1" /\ run < Runs /\ ServerGoto("exit", "shm_unlink")
            /\ run' = run + 1
            /\ UNCHANGED <<kind, names, count, sem>>
Server == /\ ShmUnlink \/ ShmOpen \/ Ftruncate \/ SemUnlink \/ SemOpen \/ RunAgain
          /\ UNCHANGED <<mem, mutex, pc, i, temp, printed>>

\* client1: the two names may change between its calls.
OpenMemory(p) == /\ Goto(p, "shm_open", "sem_open") /\ mem' = [mem EXCEPT ![p] = shmname]
                 /\ UNCHANGED <<daemon, count, sem, mutex, i, temp, printed>>
OpenMutex(p) == /\ Goto(p, "sem_open", "loop") /\ mutex' = [mutex EXCEPT ![p] = semname]
                /\ UNCHANGED <<daemon, count, sem, mem, i, temp, printed>>

\* The loop of all programs: sem_wait, printf("%d", count++), sem_post
NoWait(p) == UNCHANGED sem
WaitMutex(p) == sem[mutex[p]] > 0 /\ sem' = [sem EXCEPT ![mutex[p]] = @ - 1]
Wait(p) == /\ i[p] < loops[p] /\ mutex[p] # None /\ Goto(p, "loop", "load")
           /\ WaitMutex(p)
           /\ UNCHANGED <<daemon, count, mem, mutex, i, temp, printed>>
NullMutex(p) == /\ i[p] < loops[p] /\ mutex[p] = None /\ Goto(p, "loop", "dead")
                /\ UNCHANGED <<daemon, count, sem, mem, mutex, i, temp, printed>>

Mapped(p) == mem[p] # None /\ ~(server = "ftruncate" /\ mem[p] = run)
Load(p) == /\ Mapped(p) /\ Goto(p, "load", "store")
           /\ temp' = [temp EXCEPT ![p] = count[mem[p]]]
           /\ UNCHANGED <<daemon, count, sem, mem, mutex, i, printed>>
\* SIGSEGV or SIGBUS, with the semaphore taken
Fault(p) == /\ ~Mapped(p) /\ Goto(p, "load", "dead")
            /\ UNCHANGED <<daemon, count, sem, mem, mutex, i, temp, printed>>
Store(p) == /\ Goto(p, "store", "post")
            /\ count' = [count EXCEPT ![mem[p]] = temp[p] + 1]
            /\ printed' = [printed EXCEPT ![p] = @ \cup {temp[p]}]
            /\ UNCHANGED <<daemon, sem, mem, mutex, i, temp>>
Post(p) == /\ Goto(p, "post", "loop") /\ sem' = [sem EXCEPT ![mutex[p]] = @ + 1]
           /\ i' = [i EXCEPT ![p] = @ + 1]
           /\ UNCHANGED <<daemon, count, mem, mutex, temp, printed>>
Exit(p) == /\ i[p] >= loops[p] /\ Goto(p, "loop", "end")
           /\ UNCHANGED <<daemon, count, sem, mem, mutex, i, temp, printed>>

Loop(p) == \/ Wait(p) \/ NullMutex(p) \/ Load(p) \/ Fault(p) \/ Store(p) \/ Post(p)
           \/ Exit(p)
Step(p) == OpenMemory(p) \/ OpenMutex(p) \/ Loop(p)
-----------------------------------------------------------------------------
Holds(p) == pc[p] \in {"load", "store", "post"}
Users(m) == {p \in Procs : mem[p] = m /\ mutex[p] # None}
OneSemaphore(m) == \A p, q \in Users(m) : mutex[p] = mutex[q]

(***************************************************************************)
(* The processes that use a memory with one semaphore print every value    *)
(* below its counter, and each value once (client1.c:41, incr2.c:44, 53);  *)
(* with a memory of its own each prints its own 0, 1, 2, ... (incr1.c:36,  *)
(* 45, incr2private.c:30, 39).                                             *)
(***************************************************************************)
CountedOnce ==
  \A m \in Memories : OneSemaphore(m) =>
    /\ \A p, q \in Users(m) : p # q => printed[p] \cap printed[q] = {}
    /\ UNION {printed[p] : p \in Users(m)} = 0 .. count[m] - 1

\* A semaphore taken by a client that died at the memory it did not have
\* (client1.c:40-41) is taken for good.
Abandoned(s) == \E p \in Procs : pc[p] = "dead" /\ mutex[p] = s /\ s # None

(***************************************************************************)
(* Every process prints nloop values, or dies for want of a memory or a    *)
(* semaphore, or waits for ever for the semaphore of one that died.        *)
(***************************************************************************)
EachPrints ==
  \A p \in Procs :
    \/ pc[p] = "end" /\ (i[p] = loops[p] \/ (kind # "client1" /\ p \notin Forked))
    \/ pc[p] = "dead"
    \/ pc[p] = "loop" /\ Abandoned(mutex[p]) /\ sem[mutex[p]] = 0
=============================================================================
