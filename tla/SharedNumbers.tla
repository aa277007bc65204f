--------------------------- MODULE SharedNumbers ---------------------------
(***************************************************************************)
(* The programs whose processes take numbers from a counter they share: in *)
(* a file, under a record lock or a lock file (LockMain), or in memory,    *)
(* under a semaphore (SharedCounter).  A behaviour is one of either; the   *)
(* variables of the other stay as they are.                                *)
(***************************************************************************)
EXTENDS LockMain

CONSTANTS Forked, Runs, loops, None

VARIABLES kind, server, run, shmname, semname, count, sem, mem, mutex, place, loop, temp, printed

Counter == INSTANCE SharedCounter WITH pc <- place, i <- loop

ASSUME CounterAssumption == Counter!CounterConstants

cvars == <<kind, server, run, shmname, semname, count, sem, mem, mutex, place, loop, temp,
           printed>>
nvars == <<vars, cvars>>

NoCounter == /\ kind = "lockmain" /\ server = "exit" /\ run = 0
             /\ shmname = None /\ semname = None /\ count = 0 /\ sem = 0 /\ mem = 0
             /\ mutex = 0 /\ place = 0 /\ loop = 0 /\ temp = 0 /\ printed = 0

NumbersInit == \/ Init /\ NoCounter
               \/ Init /\ ~byfile /\ Counter!Init

Locking  == kind = "lockmain" /\ UNCHANGED cvars
Counting == kind # "lockmain" /\ UNCHANGED vars

NumbersStep(p) == (Locking /\ Step(p)) \/ (Counting /\ Counter!Step(p))
Serve == Counting /\ Counter!Server
CrashOrRetry(p) == Locking /\ (Retry(p) \/ (Crash(p) /\ UNCHANGED byfile))

Finished == /\ IF kind = "lockmain" THEN AllEnded
               ELSE Counter!EachPrints /\ (kind = "client1" => server = "exit" /\ run = Runs)
            /\ UNCHANGED nvars

NumbersNext == Serve \/ Finished \/ \E p \in Procs : NumbersStep(p) \/ CrashOrRetry(p)

\* Every process is scheduled, server1 is started Runs times.
NumbersSpec == /\ NumbersInit /\ [][NumbersNext]_nvars /\ WF_nvars(Serve)
               /\ \A p \in Procs : WF_nvars(NumbersStep(p))
-----------------------------------------------------------------------------
(***************************************************************************)
(* Each value of a counter in memory is printed once, by the processes     *)
(* that use that memory with the same semaphore (client1.c:40-42,          *)
(* incr2.c:43-45).                                                         *)
(***************************************************************************)
CountedOnce == kind # "lockmain" => Counter!CountedOnce

(***************************************************************************)
(* Every process has its numbers in the end, unless what it waits    *)
(* for is orphaned: the lock file of a process that crashed (lockopen.c:12)*)
(* or the semaphore of a client that died where it had no memory           *)
(* (client1.c:40-41); a record lock never is.                              *)
(***************************************************************************)
EachEnds == /\ kind = "lockmain" => EachGetsItsNumbers
            /\ <>[](kind # "lockmain" => Counter!EachPrints)
=============================================================================
