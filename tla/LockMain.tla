------------------------------ MODULE LockMain ------------------------------
(***************************************************************************)
(* codes/9.Record_Locking/lockmain.c: processes that each take `nloop'     *)
(* numbers from the file seqno, under a lock on that file.                 *)
(*                                                                         *)
(* my_lock and my_unlock are those of lockmain.c itself, the same as in    *)
(* lockfcntl.c: a record lock, which the kernel removes with the process.  *)
(* With byfile they are those of lockopen.c: the lock is the existence of  *)
(* LOCKFILE.  A process may crash anywhere.                                *)
(***************************************************************************)
EXTENDS Integers, FiniteSets, FiniteSetsExt

CONSTANTS Procs, nloop,
          Crashes      \* how many processes may crash

ASSUME LockAssumption == /\ IsFiniteSet(Procs) /\ nloop \in Nat /\ Crashes \in Nat

VARIABLES
  byfile,     \* the program is linked with lockopen.c
  seqfile,    \* the number in the file seqno
  locked,     \* who holds the record lock: a set of at most one process
  lockfile,   \* LOCKFILE exists
  pc, i,      \* of each process: place and loop counter
  seqno,      \* of each process: the number it has read
  crashed,
  taken       \* the numbers each process has given to printf

vars == <<byfile, seqfile, locked, lockfile, pc, i, seqno, crashed, taken>>

Init == /\ byfile \in BOOLEAN
        /\ seqfile = 1 /\ locked = {} /\ lockfile = FALSE
        /\ pc = [p \in Procs |-> "lock"] /\ i = [p \in Procs |-> 0]
        /\ seqno = [p \in Procs |-> 0] /\ crashed = {}
        /\ taken = [p \in Procs |-> {}]

Goto(p, from, to) == pc[p] = from /\ pc' = [pc EXCEPT ![p] = to]
-----------------------------------------------------------------------------
\* fcntl(fd, F_SETLKW, &lock) waits; the open of LOCKFILE is tried again and again.
FreeToAll == TRUE
Free == IF byfile THEN ~lockfile ELSE locked = {}
my_lock(p) == /\ i[p] < nloop /\ Free /\ Goto(p, "lock", "read")
              /\ IF byfile THEN lockfile' = TRUE /\ UNCHANGED locked
                           ELSE locked' = {p} /\ UNCHANGED lockfile
              /\ UNCHANGED <<seqfile, i, seqno, crashed, taken>>

Read(p) == /\ Goto(p, "read", "print") /\ seqno' = [seqno EXCEPT ![p] = seqfile]
           /\ UNCHANGED <<seqfile, locked, lockfile, i, crashed, taken>>
HandOut(p) == /\ Goto(p, "print", "write")
              /\ taken' = [taken EXCEPT ![p] = @ \cup {seqno[p]}]
              /\ UNCHANGED <<seqfile, locked, lockfile, i, seqno, crashed>>
Write(p) == /\ Goto(p, "write", "unlock") /\ seqfile' = seqno[p] + 1
            /\ UNCHANGED <<locked, lockfile, i, seqno, crashed, taken>>

my_unlockForgets(p) == /\ Goto(p, "unlock", "lock") /\ i' = [i EXCEPT ![p] = @ + 1]
                       /\ UNCHANGED <<seqfile, locked, lockfile, seqno, crashed, taken>>
my_unlock(p) == /\ Goto(p, "unlock", "lock") /\ i' = [i EXCEPT ![p] = @ + 1]
                /\ IF byfile THEN lockfile' = FALSE /\ UNCHANGED locked
                             ELSE locked' = locked \ {p} /\ UNCHANGED lockfile
                /\ UNCHANGED <<seqfile, seqno, crashed, taken>>
Exit(p) == /\ i[p] = nloop /\ Goto(p, "lock", "end") /\ locked' = locked \ {p}
           /\ UNCHANGED <<seqfile, lockfile, i, seqno, crashed, taken>>

\* The kernel removes the record locks of the process; LOCKFILE stays.  A
\* process that has printed its number and not written the next stops "halfway".
Stopped == {"end", "halfway"}
Crash(p) == /\ Cardinality(crashed) < Crashes /\ pc[p] \notin Stopped
            /\ pc' = [pc EXCEPT ![p] = IF @ = "write" THEN "halfway" ELSE "end"]
            /\ crashed' = crashed \cup {p}
            /\ locked' = locked \ {p}
            /\ UNCHANGED <<seqfile, lockfile, i, seqno, taken>>

\* The open fails with EEXIST, and my_lock tries again.
Retry(p) == byfile /\ lockfile /\ pc[p] = "lock" /\ i[p] < nloop /\ UNCHANGED vars

Step(p) == /\ my_lock(p) \/ Read(p) \/ HandOut(p) \/ Write(p) \/ my_unlock(p) \/ Exit(p)
           /\ UNCHANGED byfile
AllEnded == \A p \in Procs : pc[p] \in Stopped
Next == \/ \E p \in Procs : Step(p) \/ Retry(p) \/ (Crash(p) /\ UNCHANGED byfile)
        \/ AllEnded /\ UNCHANGED vars

Spec == Init /\ [][Next]_vars /\ \A p \in Procs : WF_vars(Step(p))
-----------------------------------------------------------------------------
Holds(p) == pc[p] \in {"read", "print", "write", "unlock"}

Printed == UNION {taken[p] : p \in Procs}
StoppedWith(p, n) == pc[p] = "halfway" /\ seqno[p] = n

(***************************************************************************)
(* Two processes print one number only if one of them crashed after it     *)
(* had printed it and before it wrote the next (lockmain.c:67-73): the     *)
(* record lock goes with the process, and the next to have it reads that   *)
(* number again.  Every number that the file has moved on from is printed, *)
(* whoever crashed, and none beyond the one in the file.                   *)
(***************************************************************************)
NumbersTakenOnce ==
  /\ \A p, q \in Procs : p # q =>
       \A n \in taken[p] \cap taken[q] : StoppedWith(p, n) \/ StoppedWith(q, n)
  /\ 1 .. seqfile - 1 \subseteq Printed /\ Printed \subseteq 1 .. seqfile

\* LOCKFILE is there although nobody has the lock, against the comment "someone
\* else has the lock" of lockopen.c: its maker has crashed.
Orphaned == byfile /\ lockfile /\ \A p \in Procs : ~Holds(p)

(***************************************************************************)
(* Every process that does not crash has its nloop numbers in the end,     *)
(* unless LOCKFILE is orphaned: a record lock never outlives the process   *)
(* that held it (lockmain.c:26-31).                                        *)
(***************************************************************************)
EachGetsItsNumbers ==
  <>[](Orphaned \/ (AllEnded /\ \A p \in Procs \ crashed : Cardinality(taken[p]) = nloop))

(***************************************************************************)
(* Once its maker has crashed LOCKFILE stays, and nobody ever has the lock *)
(* again: all that is left to the others is to retry (lockopen.c:14-17).   *)
(***************************************************************************)
StaysLocked == [][Orphaned => Orphaned']_vars
=============================================================================
