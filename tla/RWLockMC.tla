------------------------------ MODULE RWLockMC ------------------------------
\* Instances of RWLock for TLC.
EXTENDS RWLock, TLC
CONSTANTS t1, t2, t3, t4

\* Three threads that do everything, one of them also destroys the lock.
AnyUses == [t \in Threads |-> LockOps \cup {"unlock"}
                              \cup (IF t = t1 THEN {"destroy"} ELSE {})]
\* Two readers and two writers that block, as the threads of test1.c do.
BlockingUses == [t \in Threads |-> {"unlock", IF t \in {t1, t2} THEN "rdlock" ELSE "wrlock"}]

NoErrors == {}
=============================================================================
