---------------------------- MODULE TestCancelMC ----------------------------
\* The three threads of TestCancel and the functions each calls.
EXTENDS TestCancel

CancelUses == [t \in Threads |-> CASE t = main    -> {"init", "destroy"}
                                   [] t = thread1 -> {"rdlock", "unlock"}
                                   [] OTHER       -> {"wrlock", "unlock"}]
NoErrors == {}
=============================================================================
