----------------------------- MODULE Semaphore -----------------------------
(***************************************************************************)
(* POSIX semaphores as the programs of codes/10.Semaphore use them: the    *)
(* value of a semaphore is a variable s.  Several threads may wait, and    *)
(* which of them goes on after a post is not determined.                   *)
(***************************************************************************)
EXTENDS Integers

\* sem_wait: waits until the value is positive, then lowers it.
SemWait(s) == s > 0 /\ s' = s - 1

\* sem_post
SemPost(s) == s' = s + 1
=============================================================================
