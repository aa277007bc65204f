----------------------------- MODULE ProdCons1 -----------------------------
(***************************************************************************)
(* codes/10.Semaphore/prodcons1.c: the threads of prodcons2.c over three   *)
(* named semaphores.  Several runs of the program may overlap or follow    *)
(* each other, and a run may be killed at any point.  main looks at no     *)
(* result of sem_open: a run that did not get a semaphore dies on its NULL *)
(* pointer as soon as it uses it, unless it has no items and uses none.    *)
(***************************************************************************)
EXTENDS Integers, Sequences

CONSTANTS Runs, NoRun,
          MayBeIdle    \* the runs that may be started with no items

NamedConstants == NoRun \notin Runs /\ MayBeIdle \subseteq Runs

Names == 1..3    \* /semmutex, /semnempty, /semnstored

VARIABLES named,    \* whose semaphore a name stands for, NoRun if there is none
          idle,     \* the runs that are started with no items
          opened,   \* the results of the sem_open calls of each run
          removed,  \* number of sem_unlink calls of each run
          pc

vars == <<named, idle, opened, removed, pc>>

Init == /\ named = [n \in Names |-> NoRun]
        /\ idle \in SUBSET MayBeIdle
        /\ opened = [r \in Runs |-> << >>]
        /\ removed = [r \in Runs |-> 0]
        /\ pc = [r \in Runs |-> "open"]

Goto(r, from, to) == pc[r] = from /\ pc' = [pc EXCEPT ![r] = to]

\* The process is gone, its names are not.
Gone(r) == /\ opened' = [opened EXCEPT ![r] = << >>]
           /\ removed' = [removed EXCEPT ![r] = 0]
           /\ UNCHANGED <<named, idle>>

HasAll(r) == Len(opened[r]) = 3 /\ \A n \in Names : opened[r][n] # NoRun
-----------------------------------------------------------------------------
\* O_CREAT | O_EXCL: a semaphore of its own, or none if the name is taken.
OpenShared(r, n) == IF named[n] = NoRun THEN r ELSE named[n]
OpenNew(r, n) == IF named[n] = NoRun THEN r ELSE NoRun
Open(r) == /\ pc[r] = "open" /\ Len(opened[r]) < 3
           /\ LET n == Len(opened[r]) + 1
              IN  /\ opened' = [opened EXCEPT ![r] = Append(@, OpenNew(r, n))]
                  /\ named' = [named EXCEPT ![n] = IF @ = NoRun THEN r ELSE @]
           /\ UNCHANGED <<idle, removed, pc>>

CreateThreads(r) == /\ Len(opened[r]) = 3 /\ Goto(r, "open", "work")
                    /\ UNCHANGED <<named, idle, opened, removed>>
\* The threads are ProdCons2 over the semaphores of the run; they end (AllEnd).
JoinThreads(r) == /\ HasAll(r) \/ r \in idle
                  /\ Goto(r, "work", "unlink")
                  /\ UNCHANGED <<named, idle, opened, removed>>
NullSemaphore(r) == /\ ~HasAll(r) /\ r \notin idle
                    /\ Goto(r, "work", "dead") /\ Gone(r)

Unlink(r) == /\ pc[r] = "unlink" /\ removed[r] < 3
             /\ removed' = [removed EXCEPT ![r] = @ + 1]
             /\ named' = [named EXCEPT ![removed'[r]] = NoRun]
             /\ UNCHANGED <<idle, opened, pc>>
Exit(r) == /\ removed[r] = 3 /\ Goto(r, "unlink", "end") /\ Gone(r)

Step(r) == \/ Open(r) \/ CreateThreads(r) \/ JoinThreads(r) \/ NullSemaphore(r)
           \/ Unlink(r) \/ Exit(r)

\* The run is killed; its names stay.
Kill(r) == /\ pc[r] \in {"open", "work", "unlink"} /\ opened[r] # << >>
           /\ pc' = [pc EXCEPT ![r] = "dead"] /\ Gone(r)

AllEnded == \A r \in Runs : pc[r] \in {"end", "dead"}
-----------------------------------------------------------------------------
\* Names that a run which is dead has left.
Left == {n \in Names : named[n] # NoRun /\ pc[named[n]] = "dead"}

(***************************************************************************)
(* The threads of two runs never work with the same semaphore: a run that  *)
(* has all three has created them (prodcons1.c:43-48).                     *)
(***************************************************************************)
NoneShared == \A r \in Runs : HasAll(r) => \A n \in Names : opened[r][n] = r

(***************************************************************************)
(* As long as no run is started with no items, the sem_unlink calls of a   *)
(* run remove its own names only (prodcons1.c:60-62), so that a name which *)
(* a dead run has left stays for good ...                                  *)
(***************************************************************************)
RemovesOwn == idle = {} => \A n \in Names : named'[n] # named[n] =>
                             named[n] = NoRun \/ removed'[named[n]] = n

(***************************************************************************)
(* ... and once a name has been left, even by a run that died between two  *)
(* of its calls while another was ending, no run that has not all its      *)
(* semaphores yet will ever get them, so that all of them die too.         *)
(***************************************************************************)
LeftForGood == idle = {} /\ Left # {} => \A r \in Runs : ~HasAll(r) => ~HasAll(r)'
=============================================================================
