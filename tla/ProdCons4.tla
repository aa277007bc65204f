----------------------------- MODULE ProdCons4 -----------------------------
(***************************************************************************)
(* codes/10.Semaphore/prodcons4.c: several producers and several consumers *)
(* share a circular buffer under a mutex semaphore; nempty and nstored     *)
(* count its empty and its stored slots.  A producer that finds all items  *)
(* put posts nstored once more, "let consumers terminate", and a consumer  *)
(* that finds all items taken passes that post on to the next.             *)
(*                                                                         *)
(* Every semaphore call is a step of its own, and so are, inside the       *)
(* mutex, the test, the access to the buffer and the update of the counts. *)
(***************************************************************************)
EXTENDS Semaphore, Sequences, Totals

CONSTANTS Producers, Consumers, NBUFF, nitems

\* With no consumers nothing would be taken.
ProdConsConstants == /\ IsFiniteSet(Producers) /\ IsFiniteSet(Consumers)
                     /\ Producers \cap Consumers = {} /\ Consumers # {}
                     /\ NBUFF \in Nat \ {0} /\ nitems \in Nat

Threads == Producers \cup Consumers

VARIABLES mutex, nempty, nstored,
          buff, nput, nputval, nget, ngetval,
          pc,      \* where each thread is in its loop
          seen,    \* what each consumer fetched from the buffer last
          count,   \* prodcount or conscount of each thread
          out      \* the item consumed last, -1 before the first

sems   == <<mutex, nempty, nstored>>
shared == <<buff, nput, nputval, nget, ngetval, out>>
vars   == <<sems, shared, pc, seen, count>>

Init == /\ mutex = 1 /\ nempty = NBUFF /\ nstored = 0
        /\ buff = [k \in 0..NBUFF-1 |-> 0]
        /\ nput = 0 /\ nputval = 0 /\ nget = 0 /\ ngetval = 0 /\ out = -1
        /\ pc = [t \in Threads |-> IF t \in Producers THEN "wait_nempty" ELSE "wait_nstored"]
        /\ seen = [t \in Consumers |-> 0]
        /\ count = [t \in Threads |-> 0]

Goto(t, from, to) == pc[t] = from /\ pc' = [pc EXCEPT ![t] = to]
-----------------------------------------------------------------------------
\* The two sem_wait calls at the head of both loops.
NoMutex == UNCHANGED mutex
TakeMutex == SemWait(mutex)
WaitMutex(t) == /\ Goto(t, "wait_mutex", "test") /\ TakeMutex
                /\ UNCHANGED <<nempty, nstored, shared, seen, count>>

WaitEmpty(p) == /\ Goto(p, "wait_nempty", "wait_mutex") /\ SemWait(nempty)
                /\ UNCHANGED <<mutex, nstored, shared, seen, count>>
WaitStored(c) == /\ Goto(c, "wait_nstored", "wait_mutex") /\ SemWait(nstored)
                 /\ UNCHANGED <<mutex, nempty, shared, seen, count>>

\* if (shared.nput >= nitems)
AllPut == nput >= nitems
TestPut(p) == /\ p \in Producers
              /\ Goto(p, "test", IF AllPut THEN "last_nstored" ELSE "store")
              /\ UNCHANGED <<sems, shared, seen, count>>

Store(p) == /\ Goto(p, "store", "put")
            /\ buff' = [buff EXCEPT ![nput % NBUFF] = nputval]
            /\ UNCHANGED <<sems, nput, nputval, nget, ngetval, out, seen, count>>

Put(p) == /\ Goto(p, "put", "post_mutex")
          /\ nput' = nput + 1 /\ nputval' = nputval + 1
          /\ UNCHANGED <<sems, buff, nget, ngetval, out, seen, count>>

\* if (shared.nget >= nitems)
TestGet(c) == /\ c \in Consumers
              /\ Goto(c, "test", IF nget >= nitems THEN "last_nstored" ELSE "fetch")
              /\ UNCHANGED <<sems, shared, seen, count>>

\* The comparison of the slot with ngetval.
Fetch(c) == /\ Goto(c, "fetch", "get")
            /\ seen' = [seen EXCEPT ![c] = buff[nget % NBUFF]]
            /\ UNCHANGED <<sems, shared, count>>

Get(c) == /\ Goto(c, "get", "post_mutex")
          /\ nget' = nget + 1 /\ ngetval' = ngetval + 1 /\ out' = seen[c]
          /\ UNCHANGED <<sems, buff, nput, nputval, seen, count>>

\* The end of a round: the mutex, then the other semaphore, then the count.
PostMutex(t) == /\ Goto(t, "post_mutex", "post") /\ SemPost(mutex)
                /\ UNCHANGED <<nempty, nstored, shared, seen, count>>

PostStored(p) == /\ p \in Producers /\ Goto(p, "post", "wait_nempty")
                 /\ SemPost(nstored) /\ count' = [count EXCEPT ![p] = @ + 1]
                 /\ UNCHANGED <<mutex, nempty, shared, seen>>
PostEmpty(c) == /\ c \in Consumers /\ Goto(c, "post", "wait_nstored")
                /\ SemPost(nempty) /\ count' = [count EXCEPT ![c] = @ + 1]
                /\ UNCHANGED <<mutex, nstored, shared, seen>>

\* The last round of a thread: a producer posts nstored, nempty and mutex, a
\* consumer nstored and mutex, and returns.
KeepStored == UNCHANGED nstored
PassOn == SemPost(nstored)
LastStored(t) == /\ Goto(t, "last_nstored", IF t \in Producers THEN "last_nempty" ELSE "last_mutex")
                 /\ PassOn
                 /\ UNCHANGED <<mutex, nempty, shared, seen, count>>
LastEmpty(p) == /\ Goto(p, "last_nempty", "last_mutex") /\ SemPost(nempty)
                /\ UNCHANGED <<mutex, nstored, shared, seen, count>>
LastMutex(t) == /\ Goto(t, "last_mutex", "end") /\ SemPost(mutex)
                /\ UNCHANGED <<nempty, nstored, shared, seen, count>>

Step(t) == \/ WaitEmpty(t) \/ WaitStored(t) \/ WaitMutex(t)
           \/ TestPut(t) \/ Store(t) \/ Put(t) \/ PostStored(t)
           \/ TestGet(t) \/ Fetch(t) \/ Get(t) \/ PostEmpty(t)
           \/ PostMutex(t) \/ LastStored(t) \/ LastEmpty(t) \/ LastMutex(t)

\* All threads have returned; main has joined them and exits.
AllEnded == \A t \in Threads : pc[t] = "end"
-----------------------------------------------------------------------------
(***************************************************************************)
(* The error message of prodcons4.c:124 is never printed: a consumer finds *)
(* the item it expects in its slot, although a post of nstored that only   *)
(* says "terminate" (prodcons4.c:89) may be what let it in.                *)
(***************************************************************************)
NeverPrintsError == \A c \in Consumers : pc[c] = "get" => seen[c] = ngetval

(***************************************************************************)
(* A slot is stored into only when it is empty: the posts of nempty for    *)
(* returning producers (prodcons4.c:90) do not add up to a slot too many.  *)
(***************************************************************************)
NeverOverruns == /\ nput - nget \in 0..NBUFF
                 /\ \A p \in Producers : pc[p] = "store" => nput - nget < NBUFF

(***************************************************************************)
(* When all have returned, the counts main prints (prodcons4.c:64-71)      *)
(* add up to nitems on either side: no item is lost or counted twice.      *)
(***************************************************************************)
CountsAddUp ==
  AllEnded => /\ Total([p \in Producers |-> count[p]]) = nitems
              /\ Total([c \in Consumers |-> count[c]]) = nitems

\* The queue that the buffer stands for: its next item, its items, the last out.
NextItem == nputval
OnTheWay == [k \in 1..(nput - nget) |-> buff[(nget + k - 1) % NBUFF]]
LastOut  == out
=============================================================================
