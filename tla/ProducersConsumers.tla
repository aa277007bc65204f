------------------------- MODULE ProducersConsumers -------------------------
(***************************************************************************)
(* The producer-consumer programs of the book, one after the other.  With  *)
(* semaphores (codes/10.Semaphore): one producer and one consumer          *)
(* (prodcons2.c), several producers (prodcons3.c), several of both         *)
(* (prodcons4.c), one of each that copy a file (mycat2.c), and several     *)
(* runs over named semaphores (prodcons1.c).  With an array and mutexes    *)
(* (codes/7.Mutex_ConditionVariable): the consumer after the producers     *)
(* (prodcons2.c, here "array2"), polling beside them (prodcons3.c,         *)
(* "array3"), or waiting on a condition variable (prodcons6.c).            *)
(*                                                                         *)
(* prog says which program a behaviour is one of.  prodcons2 is ProdCons2  *)
(* itself, with variables of its own; the others share theirs, and those   *)
(* a program does not have stay as they are.                               *)
(***************************************************************************)
EXTENDS ProdCons2

CONSTANTS Producers,                   \* the producers of prodcons3, 6, array2, 3,
                                       \* and the runs of prodcons1
          SomeProducers, Consumers,    \* the threads of prodcons4
          producer, consumer,          \* the threads of which there is one
          MayBeIdle,                   \* runs of prodcons1 that may have no items
          Nobody                       \* owner of a mutex or a name that is free

VARIABLES
  prog,
  pc, count, nput, nputval, pbuff,      \* all but prodcons2
  pmutex, pempty, pstored,              \* prodcons3, 4 and mycat2: semaphores
  seen,                                 \* prodcons3, 4: item fetched
  i,                                    \* prodcons3, 6, array2, 3: consumer's counter
  nget, ngetval,                        \* prodcons4
  taken,                                \* prodcons4, mycat2: item taken last
  put_mutex,                            \* prodcons6, array2, 3
  nready_mutex, nready, asleep          \* prodcons6

bounded == <<pmutex, pempty, pstored>>
getters == <<nget, ngetval>>
condvar == <<nready_mutex, nready, asleep>>
many    == <<pc, count, nput, nputval, pbuff, bounded, seen, i, getters, taken,
             put_mutex, condvar>>
pvars   == <<prog, vars, many>>

P3 == INSTANCE ProdCons3 WITH
        buff <- pbuff, mutex <- pmutex, nempty <- pempty, nstored <- pstored

P4 == INSTANCE ProdCons4 WITH
        Producers <- SomeProducers, buff <- pbuff,
        mutex <- pmutex, nempty <- pempty, nstored <- pstored, out <- taken

C6 == INSTANCE CondProdCons WITH
        Consumer <- consumer, buff <- pbuff, nval <- nputval

Cat == INSTANCE MyCat2 WITH
         MaxChunks <- nitems, buff <- pbuff,
         mutex <- pmutex, nempty <- pempty, nstored <- pstored,
         size <- nputval, offset <- nput, at <- count, out <- taken

P1 == INSTANCE ProdCons1 WITH
        Runs <- Producers, NoRun <- Nobody,
        named <- pbuff, idle <- nputval, opened <- count, removed <- nput

IsArray == prog \in {"array2", "array3"}
Arr == INSTANCE ArrayProdCons WITH
         Consumer <- consumer, polls <- (prog = "array3"),
         mutex <- put_mutex, buff <- pbuff, nval <- nputval

ASSUME ProgramsAssumption ==
  /\ P3!ProdConsConstants /\ P4!ProdConsConstants /\ C6!CondProdConsConstants
  /\ Cat!CatConstants /\ P1!NamedConstants /\ Arr!ArrayConstants

All == Producers \cup SomeProducers \cup Consumers \cup {producer, consumer}

NoBounded == pmutex = 0 /\ pempty = 0 /\ pstored = 0
NoGetters == nget = 0 /\ ngetval = 0
NoCondvar == nready_mutex = Nobody /\ nready = 0 /\ asleep = FALSE
NoMany    == pc = 0 /\ count = 0 /\ nput = 0 /\ nputval = 0 /\ pbuff = 0

Programs == {"prodcons2", "prodcons3", "prodcons4", "prodcons6", "mycat2", "prodcons1",
             "array2", "array3"}

ProgramsInit ==
  /\ Init
  /\ prog \in Programs
  /\ prog # "prodcons6" => NoCondvar
  /\ prog # "prodcons4" => NoGetters
  /\ prog \notin {"prodcons3", "prodcons4", "mycat2"} => NoBounded
  /\ prog \notin {"prodcons3", "prodcons4"} => seen = 0
  /\ prog \notin {"prodcons4", "mycat2"} => taken = 0
  /\ prog \notin {"prodcons6", "array2", "array3"} => put_mutex = Nobody
  /\ prog \in {"prodcons2", "prodcons4", "mycat2", "prodcons1"} => i = 0
  /\ \/ prog = "prodcons2" /\ NoMany
     \/ prog = "prodcons3" /\ P3!Init
     \/ prog = "prodcons4" /\ P4!Init
     \/ prog = "mycat2"    /\ Cat!Init
     \/ prog = "prodcons1" /\ P1!Init
     \/ IsArray            /\ Arr!Init
     \/ prog = "prodcons6" /\ C6!Init

ThreadStep(t) ==
  /\ UNCHANGED prog
  /\ \/ /\ prog = "prodcons2" /\ ((t = producer /\ Produce) \/ (t = consumer /\ Consume))
        /\ UNCHANGED many
     \/ /\ prog = "prodcons3" /\ P3!Step(t)
        /\ UNCHANGED <<vars, getters, taken, put_mutex, condvar>>
     \/ /\ prog = "prodcons4" /\ t \in P4!Threads /\ P4!Step(t)
        /\ UNCHANGED <<vars, i, put_mutex, condvar>>
     \/ /\ prog = "mycat2" /\ Cat!Step(t)
        /\ UNCHANGED <<vars, seen, i, getters, put_mutex, condvar>>
     \/ /\ prog = "prodcons1" /\ t \in Producers /\ P1!Step(t)
        /\ UNCHANGED <<vars, bounded, seen, i, getters, taken, put_mutex, condvar>>
     \/ /\ IsArray /\ Arr!Step(t)
        /\ UNCHANGED <<vars, bounded, seen, getters, taken, condvar>>
     \/ /\ prog = "prodcons6" /\ C6!Step(t)
        /\ UNCHANGED <<vars, bounded, seen, getters, taken>>

Wakeup == /\ prog = "prodcons6" /\ C6!SpuriousWakeup
          /\ UNCHANGED <<prog, vars, bounded, seen, getters, taken>>

Kill == /\ prog = "prodcons1" /\ \E r \in Producers : P1!Kill(r)
        /\ UNCHANGED <<prog, vars, bounded, seen, i, getters, taken, put_mutex, condvar>>

Ended == CASE prog = "prodcons2" -> AllEnded
           [] prog = "prodcons3" -> P3!AllEnded
           [] prog = "prodcons4" -> P4!AllEnded
           [] prog = "mycat2"    -> Cat!AllEnded
           [] prog = "prodcons1" -> P1!AllEnded
           [] IsArray            -> Arr!AllEnded
           [] prog = "prodcons6" -> C6!AllEnded

\* main has joined all threads and exits.
Finished == Ended /\ UNCHANGED pvars

ProgramsNext == (\E t \in All : ThreadStep(t)) \/ Wakeup \/ Kill \/ Finished

\* A producer beside the polling consumer of array3 gets the mutex.
ProducerLocks == /\ prog = "array3" /\ \E p \in Producers : Arr!Lock(p)
                 /\ UNCHANGED <<prog, vars, bounded, seen, getters, taken, condvar>>

\* Every thread is scheduled; spurious wakeups do not go on for ever; and the
\* polling consumer does not win the mutex every time it is free.
ProgramsSpec == /\ ProgramsInit /\ [][ProgramsNext]_pvars
                /\ \A t \in All : WF_pvars(ThreadStep(t))
                /\ SF_pvars(ProducerLocks)
                /\ <>[][~Wakeup]_pvars
-----------------------------------------------------------------------------
(***************************************************************************)
(* The consumer of the programs with several producers finds item i in its *)
(* place, whichever producer stored it, in whatever order they announce    *)
(* their items and although a post may only mean "terminate": the errors   *)
(* of prodcons3.c:105, prodcons4.c:124, prodcons6.c:103 and those of the   *)
(* array programs are not printed.  mycat2 writes the chunks in order and  *)
(* takes for the end only what is the end (mycat2.c:97).                   *)
(***************************************************************************)
ItemsInOrder == /\ prog = "prodcons3" => P3!NeverPrintsError
                /\ prog = "prodcons4" => P4!NeverPrintsError
                /\ prog = "prodcons6" => C6!ReadsOnlyStored
                /\ IsArray => Arr!ReadsOnlyStored
                /\ prog = "mycat2" => Cat!CopiesInOrder

(***************************************************************************)
(* No slot, item or count is lost or doubled between two critical          *)
(* sections: the semaphores of prodcons3 add up to NBUFF, prodcons4 stores *)
(* only into empty slots, nready of prodcons6 lags behind the array by     *)
(* what is about to be counted, and the counts that main prints add up.    *)
(* The two threads of mycat2 are never at the same buffer.                 *)
(***************************************************************************)
Accounted == /\ prog = "prodcons3" => P3!SlotsConserved /\ P3!CountsAddUp
             /\ prog = "prodcons4" => P4!NeverOverruns /\ P4!CountsAddUp
             /\ prog = "prodcons6" => C6!ItemsAccounted /\ C6!CountsAddUp
             /\ IsArray => Arr!ItemsCounted
             /\ prog = "mycat2" => Cat!BuffersApart

(***************************************************************************)
(* The signal of prodcons6.c:81-83, sent only when the counter was 0, is   *)
(* enough: the consumer does not sleep while something is ready.           *)
(***************************************************************************)
SleepsOnlyOnNothing == prog = "prodcons6" => C6!SleepsOnlyOnNothing

(***************************************************************************)
(* Runs of prodcons1 share no semaphore, and a name that a dead run has    *)
(* left is an end for all runs after it, unless one is started with no     *)
(* items: it uses no semaphore, and removes the names of the others.       *)
(***************************************************************************)
NamesApart == [][prog = "prodcons1" => P1!NoneShared /\ P1!RemovesOwn /\ P1!LeftForGood]_pvars

\* The queue that the program which runs stands for.
QueueNext  == CASE prog = "prodcons3" -> P3!NextItem [] prog = "prodcons4" -> P4!NextItem
                [] prog = "mycat2" -> nput [] OTHER -> 0
QueueItems == CASE prog = "prodcons3" -> P3!OnTheWay [] prog = "prodcons4" -> P4!OnTheWay
                [] prog = "mycat2" -> Cat!OnTheWay [] OTHER -> << >>
QueueOut   == CASE prog = "prodcons3" -> P3!LastOut [] prog = "prodcons4" -> P4!LastOut
                [] prog = "mycat2" -> taken [] OTHER -> -1
ManyFifo   == INSTANCE Fifo WITH next <- QueueNext, chan <- QueueItems, out <- QueueOut

(***************************************************************************)
(* prodcons3, prodcons4 and mycat2 implement the same bounded queue as     *)
(* prodcons2: each item passes once, in order, with at most NBUFF under    *)
(* way.                                                                    *)
(***************************************************************************)
ManyImplementFifo == ManyFifo!Spec

(***************************************************************************)
(* All threads return, so that main gets through its joins: producers find *)
(* that all is put, consumers that all is taken, and each hands on what    *)
(* lets the next one find out (prodcons3.c:78-82, prodcons4.c:88-93,       *)
(* 116-120); but mycat2 of a file that cannot be read never ends, as read  *)
(* never returns 0 (mycat2.c:74).                                          *)
(***************************************************************************)
AllEnd == (prog = "mycat2" => nputval # Cat!Failed) => <>Ended
=============================================================================
