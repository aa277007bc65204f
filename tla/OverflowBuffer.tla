--------------------------- MODULE OverflowBuffer ---------------------------
(***************************************************************************)
(* codes/13.PosixSharedMemory/client2.c and server2.c: clients put         *)
(* messages into NMESG slots of a shared memory object, and count an       *)
(* overflow where there is no slot for one; the server prints them.        *)
(*                                                                         *)
(* A message is <<client, number>>.  A client may start at any time.       *)
(* Until the server has got to its sem_init calls the memory is zero,      *)
(* which is a semaphore of value 0 on Linux; POSIX leaves both the use of  *)
(* such a semaphore and sem_init under a waiting thread undefined.         *)
(***************************************************************************)
EXTENDS Semaphore, Totals

CONSTANTS Clients, NMESG,
          Arguments,   \* the loop counts the clients may be started with
          NoClient,    \* the sender of what is in a slot never stored into
          MaxShown     \* the largest overflow count OverflowsShown is about

ASSUME OverflowAssumption == /\ IsFiniteSet(Clients) /\ NoClient \notin Clients
                             /\ NMESG \in Nat \ {0}
                             /\ Arguments \subseteq [Clients -> Nat] /\ MaxShown \in Nat

NoMessage == <<NoClient, -1>>

VARIABLES
  mutex, nempty, nstored, noverflowmutex,   \* the semaphores of struct shmstruct
  nput, noverflow, msgdata,                 \* its other members
  nloop,             \* of each client: how many messages it sends (argv[2])
  pc, i, offset,     \* of each client: place, loop counter, slot
  temp,              \* of each client: the noverflow it has read to add to
  server, index,     \* the place of the server and its index
  shown, printed,    \* what the server printed last, and how many so far
  lastnoverflow,     \* the overflow count the server printed last
  stuck,             \* clients that sleep in a sem_wait nothing will end
  lost               \* number of posts of nstored that sem_init has undone

sems    == <<mutex, nempty, nstored, noverflowmutex>>
clients == <<nput, noverflow, msgdata, pc, i, offset, temp>>
output  == <<index, shown, printed, lastnoverflow, stuck, lost>>
vars    == <<nloop, sems, clients, server, output>>

Init == /\ nloop \in Arguments
        /\ mutex = 0 /\ nempty = 0 /\ nstored = 0 /\ noverflowmutex = 0
        /\ nput = 0 /\ noverflow = 0
        /\ msgdata = [k \in 0..NMESG-1 |-> NoMessage]
        /\ pc = [c \in Clients |-> "open"] /\ i = [c \in Clients |-> 0]
        /\ offset = [c \in Clients |-> 0] /\ temp = [c \in Clients |-> 0]
        /\ server = "shm_open" /\ index = 0 /\ lastnoverflow = 0
        /\ shown = NoMessage /\ printed = 0 /\ stuck = {} /\ lost = 0

Goto(c, from, to) == pc[c] = from /\ pc' = [pc EXCEPT ![c] = to]
ServerGoto(from, to) == server = from /\ server' = to
-----------------------------------------------------------------------------
\* The start of the server; its array of offsets is read only by clients that
\* have got past nempty, which is initialised after it.
MakeObject == /\ \/ ServerGoto("shm_open", "ftruncate")
                 \/ ServerGoto("ftruncate", "init_mutex")
              /\ UNCHANGED <<sems, clients, output>>
InitMutex == /\ ServerGoto("init_mutex", "init_nempty") /\ mutex' = 1
             /\ UNCHANGED <<nempty, nstored, noverflowmutex, clients, output>>
InitEmpty == /\ ServerGoto("init_nempty", "init_nstored") /\ nempty' = NMESG
             /\ UNCHANGED <<mutex, nstored, noverflowmutex, clients, output>>
\* Clients may have put messages since nempty was initialised.
InitStored == /\ ServerGoto("init_nstored", "init_noverflowmutex")
              /\ nstored' = 0 /\ lost' = nstored
              /\ UNCHANGED <<mutex, nempty, noverflowmutex, clients, index, shown, printed,
                             lastnoverflow, stuck>>
\* A client that waits already goes on, or is forgotten.
InitOverflowMutex == /\ ServerGoto("init_noverflowmutex", "wait_nstored")
                     /\ noverflowmutex' = 1
                     /\ stuck' \in SUBSET {c \in Clients : pc[c] = "wait_overflow"}
                     /\ UNCHANGED <<mutex, nempty, nstored, clients, index, shown, printed,
                                    lastnoverflow, lost>>

\* Without an object, or one of size 0, the client dies at its first access.
Open(c) == /\ nloop[c] > 0
           /\ Goto(c, "open", IF server = "shm_open" THEN "dead" ELSE "loop")
           /\ UNCHANGED <<sems, nput, noverflow, msgdata, i, offset, temp, server, output>>
BusError(c) == /\ server = "ftruncate" /\ Goto(c, "loop", "dead")
               /\ UNCHANGED <<sems, nput, noverflow, msgdata, i, offset, temp, server, output>>

\* sem_trywait(&ptr->nempty)
TrywaitSlotKeeps(c) == /\ i[c] < nloop[c] /\ nempty > 0 /\ Goto(c, "loop", "wait_mutex")
                       /\ UNCHANGED <<sems, nput, noverflow, msgdata, i, offset, temp,
                                      server, output>>
TrywaitSlot(c) == /\ i[c] < nloop[c] /\ Goto(c, "loop", "wait_mutex") /\ SemWait(nempty)
                  /\ UNCHANGED <<mutex, nstored, noverflowmutex, nput, noverflow, msgdata,
                                 i, offset, temp, server, output>>
TrywaitFails(c) == /\ server # "ftruncate"
                   /\ i[c] < nloop[c] /\ nempty = 0 /\ Goto(c, "loop", "wait_overflow")
                   /\ UNCHANGED <<sems, nput, noverflow, msgdata, i, offset, temp, server, output>>

WaitMutex(c) == /\ Goto(c, "wait_mutex", "reserve") /\ SemWait(mutex)
                /\ UNCHANGED <<nempty, nstored, noverflowmutex, nput, noverflow, msgdata,
                               i, offset, temp, server, output>>
\* offset = ptr->msgoff[ptr->nput]; if (++(ptr->nput) >= NMESG) ptr->nput = 0;
NextSlot(k) == IF k + 1 >= NMESG THEN 0 ELSE k + 1
Reserve(c) == /\ Goto(c, "reserve", "post_mutex")
              /\ offset' = [offset EXCEPT ![c] = nput] /\ nput' = NextSlot(nput)
              /\ UNCHANGED <<sems, noverflow, msgdata, i, temp, server, output>>
PostMutex(c) == /\ Goto(c, "post_mutex", "copy") /\ SemPost(mutex)
                /\ UNCHANGED <<nempty, nstored, noverflowmutex, nput, noverflow, msgdata,
                               i, offset, temp, server, output>>
\* strcpy(&ptr->msgdata[offset], mesg), outside the mutex
Copy(c) == /\ Goto(c, "copy", "post_nstored")
           /\ msgdata' = [msgdata EXCEPT ![offset[c]] = <<c, i[c]>>]
           /\ UNCHANGED <<sems, nput, noverflow, i, offset, temp, server, output>>
PostStored(c) == /\ Goto(c, "post_nstored", "loop") /\ SemPost(nstored)
                 /\ i' = [i EXCEPT ![c] = @ + 1]
                 /\ UNCHANGED <<mutex, nempty, noverflowmutex, nput, noverflow, msgdata,
                                offset, temp, server, output>>

\* ptr->noverflow++ between its two semaphore calls; continue
NoOverflowMutex == UNCHANGED noverflowmutex
TakeOverflowMutex == SemWait(noverflowmutex)
WaitOverflow(c) == /\ c \notin stuck
                   /\ Goto(c, "wait_overflow", "read_overflow") /\ TakeOverflowMutex
                   /\ UNCHANGED <<mutex, nempty, nstored, nput, noverflow, msgdata,
                                  i, offset, temp, server, output>>
ReadOverflow(c) == /\ Goto(c, "read_overflow", "add_overflow")
                   /\ temp' = [temp EXCEPT ![c] = noverflow]
                   /\ UNCHANGED <<sems, nput, noverflow, msgdata, i, offset, server, output>>
AddOverflow(c) == /\ Goto(c, "add_overflow", "post_overflow")
                  /\ noverflow' = temp[c] + 1
                  /\ UNCHANGED <<sems, nput, msgdata, i, offset, temp, server, output>>
PostOverflow(c) == /\ Goto(c, "post_overflow", "loop") /\ SemPost(noverflowmutex)
                   /\ i' = [i EXCEPT ![c] = @ + 1]
                   /\ UNCHANGED <<mutex, nempty, nstored, nput, noverflow, msgdata,
                                  offset, temp, server, output>>

\* The loop of the server.
ServerWaitStored == /\ ServerGoto("wait_nstored", "wait_mutex") /\ SemWait(nstored)
                    /\ UNCHANGED <<mutex, nempty, noverflowmutex, clients, output>>
ServerWaitMutex == /\ ServerGoto("wait_mutex", "print") /\ SemWait(mutex)
                   /\ UNCHANGED <<nempty, nstored, noverflowmutex, clients, output>>
PrintMessage == /\ ServerGoto("print", "post_mutex")
                /\ shown' = msgdata[index] /\ printed' = printed + 1
                /\ index' = NextSlot(index)
                /\ UNCHANGED <<sems, clients, lastnoverflow, stuck, lost>>
ServerPostMutex == /\ ServerGoto("post_mutex", "post_nempty") /\ SemPost(mutex)
                   /\ UNCHANGED <<nempty, nstored, noverflowmutex, clients, output>>
ServerPostEmptyForgets == /\ ServerGoto("post_nempty", "wait_overflow")
                          /\ UNCHANGED <<sems, clients, output>>
ServerPostEmpty == /\ ServerGoto("post_nempty", "wait_overflow") /\ SemPost(nempty)
                   /\ UNCHANGED <<mutex, nstored, noverflowmutex, clients, output>>
ServerWaitOverflow == /\ ServerGoto("wait_overflow", "post_overflow") /\ SemWait(noverflowmutex)
                      /\ UNCHANGED <<mutex, nempty, nstored, clients, output>>
\* temp = ptr->noverflow, printed after the post if it has changed
ShowFirst == lastnoverflow' = IF lastnoverflow = 0 THEN noverflow ELSE lastnoverflow
ShowOverflow == lastnoverflow' = noverflow
ServerPostOverflow == /\ ServerGoto("post_overflow", "wait_nstored") /\ ShowOverflow
                      /\ SemPost(noverflowmutex)
                      /\ UNCHANGED <<mutex, nempty, nstored, clients, index, shown, printed,
                                     stuck, lost>>

Client(c) == \/ Open(c) \/ BusError(c) \/ TrywaitSlot(c) \/ TrywaitFails(c) \/ WaitMutex(c) \/ Reserve(c)
             \/ PostMutex(c) \/ Copy(c) \/ PostStored(c)
             \/ WaitOverflow(c) \/ ReadOverflow(c) \/ AddOverflow(c) \/ PostOverflow(c)
Server == \/ MakeObject \/ InitMutex \/ InitEmpty \/ InitStored \/ InitOverflowMutex
          \/ ServerWaitStored \/ ServerWaitMutex \/ PrintMessage \/ ServerPostMutex
          \/ ServerPostEmpty \/ ServerWaitOverflow \/ ServerPostOverflow

Next == (Server \/ \E c \in Clients : Client(c)) /\ UNCHANGED nloop

Spec == /\ Init /\ [][Next]_vars
        /\ WF_vars(Server /\ UNCHANGED nloop)
        /\ \A c \in Clients : WF_vars(Client(c) /\ UNCHANGED nloop)
-----------------------------------------------------------------------------
Sent == Total(i)

(***************************************************************************)
(* Every message a client is done with is in the overflow count, waits in  *)
(* nstored, has been taken by the server, or is one of those whose post    *)
(* the server's start has undone (server2.c:32): the count neither loses   *)
(* overflows of clients that meet in it (client2.c:39-41) nor counts one   *)
(* that was put, and no more posts are lost than there are slots.          *)
(***************************************************************************)
EachSentOrCounted ==
  /\ lost <= NMESG
  /\ Sent = (noverflow - Cardinality({c \in Clients : pc[c] = "post_overflow"}))
            + (nstored + lost) + printed + IF server \in {"wait_mutex", "print"} THEN 1 ELSE 0

Alone == \E c \in Clients : \A d \in Clients \ {c} : nloop[d] = 0

(***************************************************************************)
(* The messages of a client that is alone are printed in the order of      *)
(* their numbers, none twice, and only messages (client2.c:37-54,          *)
(* server2.c:39-46).                                                       *)
(***************************************************************************)
PrintsInOrder == [][Alone /\ printed' # printed => shown'[2] > shown[2]]_vars

(***************************************************************************)
(* The server takes messages out of the buffer and prints them             *)
(* (server2.c:1): a slot it prints has been stored into.                   *)
(***************************************************************************)
PrintsMessages == server = "print" => msgdata[index] # NoMessage

(***************************************************************************)
(* In the end the clients are done, but for those that were too early, and *)
(* the server waits for more (server2.c:39) with all slots free again, but *)
(* for one for each post its start has undone: those slots stay taken for  *)
(* good, and as many messages that were put are never printed.             *)
(***************************************************************************)
Drains ==
  <>[](/\ \A c \in Clients : i[c] = nloop[c] \/ pc[c] = "dead" \/ c \in stuck
       /\ nempty = NMESG - lost /\ nstored = 0 /\ server = "wait_nstored")

(***************************************************************************)
(* An overflow that has been counted when a message is there for the       *)
(* server is shown after that message, whatever the clients count          *)
(* meanwhile (server2.c:48-54); one that is counted later waits for the    *)
(* next message.                                                           *)
(***************************************************************************)
OverflowsShown ==
  \A k \in 1..MaxShown : (nstored > 0 /\ noverflow >= k) ~> lastnoverflow >= k
=============================================================================
