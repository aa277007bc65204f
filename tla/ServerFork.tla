----------------------------- MODULE ServerFork -----------------------------
(***************************************************************************)
(* codes/4.PipeAndFifos/1snc/serverfork.c, the concurrent server: it opens *)
(* the server FIFO once and forks a child for each request it reads.       *)
(***************************************************************************)
EXTENDS FifoService

VARIABLES server,   \* where the server is
          rnum,     \* what its last read returned: -1 none yet, 0, or 64
          dropped   \* the clients for whose request fork failed

own  == <<server, rnum, dropped>>
vars == <<names, fifo, service, client, own>>

Init == FifoInit /\ server = "mkfifo" /\ rnum = -1 /\ dropped = {}

ServerGoto(from, to) == server = from /\ server' = to

MakeFifo == ServerGoto("mkfifo", "open") /\ Mkfifo /\ UNCHANGED <<rnum, dropped>>
Open     == ServerGoto("open", "read") /\ OpenRead /\ UNCHANGED <<rnum, dropped>>

\* A request is read and a child starts; the parent goes on.
ForkCloses(c) == /\ server = "read" /\ reader = "open" /\ data # << >> /\ c = Head(data)
                 /\ reader' = "closed" /\ data' = << >> /\ rnum' = 64
                 /\ lost' = lost \cup Elements(Tail(data))
                 /\ Job(c, "none", "open_client")
                 /\ UNCHANGED <<names, writers, wrote, client, server, dropped>>
Fork(c) == /\ server = "read" /\ ReadRequest(c) /\ rnum' = 64
           /\ Job(c, "none", "open_client")
           /\ UNCHANGED <<server, dropped>>
\* fork returns -1: nothing is done with the request.
ForkFails(c) == /\ server = "read" /\ ReadRequest(c) /\ rnum' = 64
                /\ dropped' = dropped \cup {c}
                /\ UNCHANGED <<server, job>>
\* No data and no writer: read returns 0, and the loop goes round.
ReadNothing == /\ server = "read" /\ reader = "open" /\ data = << >> /\ writers = {}
               /\ rnum' = 0
               /\ UNCHANGED <<names, fifo, service, client, server, dropped>>

\* The child of the request of c.
Child(c) == Serve(c) /\ UNCHANGED own
PathFailsInParent(c) == /\ c \in nopath /\ Job(c, "open_path", "failed") /\ server' = "exited"
                        /\ UNCHANGED <<names, fifo, wrote, client, rnum, dropped>>
PathFails(c) == /\ c \in nopath /\ Job(c, "open_path", "failed")
                /\ UNCHANGED <<names, fifo, wrote, client, own>>

Server == MakeFifo \/ Open \/ ReadNothing \/ \E c \in Clients : Fork(c) \/ ForkFails(c)
ChildStep(c)  == Child(c) \/ PathFails(c)
ClientStep(c) == Client(c) /\ UNCHANGED own
Next == Server \/ \E c \in Clients : ChildStep(c) \/ ClientStep(c)

Spec == /\ Init /\ [][Next]_vars /\ WF_vars(Server)
        /\ \A c \in Clients : WF_vars(ChildStep(c)) /\ WF_vars(ClientStep(c))
-----------------------------------------------------------------------------
(***************************************************************************)
(* No request is discarded and no client is killed: the server keeps its   *)
(* end of the FIFO open while it serves (serverfork.c:39, 47).             *)
(***************************************************************************)
NothingLost == lost = {} /\ \A c \in Clients : pc[c] # "killed"

(***************************************************************************)
(* Every client that found the server FIFO reads to the end of its own,    *)
(* whatever the other clients ask for, unless fork failed for it           *)
(* (serverfork.c:53-86): one request that fails stops no other.            *)
(***************************************************************************)
EveryClientEnded ==
  \A c \in Clients : pc[c] \in {"end", "failed"} \/ c \in dropped

(***************************************************************************)
(* "The number of bytes read from the server FIFO is 0, which makes the    *)
(* server exit" (serverfork.c:7-8).                                        *)
(***************************************************************************)
ReadOfNothingExits == (rnum = 0) ~> (server = "exited")
=============================================================================
