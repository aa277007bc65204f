---------------------------- MODULE FifoServers ----------------------------
(***************************************************************************)
(* The three servers of codes/4.PipeAndFifos/1snc with the clients of      *)
(* client.c: server.c, which serves one client, servern.c, which serves    *)
(* them one after the other, and serverfork.c, which serves them at once;  *)
(* and the client and server in one program, over pipes (spipe.c) or FIFOs *)
(* (sfifo.c).  prog says which of them runs; the variables that only the   *)
(* others have stay as they are.                                           *)
(***************************************************************************)
EXTENDS FifoService

VARIABLES prog, server,
          cpid,            \* server, servern
          rnum, dropped    \* serverfork

Once == prog = "server"
N == INSTANCE ServerN WITH once <- Once
F == INSTANCE ServerFork

Pipes == {"spipe", "sfifo"}
P == INSTANCE PipeService WITH
       fifos <- prog = "sfifo", input <- nopath, made <- exists, held <- writers

svars == <<prog, names, fifo, service, client, server, cpid, rnum, dropped>>

ServersInit ==
  \/ prog \in {"server", "servern"} /\ N!Init /\ rnum = -1 /\ dropped = {}
  \/ prog = "serverfork" /\ F!Init /\ cpid = {}
  \/ /\ prog \in Pipes /\ P!Init
     /\ reader = "closed" /\ lost = {} /\ job = 0 /\ server = 0
     /\ cpid = {} /\ rnum = -1 /\ dropped = {}

Iterative  == UNCHANGED prog /\ prog \in {"server", "servern"} /\ UNCHANGED <<rnum, dropped>>
Concurrent == UNCHANGED prog /\ prog = "serverfork" /\ UNCHANGED cpid
Piped == UNCHANGED prog /\ prog \in Pipes /\ UNCHANGED <<reader, lost, job, server, cpid, rnum, dropped>>

ServerStep    == (Iterative /\ N!Server) \/ (Concurrent /\ F!Server) \/ (Piped /\ P!Server)
ClientStep(c) == (Iterative /\ N!ClientStep(c)) \/ (Concurrent /\ F!ClientStep(c))
ChildStep(c)  == Concurrent /\ F!ChildStep(c)
PipeClient    == Piped /\ P!Client

ServersNext == ServerStep \/ PipeClient \/ \E c \in Clients : ClientStep(c) \/ ChildStep(c)

\* Every process is scheduled.
ServersSpec == /\ ServersInit /\ [][ServersNext]_svars /\ WF_svars(ServerStep) /\ WF_svars(PipeClient)
               /\ \A c \in Clients : WF_svars(ClientStep(c)) /\ WF_svars(ChildStep(c))
-----------------------------------------------------------------------------
(***************************************************************************)
(* A client that finds the end of the answer has all of it: of a file the  *)
(* chunks (client.c:72-75, spipe.c:49), of the error its one message.      *)
(***************************************************************************)
WholeAnswer == IF prog \in Pipes THEN P!WholeReply ELSE WholeFile

(***************************************************************************)
(* The iterative servers never read 0 from their FIFO, so that sscanf      *)
(* never parses what an earlier request left in buf (servern.c:46-54).     *)
(***************************************************************************)
NeverReadsEnd == prog \in {"server", "servern"} => N!NeverReadsEnd

(***************************************************************************)
(* The server does not wait for ever to open the FIFO of a client that is  *)
(* gone (server.c, servern.c:62, serverfork.c): whoever is to be served is *)
(* about to open its end.                                                  *)
(***************************************************************************)
SenderIsThere == prog \notin Pipes => N!SenderIsThere

(***************************************************************************)
(* serverfork discards no request and kills no client (serverfork.c:39,    *)
(* 47), as the iterative servers do.                                       *)
(***************************************************************************)
NothingLost == prog = "serverfork" => F!NothingLost

(***************************************************************************)
(* Every client comes to its end: with serverfork whatever the others ask  *)
(* for, but for a failing fork; with the iterative servers unless its      *)
(* request is discarded, it is killed, or the server is gone               *)
(* (servern.c:57, 73; server.c:87; serverfork.c:53-86).  Both processes of *)
(* spipe.c end, unless the input cannot be read; of sfifo.c one waits for  *)
(* ever (spipe.c:37-64, sfifo.c:46-70).                                    *)
(***************************************************************************)
ClientsEnd == <>[](CASE prog = "serverfork" -> F!EveryClientEnded
                     [] prog \in Pipes -> P!PipesEnd
                     [] OTHER -> N!EndedOrLost)
=============================================================================
