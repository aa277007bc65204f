------------------------------ MODULE ServerN ------------------------------
(***************************************************************************)
(* codes/4.PipeAndFifos/1snc/servern.c, the iterative server: it opens the *)
(* server FIFO for every request and closes it before it serves it.        *)
(* server.c is the same program without the loop: it serves one client,    *)
(* removes the FIFO and ends.                                              *)
(***************************************************************************)
EXTENDS FifoService

VARIABLES once,     \* TRUE: server.c, FALSE: servern.c
          server,   \* where the server is
          cpid      \* the client it serves or served last; {} before the first

vars == <<names, fifo, service, client, once, server, cpid>>

Init == FifoInit /\ once \in BOOLEAN /\ server = "mkfifo" /\ cpid = {}

ServerGoto(from, to) == server = from /\ server' = to

MakeFifo == ServerGoto("mkfifo", "open") /\ Mkfifo /\ UNCHANGED cpid
Open     == ServerGoto("open", "read") /\ OpenRead /\ UNCHANGED cpid
Read     == /\ ServerGoto("read", "close")
            /\ \E c \in Clients : /\ ReadRequest(c)
                                  /\ Job(c, "none", "open_client") /\ cpid' = {c}
Close    == /\ ServerGoto("close", "serve") /\ Ends("closed", writers)
            /\ UNCHANGED <<names, service, client, cpid>>
ServeClient == /\ server = "serve" /\ \E c \in cpid : Serve(c)
               /\ UNCHANGED <<server, cpid>>
\* The file of the client cannot be opened: exit(-1).
PathFails == /\ ServerGoto("serve", "exited")
             /\ \E c \in cpid \cap nopath : Job(c, "open_path", "failed")
             /\ UNCHANGED <<names, fifo, wrote, client, cpid>>
Served == /\ server = "serve" /\ \A c \in cpid : job[c] = "closed"
          /\ server' = IF once THEN "unlink" ELSE "open"
          /\ UNCHANGED <<names, fifo, service, client, cpid>>
Unlink == /\ ServerGoto("unlink", "exited") /\ exists' = FALSE
          /\ UNCHANGED <<nopath, fifo, service, client, cpid>>

Server == /\ UNCHANGED once
          /\ \/ MakeFifo \/ Open \/ Read \/ Close
             \/ ServeClient \/ PathFails \/ Served \/ Unlink
ClientStep(c) == UNCHANGED <<once, server, cpid>> /\ Client(c)

Next == Server \/ \E c \in Clients : ClientStep(c)

Spec == Init /\ [][Next]_vars /\ WF_vars(Server) /\ \A c \in Clients : WF_vars(ClientStep(c))
-----------------------------------------------------------------------------
(***************************************************************************)
(* read never returns 0, so that sscanf never parses what an earlier       *)
(* request left in buf (servern.c:46-54): whoever let open return has      *)
(* written, or will.                                                       *)
(***************************************************************************)
NeverReadsEnd == server = "read" /\ reader = "open" => data # << >> \/ writers # {}

(***************************************************************************)
(* The server does not wait for ever to open the FIFO of a client that is  *)
(* gone (servern.c:62).                                                    *)
(***************************************************************************)
SenderIsThere ==
  \A c \in Clients : job[c] = "open_client" => pc[c] \in {"close", "open_own"}

(***************************************************************************)
(* Every client ends, unless its request is discarded in the moment when   *)
(* both ends of the FIFO are closed, it is killed because the server       *)
(* closed its end, or the server is gone (servern.c:57, 73; server.c:87).  *)
(***************************************************************************)
EndedOrLost == \/ server = "exited"
               \/ \A c \in Clients : pc[c] \in {"end", "failed", "killed"} \/ c \in lost

(***************************************************************************)
(* "Keeps on handling the requests of clients, one after the other"        *)
(* (servern.c:2): every client that asks for a file that exists reads it.  *)
(***************************************************************************)
KeepsServing ==
  \A c \in Clients : (~once /\ nopath = {} /\ pc[c] = "close") ~> (pc[c] = "end")
=============================================================================
