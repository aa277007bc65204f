---------------------------- MODULE FifoService ----------------------------
(***************************************************************************)
(* What the servers of codes/4.PipeAndFifos/1snc share: the FIFO           *)
(* /tmp/server.fifo, the clients of client.c, and the service of one       *)
(* request, which copies a file to the FIFO of its client.                 *)
(*                                                                         *)
(* A FIFO as these programs meet it: opening one end waits for the other   *)
(* end to be opened; reading waits for data, and returns 0 when there is   *)
(* none and no writer; writing with no reader kills the writer (SIGPIPE);  *)
(* what is in the FIFO is discarded when both ends are closed.  A request  *)
(* of 64 bytes is written and read whole and is known by its client.       *)
(***************************************************************************)
EXTENDS Integers, Sequences, FiniteSets

CONSTANTS Clients,
          MayMiss,    \* the clients that may ask for a file which does not exist
          Chunks      \* the length of a file in reads of 64 bytes

ASSUME FifoAssumption == /\ IsFiniteSet(Clients) /\ MayMiss \subseteq Clients
                         /\ Chunks \in Nat

VARIABLES
  nopath,         \* the clients that ask for a file which does not exist
  exists,         \* the name /tmp/server.fifo exists
  reader,         \* the read end: "closed", "opening" (open waits) or "open"
  writers,        \* the clients that have opened the write end or are doing so
  data,           \* the requests in the FIFO
  lost,           \* the clients whose request was discarded with the FIFO
  pc,             \* where each client is
  job,            \* how far the service of each client's request is
  wrote, got      \* chunks written to, and read from, each client's FIFO

names   == <<nopath, exists>>
fifo    == <<reader, writers, data, lost>>
service == <<job, wrote>>
client  == <<pc, got>>

FifoInit == /\ nopath \in SUBSET MayMiss
            /\ exists \in BOOLEAN /\ reader = "closed" /\ writers = {}
            /\ data = << >> /\ lost = {}
            /\ pc = [c \in Clients |-> "open"] /\ job = [c \in Clients |-> "none"]
            /\ wrote = [c \in Clients |-> 0] /\ got = [c \in Clients |-> 0]

Elements(s) == {s[k] : k \in 1..Len(s)}
\* The ends are now r and W: the data of a FIFO closed at both is discarded.
Ends(r, W) == /\ reader' = r /\ writers' = W
              /\ IF r = "closed" /\ W = {}
                 THEN data' = << >> /\ lost' = lost \cup Elements(data)
                 ELSE UNCHANGED <<data, lost>>
-----------------------------------------------------------------------------
(* client.c; its own FIFO exists from before the first step *)

Goto(c, from, to) == pc[c] = from /\ pc' = [pc EXCEPT ![c] = to]

\* open(serverfifo, O_WRONLY)
OpenServerFifo(c) ==
  /\ exists
  /\ IF reader = "closed"
     THEN Goto(c, "open", "opening") /\ Ends(reader, writers \cup {c})
     ELSE Goto(c, "open", "write") /\ Ends("open", writers \cup {c})
  /\ UNCHANGED <<names, service, got>>
OpenFails(c) == /\ ~exists /\ Goto(c, "open", "failed")
                /\ UNCHANGED <<names, fifo, service, got>>

WriteRequest(c) == /\ reader = "open" /\ Goto(c, "write", "close")
                   /\ data' = Append(data, c)
                   /\ UNCHANGED <<names, reader, writers, lost, service, got>>
SigPipe(c) == /\ reader # "open" /\ Goto(c, "write", "killed")
              /\ Ends(reader, writers \ {c})
              /\ UNCHANGED <<names, service, got>>
\* With O_NONBLOCK, open and read of its own FIFO return at once.
CloseServerFifoNoWait(c) == /\ Goto(c, "close", "end") /\ Ends(reader, writers \ {c})
                            /\ UNCHANGED <<names, service, got>>
CloseServerFifo(c) == /\ Goto(c, "close", "open_own") /\ Ends(reader, writers \ {c})
                      /\ UNCHANGED <<names, service, got>>

\* The loop that reads the client's FIFO up to its end.
ReadChunk(c) == /\ pc[c] = "read" /\ got[c] < wrote[c]
                /\ got' = [got EXCEPT ![c] = @ + 1]
                /\ UNCHANGED <<names, fifo, service, pc>>
ReadEnd(c) == /\ got[c] = wrote[c] /\ job[c] \in {"closed", "failed"}
              /\ Goto(c, "read", "end")
              /\ UNCHANGED <<names, fifo, service, got>>

Client(c) == \/ OpenServerFifo(c) \/ OpenFails(c) \/ WriteRequest(c) \/ SigPipe(c)
             \/ CloseServerFifo(c) \/ ReadChunk(c) \/ ReadEnd(c)
-----------------------------------------------------------------------------
(* The server's side of the FIFO and the service of the request of c *)

\* mkfifo(serverfifo): an error, because it exists, is not one.
Mkfifo == exists' = TRUE /\ UNCHANGED <<nopath, fifo, service, client>>

\* open(serverfifo, O_RDONLY): the clients whose open waits for it go on.
OpenReadNoWait == /\ reader = "closed" /\ Ends("open", writers)
                  /\ pc' = [c \in Clients |-> IF pc[c] = "opening" THEN "write" ELSE pc[c]]
                  /\ UNCHANGED <<names, service, got>>
OpenRead == /\ reader = "closed"
            /\ Ends(IF writers = {} THEN "opening" ELSE "open", writers)
            /\ pc' = [c \in Clients |-> IF pc[c] = "opening" THEN "write" ELSE pc[c]]
            /\ UNCHANGED <<names, service, got>>

Job(c, from, to) == job[c] = from /\ job' = [job EXCEPT ![c] = to]

\* read(sfd) obtains the request of c.
ReadRequest(c) == /\ reader = "open" /\ data # << >> /\ c = Head(data)
                  /\ data' = Tail(data)
                  /\ UNCHANGED <<names, reader, writers, lost, wrote, client>>

\* open of the client's FIFO, where client and server wait for each other
OpenClientFifo(c) == /\ Job(c, "open_client", "open_path")
                     /\ Goto(c, "open_own", "read")
                     /\ UNCHANGED <<names, fifo, wrote, got>>
OpenPath(c) == /\ c \notin nopath /\ Job(c, "open_path", "copy")
               /\ UNCHANGED <<names, fifo, wrote, client>>
CopyChunk(c) == /\ job[c] = "copy" /\ wrote[c] < Chunks
                /\ wrote' = [wrote EXCEPT ![c] = @ + 1]
                /\ UNCHANGED <<names, fifo, job, client>>
CopyDoneEarly(c) == wrote[c] + 1 >= Chunks
CopyDone(c) == wrote[c] >= Chunks
CloseClientFifo(c) == /\ CopyDone(c) /\ Job(c, "copy", "closed")
                      /\ UNCHANGED <<names, fifo, wrote, client>>

Serve(c) == OpenClientFifo(c) \/ OpenPath(c) \/ CopyChunk(c) \/ CloseClientFifo(c)
-----------------------------------------------------------------------------
(***************************************************************************)
(* A client that gets to the end of its loop (client.c:72-75) has read the *)
(* whole file, unless there is no such file.                               *)
(***************************************************************************)
WholeFile == \A c \in Clients \ nopath : pc[c] = "end" => got[c] = Chunks
=============================================================================
