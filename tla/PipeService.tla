---------------------------- MODULE PipeService ----------------------------
(***************************************************************************)
(* codes/4.PipeAndFifos/spipe.c and sfifo.c: the parent, a client, sends   *)
(* the path it reads from its input to the child, a server, which sends    *)
(* the file back.  spipe.c uses two pipes and closes the ends it does not  *)
(* need, sfifo.c two FIFOs that either process keeps open for both.        *)
(*                                                                         *)
(* A read of an empty pipe waits as long as any process, the reading one   *)
(* included, holds the write end, and returns 0 then; a write that nobody  *)
(* can read kills the writer.                                              *)
(***************************************************************************)
EXTENDS Integers

CONSTANTS Chunks    \* the length of the file in reads of 512 bytes

VARIABLES
  fifos,    \* sfifo.c rather than spipe.c
  input,    \* what the client reads: nothing ("empty"), a path, or an "error" (-1)
  made,     \* the FIFOs, 1 and 2, whose names exist
  held,     \* the processes that hold each end
  data,     \* chunks in each pipe
  wrote, got,   \* chunks that the server has written and the client has read
  pc

vars == <<fifos, input, made, held, data, wrote, got, pc>>

Processes == {"client", "server"}
Ends == {"r1", "w1", "r2", "w2"}

Init == /\ fifos \in BOOLEAN /\ input \in {"empty", "path", "nopath", "error"}
        /\ made \in IF fifos THEN SUBSET {1, 2} ELSE {{}}
        /\ held = [e \in Ends |-> {}]
        /\ data = [k \in {1, 2} |-> 0] /\ wrote = 0 /\ got = 0
        /\ pc = [p \in Processes |-> IF p = "client" THEN "make1" ELSE "not_forked"]

Goto(p, from, to) == pc[p] = from /\ pc' = [pc EXCEPT ![p] = to]
\* The process ends, and with it its hold on all ends.
Ended == {"end", "no_input", "failed", "killed"}
Exit(p, from, how) == /\ Goto(p, from, how)
                      /\ held' = [e \in Ends |-> held[e] \ {p}]
                      /\ UNCHANGED <<fifos, input, made, data, wrote, got>>
Close(p, from, to, e) == /\ Goto(p, from, to)
                         /\ held' = [held EXCEPT ![e] = @ \ {p}]
                         /\ UNCHANGED <<fifos, input, made, data, wrote, got>>
-----------------------------------------------------------------------------
\* pipe, or mkfifo and open(O_RDWR); a FIFO of an earlier run is an error.
MakePipe(k, from, to) == /\ ~(fifos /\ k \in made)
                         /\ Goto("client", from, to)
                         /\ made' = IF fifos THEN made \cup {k} ELSE made
                         /\ UNCHANGED <<fifos, input, held, data, wrote, got>>
FifoExists(k, from) == fifos /\ k \in made /\ Exit("client", from, "failed")

Fork == /\ pc["client"] = "fork"
        /\ pc' = IF fifos THEN [p \in Processes |-> "read"]
                 ELSE [p \in Processes |-> IF p = "client" THEN "close_r1" ELSE "close_w1"]
        /\ held' = [e \in Ends |-> Processes]
        /\ UNCHANGED <<fifos, input, made, data, wrote, got>>
ForkFails == Exit("client", "fork", "failed")

\* The client: its input, the request, the answer up to its end.  Only 0 is
\* the end of the input: after an error the client writes -1 bytes, which the
\* write refuses, and goes on to the answer.
ClientCloses == \/ Close("client", "close_r1", "close_w2", "r1")
                \/ Close("client", "close_w2", "read", "w2")
ReadInput == \/ input = "empty" /\ Exit("client", "read", "no_input")
             \/ /\ input # "empty" /\ Goto("client", "read", "request")
                /\ UNCHANGED <<fifos, input, made, held, data, wrote, got>>
WriteRequest == /\ Goto("client", "request", "reply")
                /\ \/ input = "error" /\ UNCHANGED data
                   \/ /\ input # "error" /\ held["r1"] # {}
                      /\ data' = [data EXCEPT ![1] = @ + 1]
                /\ UNCHANGED <<fifos, input, made, held, wrote, got>>
ReadReply == /\ pc["client"] = "reply" /\ data[2] > 0
             /\ data' = [data EXCEPT ![2] = @ - 1] /\ got' = got + 1
             /\ UNCHANGED <<fifos, input, made, held, wrote, pc>>
ReplyEnds == data[2] = 0 /\ held["w2"] = {} /\ Exit("client", "reply", "end")

\* The server: the request, the file or an error, the end.
ServerCloses == \/ Close("server", "close_w1", "close_r2", "w1")
                \/ Close("server", "close_r2", "read", "r2")
ReadRequest == /\ data[1] > 0
               /\ Goto("server", "read", IF input = "path" THEN "copy" ELSE "error")
               /\ data' = [data EXCEPT ![1] = @ - 1]
               /\ UNCHANGED <<fifos, input, made, held, wrote, got>>
\* read returns 0 and buf[-1] is written: the server goes on with whatever is
\* in buf, which nobody reads, or crashes.
ReadNothing == /\ data[1] = 0 /\ held["w1"] = {}
               /\ \/ Exit("server", "read", "killed")
                  \/ /\ Goto("server", "read", "error")
                     /\ UNCHANGED <<fifos, input, made, held, data, wrote, got>>
Write(to) == /\ held["r2"] # {} /\ pc' = [pc EXCEPT !["server"] = to]
             /\ data' = [data EXCEPT ![2] = @ + 1] /\ wrote' = wrote + 1
             /\ UNCHANGED <<fifos, input, made, held, got>>
WriteError == pc["server"] = "error" /\ Write("wait")
CopyChunk == pc["server"] = "copy" /\ wrote < Chunks /\ Write("copy")
\* Nobody reads: a request is read, and an answer, so this meets the error only.
ErrorKills == held["r2"] = {} /\ Exit("server", "error", "killed")
\* waitpid(0) of a process without children returns at once.
ServerExits == \/ wrote >= Chunks /\ Exit("server", "copy", "end")
               \/ Exit("server", "wait", "end")

Client == \/ MakePipe(1, "make1", "make2") \/ FifoExists(1, "make1")
          \/ MakePipe(2, "make2", "fork") \/ FifoExists(2, "make2")
          \/ Fork \/ ForkFails \/ ClientCloses \/ ReadInput \/ WriteRequest
          \/ ReadReply \/ ReplyEnds
Server == \/ ServerCloses \/ ReadRequest \/ ReadNothing \/ WriteError \/ CopyChunk
          \/ ErrorKills \/ ServerExits
-----------------------------------------------------------------------------
(***************************************************************************)
(* The client gets to the end of the answer only when it has read all of   *)
(* it (spipe.c:49), so that each process has closed the ends it does not   *)
(* need by then; with the FIFOs of sfifo.c it never gets there, because it *)
(* can write to fifo2 itself (sfifo.c:35, 57).                             *)
(***************************************************************************)
WholeReply == pc["client"] = "end" =>
  ~fifos /\ input \notin {"empty", "error"} /\ got = IF input = "path" THEN Chunks ELSE 1

Failed == pc["client"] = "failed"
WaitsForEver == pc["client"] = "reply" /\ data[2] = 0 /\ got = wrote

(***************************************************************************)
(* Both processes of spipe.c end, but for a client that cannot read its    *)
(* input: it takes the error for a path, sends nothing, and the two wait   *)
(* for each other for ever (spipe.c:43-49, 62).  Of sfifo.c one process    *)
(* ends at most: the client waits for more when it has the whole answer,   *)
(* and the server waits for ever when the client had no input, or none     *)
(* that it could read (sfifo.c:51-57, 68).                                 *)
(***************************************************************************)
PipesEnd ==
  \/ Failed
  \/ ~fifos /\ input # "error" /\ \A p \in Processes : pc[p] \in Ended
  \/ fifos /\ input = "empty" /\ pc["client"] = "no_input" /\ pc["server"] = "read"
  \/ fifos /\ input \in {"path", "nopath"} /\ pc["server"] = "end" /\ WaitsForEver
  \/ input = "error" /\ pc["server"] = "read" /\ data[1] = 0 /\ WaitsForEver
=============================================================================
