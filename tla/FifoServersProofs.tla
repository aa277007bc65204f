------------------------- MODULE FifoServersProofs -------------------------
(***************************************************************************)
(* Theorems of FifoServers for any number of clients, any of them asking   *)
(* for a file that does not exist, and files of any length.  The invariant *)
(* says where every request is, which ties what a client does to how far   *)
(* the service of its request is, and for the programs over pipes which    *)
(* process holds which end.                                                *)
(***************************************************************************)
EXTENDS FifoServers, TLAPS

Places == {"open", "opening", "write", "close", "open_own", "read", "end", "failed", "killed"}
Jobs   == {"none", "open_client", "open_path", "copy", "closed", "failed"}

FifoTypes == /\ pc \in [Clients -> Places] /\ job \in [Clients -> Jobs]
             /\ wrote \in [Clients -> Nat] /\ got \in [Clients -> Nat]
             /\ data \in Seq(Clients)

\* Who holds the write end of the server's FIFO, or waits to open it.
WritersAre == writers = {c \in Clients : pc[c] \in {"opening", "write", "close"}}

\* A request is in the FIFO once, and only before it is served; a client that
\* has not closed its end since it wrote has its request there, in service or
\* given up by a fork that failed.
Queued(c) == \E k \in 1 .. Len(data) : data[k] = c
Requests ==
  /\ \A j, k \in 1 .. Len(data) : data[j] = data[k] => j = k
  /\ \A c \in Clients : Queued(c) => job[c] = "none" /\ pc[c] \in {"close", "open_own"}
  /\ \A c \in Clients : pc[c] = "close" /\ job[c] = "none" => Queued(c) \/ c \in dropped

\* Client and service go together.
InStep(c) == CASE job[c] = "none" -> pc[c] \notin {"read", "end"}
               [] job[c] = "open_client" -> pc[c] \in {"close", "open_own"}
               [] job[c] \in {"open_path", "copy"} -> pc[c] = "read"
               [] OTHER -> pc[c] \in {"read", "end"}
Answer(c) == /\ got[c] <= wrote[c] /\ wrote[c] <= Chunks
             /\ job[c] \in {"copy", "closed"} => c \notin nopath
             /\ job[c] \notin {"copy", "closed"} => wrote[c] = 0
             /\ job[c] = "failed" => c \in nopath
             /\ job[c] = "closed" => wrote[c] = Chunks
             /\ pc[c] = "end" => got[c] = wrote[c]

FifoInv == /\ FifoTypes /\ WritersAre /\ Requests
           /\ \A c \in Clients : InStep(c) /\ Answer(c)

\* server.c and servern.c serve one client at a time.
Idle(c) == job[c] \in {"none", "closed"}
OneServed ==
  /\ dropped = {} /\ cpid \subseteq Clients
  /\ server \in {"mkfifo", "open", "read", "unlink"} => \A c \in Clients : Idle(c)
  /\ server \in {"close", "serve"} => \A c \in Clients \ cpid : Idle(c)
  /\ server = "read" /\ reader = "open" => data # << >> \/ writers # {}

\* serverfork.c: until its end of the FIFO is open nobody has got past open.
KeepsOpen == /\ lost = {} /\ \A c \in Clients : pc[c] # "killed"
             /\ reader # "open" => \A c \in Clients : pc[c] \in {"open", "opening", "failed"}
-----------------------------------------------------------------------------
(* spipe.c and sfifo.c *)

PipeTypes ==
  /\ nopath \in {"empty", "path", "nopath", "error"}
  /\ pc \in [P!Processes -> {"make1", "make2", "fork", "close_r1", "close_w2", "close_w1",
                             "close_r2", "read", "request", "reply", "copy", "error", "wait",
                             "not_forked"} \cup P!Ended]
  /\ data \in [{1, 2} -> Nat] /\ wrote \in Nat /\ got \in Nat
  /\ writers \in [P!Ends -> SUBSET P!Processes]

BeforeFork == {"make1", "make2", "fork"}
Talks  == {"close_r1", "close_w2", "read", "request", "reply"}
Serves == {"close_w1", "close_r2", "read", "copy", "error", "wait"}

\* Who must hold which end.
EndsHeld ==
  /\ pc["client"] \in Talks => /\ "client" \in writers["w1"] /\ "client" \in writers["r2"]
                               /\ prog = "sfifo" => "client" \in writers["w2"]
                               /\ pc["server"] # "not_forked"
  /\ pc["server"] \in Serves => "server" \in writers["w2"]
  /\ pc["server"] \notin P!Ended \cup {"not_forked"} => pc["server"] \in Serves
  /\ pc["client"] \in BeforeFork \cup {"failed"} <=> pc["server"] = "not_forked"
  /\ pc["client"] # "killed"
  /\ prog = "sfifo" => pc["client"] \notin {"close_r1", "close_w2"}
  /\ pc["client"] \notin P!Ended \cup BeforeFork => pc["client"] \in Talks

AnswerLength == IF nopath = "path" THEN Chunks ELSE 1

NotAsked == {"not_forked", "close_w1", "close_r2", "read"}

\* How much of the answer is written, unless the client has no input; a client
\* that cannot read its input sends no request.
ReplySoFar ==
  /\ wrote = got + data[2]
  /\ pc["client"] = "no_input" => nopath = "empty"
  /\ pc["client"] \in {"request", "reply", "end"} => nopath # "empty"
  /\ nopath = "error" => data[1] = 0 /\ pc["server"] \in NotAsked
  /\ nopath # "empty" =>
       /\ pc["server"] \in NotAsked => wrote = 0
       /\ pc["server"] = "copy" => nopath = "path" /\ wrote <= Chunks
       /\ pc["server"] = "error" => nopath = "nopath" /\ wrote = 0
       /\ pc["server"] \in {"wait", "end"} => wrote = AnswerLength
       /\ pc["server"] = "wait" => nopath = "nopath"
       /\ pc["server"] \notin {"killed", "no_input", "failed"}

PipeInv == /\ PipeTypes /\ EndsHeld /\ ReplySoFar /\ P!WholeReply
           /\ pc["client"] = "end" => pc["server"] \in P!Ended

IInv == /\ prog \in {"server", "servern", "serverfork"} \cup Pipes
        /\ prog \in Pipes => PipeInv
        /\ prog \notin Pipes => FifoInv
        /\ prog \in {"server", "servern"} => OneServed
        /\ prog = "serverfork" => KeepsOpen
-----------------------------------------------------------------------------
(* The operators that the servers share are the same in each of them. *)

LEMMA SameClient ==
  ASSUME NEW c
  PROVE  (N!Client(c) <=> Client(c)) /\ (F!Client(c) <=> Client(c))
BY DEF Client, OpenServerFifo, OpenFails, WriteRequest, SigPipe, CloseServerFifo, ReadChunk,
       ReadEnd, Goto, Ends, Elements, names, fifo, service, client,
       N!Client, N!OpenServerFifo, N!OpenFails, N!WriteRequest, N!SigPipe, N!CloseServerFifo,
       N!ReadChunk, N!ReadEnd, N!Goto, N!Ends, N!Elements, N!names, N!fifo, N!service, N!client,
       F!Client, F!OpenServerFifo, F!OpenFails, F!WriteRequest, F!SigPipe, F!CloseServerFifo,
       F!ReadChunk, F!ReadEnd, F!Goto, F!Ends, F!Elements, F!names, F!fifo, F!service, F!client

LEMMA SameServe ==
  ASSUME NEW c
  PROVE  (N!Serve(c) <=> Serve(c)) /\ (F!Serve(c) <=> Serve(c))
BY DEF Serve, OpenClientFifo, OpenPath, CopyChunk, CloseClientFifo, CopyDone, Job, Goto,
       names, fifo, service, client,
       N!Serve, N!OpenClientFifo, N!OpenPath, N!CopyChunk, N!CloseClientFifo, N!CopyDone, N!Job,
       N!Goto, N!names, N!fifo, N!service, N!client,
       F!Serve, F!OpenClientFifo, F!OpenPath, F!CopyChunk, F!CloseClientFifo, F!CopyDone, F!Job,
       F!Goto, F!names, F!fifo, F!service, F!client

LEMMA SameServer ==
  ASSUME NEW c
  PROVE  /\ (N!Mkfifo <=> Mkfifo) /\ (F!Mkfifo <=> Mkfifo)
         /\ (N!OpenRead <=> OpenRead) /\ (F!OpenRead <=> OpenRead)
         /\ (N!ReadRequest(c) <=> ReadRequest(c)) /\ (F!ReadRequest(c) <=> ReadRequest(c))
BY DEF Mkfifo, OpenRead, ReadRequest, Ends, Elements, names, fifo, service, client,
       N!Mkfifo, N!OpenRead, N!ReadRequest, N!Ends, N!Elements, N!names, N!fifo, N!service,
       N!client, F!Mkfifo, F!OpenRead, F!ReadRequest, F!Ends, F!Elements, F!names, F!fifo,
       F!service, F!client
-----------------------------------------------------------------------------
(* The steps of a client *)

\* A client goes from one place to another; the FIFO stays or is discarded.
LEMMA ClientGoes ==
  ASSUME FifoInv, NEW c \in Clients, NEW to \in Places, pc' = [pc EXCEPT ![c] = to],
         UNCHANGED <<nopath, service, got, dropped>>,
         writers' = IF to \in {"opening", "write", "close"} THEN writers \cup {c}
                    ELSE writers \ {c},
         data' = data \/ (data' = << >> /\ writers' = {}),
         Queued(c) => to \in {"close", "open_own"},
         to = "close" => Queued(c),
         CASE job[c] = "none" -> to \notin {"read", "end"}
           [] job[c] = "open_client" -> to \in {"close", "open_own"}
           [] job[c] \in {"open_path", "copy"} -> to = "read"
           [] OTHER -> to \in {"read", "end"},
         to = "end" => got[c] = wrote[c]
  PROVE  FifoInv'
<1> USE DEF FifoInv
<1>1. UNCHANGED <<job, wrote, got, nopath, dropped>>
  BY DEF service
<1>2. /\ (pc')[c] = to /\ pc' \in [Clients -> Places]
      /\ \A d \in Clients \ {c} : (pc')[d] = pc[d]
  BY DEF FifoTypes
<1>3. FifoTypes'
  <2>1. << >> \in Seq(Clients)
    OBVIOUS
  <2> QED
    BY <1>1, <1>2, <2>1 DEF FifoTypes
<1>4. WritersAre'
  BY <1>2 DEF WritersAre
<1>5. Requests'
  <2>1. CASE data' = data
    BY <1>1, <1>2, <2>1 DEF Requests, Queued
  <2>2. CASE data' = << >> /\ writers' = {}
    <3>1. \A d : ~Queued(d)'
      BY <2>2 DEF Queued
    <3>2. \A d \in Clients : (pc')[d] # "close"
      BY <1>4, <2>2 DEF WritersAre
    <3>3. \A j, k \in 1 .. Len(data') : (data')[j] = (data')[k] => j = k
      BY <2>2
    <3> QED
      BY <3>1, <3>2, <3>3 DEF Requests
  <2> QED
    BY <2>1, <2>2
<1>6. \A d \in Clients : InStep(d)' /\ Answer(d)'
  BY <1>1, <1>2 DEF InStep, Answer
<1> QED
  BY <1>3, <1>4, <1>5, <1>6

LEMMA ClientStepFifo ==
  ASSUME FifoInv, NEW c \in Clients, Client(c), UNCHANGED dropped
  PROVE  FifoInv'
<1> USE DEF FifoInv
<1>0. /\ pc[c] \in Places /\ InStep(c)
      /\ Queued(c) => job[c] = "none" /\ pc[c] \in {"close", "open_own"}
  BY DEF FifoTypes, Requests
<1>1. CASE OpenServerFifo(c)
  <2>1. PICK to \in {"opening", "write"} :
          /\ pc[c] = "open" /\ pc' = [pc EXCEPT ![c] = to] /\ UNCHANGED <<names, service, got>>
          /\ writers' = writers \cup {c} /\ data' = data
    BY <1>1 DEF OpenServerFifo, Goto, Ends
  <2>2. job[c] = "none" /\ ~Queued(c)
    BY <1>0, <2>1 DEF InStep, FifoTypes, Jobs
  <2> QED
    BY <2>1, <2>2, ClientGoes DEF Places, names
<1>2. CASE OpenFails(c)
  <2>1. /\ pc[c] = "open" /\ pc' = [pc EXCEPT ![c] = "failed"]
        /\ UNCHANGED <<names, service, got, writers, data>>
    BY <1>2 DEF OpenFails, Goto, fifo
  <2>2. job[c] = "none" /\ ~Queued(c)
    BY <1>0, <2>1 DEF InStep, FifoTypes, Jobs
  <2>3. writers' = writers \ {c}
    BY <2>1 DEF WritersAre
  <2> QED
    BY <2>1, <2>2, <2>3, ClientGoes DEF Places, names
<1>3. CASE WriteRequest(c)
  <2>1. /\ pc[c] = "write" /\ pc' = [pc EXCEPT ![c] = "close"] /\ data' = Append(data, c)
        /\ UNCHANGED <<nopath, writers, job, wrote, got>>
    BY <1>3 DEF WriteRequest, Goto, names, service
  <2>2. job[c] = "none" /\ ~Queued(c)
    BY <1>0, <2>1 DEF InStep, FifoTypes, Jobs
  <2>3. /\ (pc')[c] = "close" /\ pc' \in [Clients -> Places]
        /\ \A d \in Clients \ {c} : (pc')[d] = pc[d]
    BY <2>1 DEF FifoTypes, Places
  <2>4. /\ data' \in Seq(Clients) /\ Len(data') = Len(data) + 1 /\ (data')[Len(data) + 1] = c
        /\ \A k \in 1 .. Len(data) : (data')[k] = data[k]
        /\ Len(data) \in Nat
    BY <2>1 DEF FifoTypes
  <2>5. FifoTypes' /\ WritersAre'
    <3>1. FifoTypes'
      BY <2>1, <2>3, <2>4 DEF FifoTypes
    <3>2. WritersAre'
      BY <2>1, <2>3 DEF WritersAre
    <3> QED
      BY <3>1, <3>2
  <2>6. \A d \in Clients : Queued(d)' <=> Queued(d) \/ d = c
    BY <2>4 DEF Queued
  <2>7. \A j, k \in 1 .. Len(data') : (data')[j] = (data')[k] => j = k
    BY <2>2, <2>4 DEF Requests, Queued
  <2>8. Requests'
    BY <2>1, <2>2, <2>3, <2>6, <2>7 DEF Requests
  <2>9. \A d \in Clients : InStep(d)' /\ Answer(d)'
    BY <2>1, <2>2, <2>3 DEF InStep, Answer
  <2> QED
    BY <2>5, <2>8, <2>9
<1>4. CASE SigPipe(c)
  <2>1. /\ pc[c] = "write" /\ pc' = [pc EXCEPT ![c] = "killed"]
        /\ UNCHANGED <<names, service, got>> /\ writers' = writers \ {c}
        /\ data' = data \/ (data' = << >> /\ writers' = {})
    BY <1>4 DEF SigPipe, Goto, Ends
  <2>2. job[c] = "none" /\ ~Queued(c)
    BY <1>0, <2>1 DEF InStep, FifoTypes, Jobs
  <2> QED
    BY <2>1, <2>2, ClientGoes DEF Places, names
<1>5. CASE CloseServerFifo(c)
  <2>1. /\ pc[c] = "close" /\ pc' = [pc EXCEPT ![c] = "open_own"]
        /\ UNCHANGED <<names, service, got>> /\ writers' = writers \ {c}
        /\ data' = data \/ (data' = << >> /\ writers' = {})
    BY <1>5 DEF CloseServerFifo, Goto, Ends
  <2>2. job[c] \in {"none", "open_client"}
    BY <1>0, <2>1 DEF InStep, FifoTypes, Jobs
  <2> QED
    BY <2>1, <2>2, ClientGoes DEF Places, names
<1>6. CASE ReadChunk(c)
  <2>1. /\ UNCHANGED <<nopath, writers, data, job, wrote, pc>> /\ pc[c] = "read"
        /\ got[c] < wrote[c] /\ got' = [got EXCEPT ![c] = got[c] + 1]
    BY <1>6 DEF ReadChunk, names, fifo, service
  <2>2. FifoTypes' /\ WritersAre' /\ Requests'
    BY <2>1 DEF FifoTypes, WritersAre, Requests, Queued
  <2>3. \A d \in Clients : InStep(d)' /\ Answer(d)'
    BY <2>1 DEF FifoTypes, InStep, Answer
  <2> QED
    BY <2>2, <2>3
<1>7. CASE ReadEnd(c)
  <2>1. /\ UNCHANGED <<names, service, got, writers, data>>
        /\ pc[c] = "read" /\ pc' = [pc EXCEPT ![c] = "end"]
        /\ got[c] = wrote[c] /\ job[c] \in {"closed", "failed"}
    BY <1>7 DEF ReadEnd, Goto, fifo
  <2>2. ~Queued(c) /\ writers' = writers \ {c}
    BY <1>0, <2>1 DEF WritersAre
  <2> QED
    BY <2>1, <2>2, ClientGoes DEF Places, names
<1> QED
  BY <1>1, <1>2, <1>3, <1>4, <1>5, <1>6, <1>7 DEF Client
-----------------------------------------------------------------------------
(* The steps of a server and of the service of a request *)

LEMMA OpenReadFifo ==
  ASSUME FifoInv, OpenRead, UNCHANGED dropped
  PROVE  FifoInv'
<1> USE DEF FifoInv
<1>1. UNCHANGED <<nopath, writers, data, job, wrote, got>>
  BY DEF OpenRead, Ends, names, service
<1>2. \A c \in Clients : (pc')[c] = IF pc[c] = "opening" THEN "write" ELSE pc[c]
  BY DEF OpenRead
<1>3. pc' \in [Clients -> Places]
  BY DEF OpenRead, FifoTypes, Places
<1>4. FifoTypes'
  BY <1>1, <1>3 DEF FifoTypes
<1>5. WritersAre'
  BY <1>1, <1>2 DEF WritersAre
<1>6. Requests'
  BY <1>1, <1>2 DEF Requests, Queued
<1>7. \A c \in Clients : InStep(c)' /\ Answer(c)'
  BY <1>1, <1>2 DEF InStep, Answer
<1> QED
  BY <1>4, <1>5, <1>6, <1>7

LEMMA ReadRequestFifo ==
  ASSUME FifoInv, NEW c \in Clients, ReadRequest(c),
         \/ Job(c, "none", "open_client") /\ UNCHANGED dropped
         \/ UNCHANGED job /\ dropped' = dropped \cup {c}
  PROVE  FifoInv'
<1> USE DEF FifoInv
<1>1. /\ UNCHANGED <<nopath, writers, wrote, pc, got>>
      /\ data # << >> /\ c = Head(data) /\ data' = Tail(data)
  BY DEF ReadRequest, names, client
<1>2. /\ Len(data) \in Nat \ {0} /\ c = data[1]
      /\ data' \in Seq(Clients) /\ Len(data') = Len(data) - 1
      /\ \A k \in 1 .. Len(data') : (data')[k] = data[k + 1]
  BY <1>1 DEF FifoTypes
<1>3. Queued(c) /\ job[c] = "none" /\ pc[c] \in {"close", "open_own"}
  <2>1. Queued(c)
    BY <1>2 DEF Queued
  <2> QED
    BY <2>1 DEF Requests
<1>4. \A d \in Clients : Queued(d)' <=> Queued(d) /\ d # c
  <2>1. ASSUME NEW d \in Clients, Queued(d)' PROVE Queued(d) /\ d # c
    <3>1. PICK k \in 1 .. Len(data') : (data')[k] = d
      BY <2>1 DEF Queued
    <3>2. k + 1 \in 1 .. Len(data) /\ data[k + 1] = d /\ k + 1 # 1 /\ 1 \in 1 .. Len(data)
      BY <1>2, <3>1
    <3>3. data[k + 1] # data[1]
      BY <3>2 DEF Requests
    <3> QED
      BY <1>2, <3>2, <3>3 DEF Queued
  <2>2. ASSUME NEW d \in Clients, Queued(d), d # c PROVE Queued(d)'
    <3>1. PICK k \in 1 .. Len(data) : data[k] = d
      BY <2>2 DEF Queued
    <3>2. k - 1 \in 1 .. Len(data') /\ (data')[k - 1] = data[k]
      BY <1>2, <2>2, <3>1
    <3> QED
      BY <3>1, <3>2 DEF Queued
  <2> QED
    BY <2>1, <2>2
<1>5. job' \in [Clients -> Jobs] /\ \A d \in Clients \ {c} : (job')[d] = job[d]
  BY DEF Job, FifoTypes, Jobs
<1>6. (job')[c] = "open_client" \/ ((job')[c] = "none" /\ c \in dropped')
  BY <1>3 DEF Job, FifoTypes
<1>7. dropped \subseteq dropped'
  OBVIOUS
<1>8. FifoTypes' /\ WritersAre'
  <2>1. FifoTypes'
    BY <1>1, <1>2, <1>5 DEF FifoTypes
  <2>2. WritersAre'
    BY <1>1 DEF WritersAre
  <2> QED
    BY <2>1, <2>2
<1>9. Requests'
  <2>1. \A j, k \in 1 .. Len(data') : (data')[j] = (data')[k] => j = k
    <3> SUFFICES ASSUME NEW j \in 1 .. Len(data'), NEW k \in 1 .. Len(data'),
                        (data')[j] = (data')[k]
                 PROVE  j = k
      OBVIOUS
    <3>1. j + 1 \in 1 .. Len(data) /\ k + 1 \in 1 .. Len(data) /\ data[j + 1] = data[k + 1]
      BY <1>2
    <3>2. j + 1 = k + 1
      BY <3>1 DEF Requests
    <3> QED
      BY <3>2
  <2>2. \A d \in Clients : Queued(d)' => (job')[d] = "none" /\ (pc')[d] \in {"close", "open_own"}
    BY <1>1, <1>4, <1>5 DEF Requests
  <2>3. \A d \in Clients : (pc')[d] = "close" /\ (job')[d] = "none"
                           => Queued(d)' \/ d \in dropped'
    BY <1>1, <1>4, <1>5, <1>6, <1>7 DEF Requests
  <2> QED
    BY <2>1, <2>2, <2>3 DEF Requests
<1>10. \A d \in Clients : InStep(d)' /\ Answer(d)'
  BY <1>1, <1>3, <1>5, <1>6 DEF InStep, Answer
<1> QED
  BY <1>8, <1>9, <1>10

LEMMA CloseFifo ==
  ASSUME FifoInv, Ends("closed", writers), UNCHANGED <<names, service, client, dropped>>
  PROVE  FifoInv'
<1> USE DEF FifoInv
<1>1. /\ UNCHANGED <<nopath, writers, pc, job, wrote, got, dropped>>
      /\ data' = data \/ (data' = << >> /\ writers = {})
  BY DEF Ends, names, service, client
<1>2. FifoTypes' /\ WritersAre'
  <2>1. << >> \in Seq(Clients)
    OBVIOUS
  <2>2. FifoTypes'
    BY <1>1, <2>1 DEF FifoTypes
  <2>3. WritersAre'
    BY <1>1 DEF WritersAre
  <2> QED
    BY <2>2, <2>3
<1>3. Requests'
  <2>1. CASE data' = data
    BY <1>1, <2>1 DEF Requests, Queued
  <2>2. CASE data' = << >> /\ writers = {}
    BY <1>1, <2>2 DEF Requests, Queued, WritersAre
  <2> QED
    BY <1>1, <2>1, <2>2
<1>4. \A d \in Clients : InStep(d)' /\ Answer(d)'
  BY <1>1 DEF InStep, Answer
<1> QED
  BY <1>2, <1>3, <1>4

LEMMA ServeFifo ==
  ASSUME FifoInv, NEW c \in Clients, UNCHANGED dropped,
         \/ Serve(c)
         \/ c \in nopath /\ Job(c, "open_path", "failed") /\ UNCHANGED <<names, fifo, wrote, client>>
  PROVE  /\ FifoInv'
         /\ \A d \in Clients \ {c} : (job')[d] = job[d]
         /\ UNCHANGED fifo
<1> USE DEF FifoInv
<1>1. /\ UNCHANGED <<nopath, writers, data, got>> /\ UNCHANGED fifo
      /\ pc' = pc \/ (pc[c] = "open_own" /\ pc' = [pc EXCEPT ![c] = "read"])
      /\ (\E to \in Jobs : job' = [job EXCEPT ![c] = to]) \/ job' = job
      /\ wrote' = wrote \/ wrote' = [wrote EXCEPT ![c] = wrote[c] + 1]
  BY DEF Serve, OpenClientFifo, OpenPath, CopyChunk, CloseClientFifo, Goto, Job, names, fifo,
         client, Jobs
<1>2. /\ pc' \in [Clients -> Places] /\ job' \in [Clients -> Jobs] /\ wrote' \in [Clients -> Nat]
      /\ \A d \in Clients \ {c} : pc'[d] = pc[d] /\ job'[d] = job[d] /\ wrote'[d] = wrote[d]
      /\ pc'[c] = "close" <=> pc[c] = "close"
      /\ pc'[c] \in {"opening", "write"} <=> pc[c] \in {"opening", "write"}
  <2>1. pc' \in [Clients -> Places] /\ \A d \in Clients \ {c} : pc'[d] = pc[d]
    BY <1>1 DEF FifoTypes, Places
  <2>2. job' \in [Clients -> Jobs] /\ \A d \in Clients \ {c} : job'[d] = job[d]
    BY <1>1 DEF FifoTypes
  <2>3. wrote' \in [Clients -> Nat] /\ \A d \in Clients \ {c} : wrote'[d] = wrote[d]
    BY <1>1 DEF FifoTypes
  <2>4. /\ pc'[c] = "close" <=> pc[c] = "close"
        /\ pc'[c] \in {"opening", "write"} <=> pc[c] \in {"opening", "write"}
    BY <1>1 DEF FifoTypes
  <2> QED
    BY <2>1, <2>2, <2>3, <2>4
<1>3. job[c] # "none" /\ job'[c] # "none"
  BY DEF Serve, OpenClientFifo, OpenPath, CopyChunk, CloseClientFifo, Job, FifoTypes
<1>4. FifoTypes'
  BY <1>1, <1>2 DEF FifoTypes
<1>5. WritersAre'
  BY <1>1, <1>2 DEF WritersAre
<1>6. Requests'
  BY <1>1, <1>2, <1>3 DEF Requests, Queued
<1>7. InStep(c)' /\ Answer(c)'
  <2>1. CASE OpenClientFifo(c)
    BY <2>1 DEF OpenClientFifo, Job, Goto, names, FifoTypes, InStep, Answer
  <2>2. CASE OpenPath(c)
    BY <2>2 DEF OpenPath, Job, names, client, FifoTypes, InStep, Answer
  <2>3. CASE CopyChunk(c)
    BY <2>3, FifoAssumption DEF CopyChunk, names, client, FifoTypes, InStep, Answer
  <2>4. CASE CloseClientFifo(c)
    BY <2>4, FifoAssumption DEF CloseClientFifo, CopyDone, Job, names, client, FifoTypes, InStep,
                                Answer
  <2>5. CASE c \in nopath /\ Job(c, "open_path", "failed") /\ UNCHANGED <<names, fifo, wrote, client>>
    BY <2>5 DEF Job, names, client, FifoTypes, InStep, Answer
  <2> QED
    BY <2>1, <2>2, <2>3, <2>4, <2>5 DEF Serve
<1>8. \A d \in Clients \ {c} : InStep(d)' /\ Answer(d)'
  BY <1>1, <1>2 DEF InStep, Answer
<1> QED
  BY <1>1, <1>2, <1>4, <1>5, <1>6, <1>7, <1>8
-----------------------------------------------------------------------------
(* server.c and servern.c *)

LEMMA IterativeServer ==
  ASSUME FifoInv, OneServed, N!Server, UNCHANGED <<prog, rnum, dropped>>
  PROVE  FifoInv' /\ OneServed'
<1>1. CASE N!MakeFifo
  <2>1. Mkfifo /\ server = "mkfifo" /\ server' = "open"
    BY <1>1, SameServer DEF N!MakeFifo, N!ServerGoto
  <2>2. UNCHANGED <<nopath, reader, writers, data, pc, job, wrote, got, dropped, cpid>>
    BY <1>1, <2>1 DEF N!MakeFifo, Mkfifo, fifo, service, client
  <2>3. FifoInv'
    BY <2>2 DEF FifoInv, FifoTypes, WritersAre, Requests, Queued, InStep, Answer
  <2>4. OneServed'
    BY <2>1, <2>2 DEF OneServed, Idle
  <2> QED
    BY <2>3, <2>4
<1>2. CASE N!Open
  <2>1. OpenRead /\ server = "open" /\ server' = "read" /\ UNCHANGED cpid
    BY <1>2, SameServer DEF N!Open, N!ServerGoto
  <2>2. FifoInv'
    BY <2>1, OpenReadFifo
  <2>3. job' = job /\ (reader' = "open" => writers' # {})
    BY <2>1 DEF OpenRead, Ends, service
  <2>4. OneServed'
    BY <2>1, <2>3 DEF OneServed, Idle
  <2> QED
    BY <2>2, <2>4
<1>3. CASE N!Read
  <2>1. PICK c \in Clients : /\ ReadRequest(c) /\ Job(c, "none", "open_client")
                             /\ server = "read" /\ server' = "close" /\ cpid' = {c}
    BY <1>3, SameServer DEF N!Read, N!ServerGoto, N!Job, Job
  <2>2. FifoInv'
    BY <2>1, ReadRequestFifo
  <2>3. \A d \in Clients \ {c} : (job')[d] = job[d]
    BY <2>1 DEF Job, FifoInv, FifoTypes
  <2>4. OneServed'
    BY <2>1, <2>3 DEF OneServed, Idle
  <2> QED
    BY <2>2, <2>4
<1>4. CASE N!Close
  <2>1. /\ server = "close" /\ server' = "serve" /\ Ends("closed", writers)
        /\ UNCHANGED <<names, service, client>> /\ UNCHANGED cpid
    BY <1>4 DEF N!Close, N!ServerGoto, N!Ends, Ends, N!Elements, Elements, N!names, names,
                N!service, service, N!client, client
  <2>2. FifoInv'
    BY <2>1, CloseFifo
  <2>3. OneServed'
    BY <2>1 DEF OneServed, Idle, service
  <2> QED
    BY <2>2, <2>3
<1>5. CASE N!ServeClient
  <2>1. server = "serve" /\ UNCHANGED <<server, cpid>>
    BY <1>5 DEF N!ServeClient
  <2>2. PICK c \in cpid : Serve(c)
    BY <1>5, SameServe DEF N!ServeClient
  <2>3. c \in Clients
    BY <2>2 DEF OneServed
  <2>4. FifoInv' /\ \A d \in Clients \ {c} : (job')[d] = job[d]
    BY <2>2, <2>3, ServeFifo
  <2>5. OneServed'
    BY <2>1, <2>2, <2>4 DEF OneServed, Idle
  <2> QED
    BY <2>4, <2>5
<1>6. CASE N!PathFails
  <2>1. PICK c \in cpid \cap nopath :
          /\ Job(c, "open_path", "failed") /\ UNCHANGED <<names, fifo, wrote, client>>
          /\ server' = "exited" /\ UNCHANGED cpid
    BY <1>6 DEF N!PathFails, N!ServerGoto, N!Job, Job, N!names, names, N!fifo, fifo, N!client, client
  <2>2. c \in Clients
    BY <2>1 DEF OneServed
  <2>3. FifoInv'
    BY <2>1, <2>2, ServeFifo
  <2>4. OneServed'
    BY <2>1 DEF OneServed
  <2> QED
    BY <2>3, <2>4
<1>7. CASE N!Served
  <2>1. /\ server = "serve" /\ \A c \in cpid : job[c] = "closed"
        /\ server' \in {"unlink", "open"}
        /\ UNCHANGED <<nopath, writers, data, pc, job, wrote, got, cpid>>
    BY <1>7 DEF N!Served, N!names, N!fifo, N!service, N!client
  <2>2. FifoInv'
    BY <2>1 DEF FifoInv, FifoTypes, WritersAre, Requests, Queued, InStep, Answer
  <2>3. OneServed'
    BY <2>1 DEF OneServed, Idle
  <2> QED
    BY <2>2, <2>3
<1>8. CASE N!Unlink
  <2>1. /\ server' = "exited"
        /\ UNCHANGED <<nopath, writers, data, pc, job, wrote, got, cpid>>
    BY <1>8 DEF N!Unlink, N!ServerGoto, N!fifo, N!service, N!client
  <2>2. FifoInv'
    BY <2>1 DEF FifoInv, FifoTypes, WritersAre, Requests, Queued, InStep, Answer
  <2>3. OneServed'
    BY <2>1 DEF OneServed
  <2> QED
    BY <2>2, <2>3
<1> QED
  BY <1>1, <1>2, <1>3, <1>4, <1>5, <1>6, <1>7, <1>8 DEF N!Server

LEMMA IterativeClient ==
  ASSUME FifoInv, OneServed, NEW c \in Clients, N!ClientStep(c), UNCHANGED <<prog, rnum, dropped>>
  PROVE  FifoInv' /\ OneServed'
<1>1. Client(c) /\ UNCHANGED <<server, cpid>>
  BY SameClient DEF N!ClientStep
<1>2. FifoInv'
  BY <1>1, ClientStepFifo
<1>3. job' = job
  BY <1>1 DEF Client, OpenServerFifo, OpenFails, WriteRequest, SigPipe, CloseServerFifo, ReadChunk,
              ReadEnd, service
<1>4. ASSUME server = "read", reader' = "open" PROVE data' # << >> \/ writers' # {}
  <2>1. CASE OpenServerFifo(c)
    BY <2>1 DEF OpenServerFifo, Ends
  <2>2. CASE WriteRequest(c)
    <3>1. data' = Append(data, c) /\ data \in Seq(Clients)
      BY <2>2 DEF WriteRequest, FifoInv, FifoTypes
    <3> QED
      BY <3>1
  <2>3. CASE SigPipe(c)
    BY <1>4, <2>3 DEF SigPipe, Ends
  <2>4. CASE CloseServerFifo(c)
    <3>1. pc[c] = "close" /\ data' = data
      BY <1>4, <2>4 DEF CloseServerFifo, Goto, Ends
    <3>2. job[c] = "none"
      BY <1>4, <3>1 DEF OneServed, Idle, FifoInv, InStep
    <3>3. Queued(c)
      BY <3>1, <3>2 DEF FifoInv, Requests, OneServed
    <3>4. data \in Seq(Clients) /\ data # << >>
      BY <3>3 DEF FifoInv, FifoTypes, Queued
    <3> QED
      BY <3>1, <3>4
  <2>5. CASE OpenFails(c) \/ ReadChunk(c) \/ ReadEnd(c)
    BY <1>4, <2>5 DEF OneServed, OpenFails, ReadChunk, ReadEnd, fifo
  <2> QED
    BY <1>1, <2>1, <2>2, <2>3, <2>4, <2>5 DEF Client
<1>5. OneServed'
  BY <1>1, <1>3, <1>4 DEF OneServed, Idle
<1> QED
  BY <1>2, <1>5
-----------------------------------------------------------------------------
(* serverfork.c *)

LEMMA ForkServer ==
  ASSUME FifoInv, KeepsOpen, F!Server, UNCHANGED <<prog, cpid>>
  PROVE  FifoInv' /\ KeepsOpen'
<1>1. CASE F!MakeFifo
  <2>1. UNCHANGED <<nopath, reader, writers, data, lost, pc, job, wrote, got, dropped>>
    BY <1>1, SameServer DEF F!MakeFifo, Mkfifo, fifo, service, client
  <2>2. FifoInv'
    BY <2>1 DEF FifoInv, FifoTypes, WritersAre, Requests, Queued, InStep, Answer
  <2> QED
    BY <2>1, <2>2 DEF KeepsOpen
<1>2. CASE F!Open
  <2>1. OpenRead /\ UNCHANGED dropped
    BY <1>2, SameServer DEF F!Open
  <2>2. FifoInv'
    BY <2>1, OpenReadFifo
  <2>3. /\ reader = "closed" /\ lost' = lost /\ reader' \in {"opening", "open"}
        /\ reader' # "open" => writers = {}
        /\ \A c \in Clients : (pc')[c] = IF pc[c] = "opening" THEN "write" ELSE pc[c]
    BY <2>1 DEF OpenRead, Ends
  <2>4. reader' # "open" => \A c \in Clients : pc[c] # "opening"
    BY <2>3 DEF FifoInv, WritersAre
  <2>5. KeepsOpen'
    BY <2>3, <2>4 DEF KeepsOpen
  <2> QED
    BY <2>2, <2>5
<1>3. CASE F!ReadNothing
  <2>1. UNCHANGED <<nopath, reader, writers, data, lost, pc, job, wrote, got, dropped>>
    BY <1>3 DEF F!ReadNothing, F!names, F!fifo, F!service, F!client
  <2>2. FifoInv'
    BY <2>1 DEF FifoInv, FifoTypes, WritersAre, Requests, Queued, InStep, Answer
  <2> QED
    BY <2>1, <2>2 DEF KeepsOpen
<1>4. ASSUME NEW c \in Clients, F!Fork(c) \/ F!ForkFails(c) PROVE FifoInv' /\ KeepsOpen'
  <2>1. /\ ReadRequest(c)
        /\ \/ Job(c, "none", "open_client") /\ UNCHANGED dropped
           \/ UNCHANGED job /\ dropped' = dropped \cup {c}
    BY <1>4, SameServer DEF F!Fork, F!ForkFails, F!Job, Job
  <2>2. FifoInv'
    BY <2>1, ReadRequestFifo
  <2>3. UNCHANGED <<reader, lost, pc>>
    BY <2>1 DEF ReadRequest, client
  <2> QED
    BY <2>2, <2>3 DEF KeepsOpen
<1> QED
  BY <1>1, <1>2, <1>3, <1>4 DEF F!Server

LEMMA ForkChild ==
  ASSUME FifoInv, KeepsOpen, NEW c \in Clients, F!ChildStep(c), UNCHANGED <<prog, cpid>>
  PROVE  FifoInv' /\ KeepsOpen'
<1>1. /\ UNCHANGED dropped
      /\ \/ Serve(c)
         \/ /\ c \in nopath /\ Job(c, "open_path", "failed")
            /\ UNCHANGED <<names, fifo, wrote, client>>
  BY SameServe DEF F!ChildStep, F!Child, F!own, F!PathFails, F!Job, Job, F!names, names, F!fifo,
                   fifo, F!client, client
<1>2. FifoInv' /\ UNCHANGED fifo
  BY <1>1, ServeFifo
<1>3. UNCHANGED <<reader, lost>>
  BY <1>2 DEF fifo
<1>4. pc' = pc \/ (pc[c] = "open_own" /\ pc' = [pc EXCEPT ![c] = "read"])
  BY <1>1 DEF Serve, OpenClientFifo, OpenPath, CopyChunk, CloseClientFifo, Goto, client
<1>5. KeepsOpen'
  BY <1>3, <1>4 DEF KeepsOpen, FifoInv, FifoTypes
<1> QED
  BY <1>2, <1>5

LEMMA ForkClient ==
  ASSUME FifoInv, KeepsOpen, NEW c \in Clients, F!ClientStep(c), UNCHANGED <<prog, cpid>>
  PROVE  FifoInv' /\ KeepsOpen'
<1>1. Client(c) /\ UNCHANGED dropped
  BY SameClient DEF F!ClientStep, F!own
<1>2. FifoInv'
  BY <1>1, ClientStepFifo
<1>3. CASE OpenServerFifo(c)
  <2>1. /\ lost' = lost
        /\ \/ reader = "closed" /\ pc' = [pc EXCEPT ![c] = "opening"]
           \/ reader' = "open" /\ pc' = [pc EXCEPT ![c] = "write"]
    BY <1>3 DEF OpenServerFifo, Goto, Ends
  <2> QED
    BY <1>2, <2>1 DEF KeepsOpen, FifoInv, FifoTypes
<1>4. CASE OpenFails(c)
  <2>1. UNCHANGED <<reader, lost>> /\ pc' = [pc EXCEPT ![c] = "failed"]
    BY <1>4 DEF OpenFails, Goto, fifo
  <2> QED
    BY <1>2, <2>1 DEF KeepsOpen, FifoInv, FifoTypes
<1>5. CASE WriteRequest(c)
  <2>1. reader = "open" /\ UNCHANGED <<reader, lost>> /\ pc' = [pc EXCEPT ![c] = "close"]
    BY <1>5 DEF WriteRequest, Goto
  <2> QED
    BY <1>2, <2>1 DEF KeepsOpen, FifoInv, FifoTypes
<1>6. CASE SigPipe(c)
  BY <1>6 DEF SigPipe, Goto, KeepsOpen
<1>7. CASE CloseServerFifo(c)
  <2>1. pc[c] = "close"
    BY <1>7 DEF CloseServerFifo, Goto
  <2>2. reader = "open"
    BY <2>1 DEF KeepsOpen
  <2>3. reader' = "open" /\ lost' = lost /\ pc' = [pc EXCEPT ![c] = "open_own"]
    BY <1>7, <2>2 DEF CloseServerFifo, Goto, Ends
  <2> QED
    BY <1>2, <2>3 DEF KeepsOpen, FifoInv, FifoTypes
<1>8. CASE ReadChunk(c)
  BY <1>2, <1>8 DEF ReadChunk, fifo, KeepsOpen
<1>9. CASE ReadEnd(c)
  <2>1. pc[c] = "read" /\ UNCHANGED <<reader, lost>> /\ pc' = [pc EXCEPT ![c] = "end"]
    BY <1>9 DEF ReadEnd, Goto, fifo
  <2> QED
    BY <1>2, <2>1 DEF KeepsOpen, FifoInv, FifoTypes
<1> QED
  BY <1>1, <1>3, <1>4, <1>5, <1>6, <1>7, <1>8, <1>9 DEF Client
-----------------------------------------------------------------------------
(* spipe.c and sfifo.c *)

LEMMA PipeClientStep ==
  ASSUME prog \in Pipes, PipeInv, P!Client, UNCHANGED prog
  PROVE  PipeInv'
<1> USE DEF PipeInv
<1>0. /\ pc["client"] \in BeforeFork \cup Talks \cup P!Ended /\ "client" \in P!Processes
      /\ "server" \in P!Processes /\ \A p \in P!Processes : p = "client" \/ p = "server"
  BY DEF EndsHeld, P!Processes
<1>1. ASSUME NEW to, NEW from \in BeforeFork, to \in BeforeFork \cup {"failed"},
             P!Goto("client", from, to), writers' \in [P!Ends -> SUBSET P!Processes],
             UNCHANGED <<nopath, data, wrote, got>>
      PROVE  PipeInv'
  <2>1. pc["client"] = from /\ pc' = [pc EXCEPT !["client"] = to] /\ pc["server"] = "not_forked"
    BY <1>1 DEF P!Goto, EndsHeld
  <2>2. /\ (pc')["client"] = to /\ (pc')["server"] = "not_forked"
        /\ to \notin Talks \cup {"end", "no_input"}
    BY <1>0, <1>1, <2>1 DEF PipeTypes, BeforeFork, Talks
  <2>3. PipeTypes'
    BY <1>1, <2>1 DEF PipeTypes, BeforeFork, P!Ended
  <2>4. EndsHeld'
    BY <1>1, <2>1, <2>2 DEF EndsHeld, Serves, BeforeFork, P!Ended
  <2>5. ReplySoFar'
    BY <1>1, <2>1, <2>2 DEF ReplySoFar, BeforeFork, AnswerLength
  <2> QED
    BY <2>2, <2>3, <2>4, <2>5 DEF P!WholeReply
<1>2. \A e : [f \in P!Ends |-> writers[f] \ {e}] \in [P!Ends -> SUBSET P!Processes]
  BY DEF PipeTypes
<1>3. CASE P!MakePipe(1, "make1", "make2") \/ P!MakePipe(2, "make2", "fork")
  BY <1>1, <1>3 DEF P!MakePipe, BeforeFork, PipeTypes
<1>4. CASE P!FifoExists(1, "make1") \/ P!FifoExists(2, "make2") \/ P!ForkFails
  BY <1>1, <1>2, <1>4 DEF P!FifoExists, P!ForkFails, P!Exit, BeforeFork
<1>5. CASE P!Fork
  <2>1. /\ pc["client"] = "fork" /\ pc["server"] = "not_forked"
        /\ writers' = [e \in P!Ends |-> P!Processes] /\ UNCHANGED <<nopath, data, wrote, got>>
    BY <1>5 DEF P!Fork, EndsHeld, BeforeFork
  <2>2. /\ pc' \in [P!Processes -> {"read", "close_r1", "close_w1"}]
        /\ IF prog = "sfifo" THEN (pc')["client"] = "read" /\ (pc')["server"] = "read"
           ELSE (pc')["client"] = "close_r1" /\ (pc')["server"] = "close_w1"
    BY <1>0, <1>5 DEF P!Fork
  <2>3. PipeTypes'
    BY <2>1, <2>2 DEF PipeTypes
  <2>4. EndsHeld'
    BY <1>0, <2>1, <2>2 DEF EndsHeld, Talks, Serves, BeforeFork, P!Ended, P!Ends
  <2>5. ReplySoFar'
    BY <2>1, <2>2 DEF ReplySoFar, NotAsked, AnswerLength
  <2> QED
    BY <2>2, <2>3, <2>4, <2>5 DEF P!WholeReply
<1>6. ASSUME NEW to \in Talks \cup {"no_input", "end"}, pc["client"] \in Talks,
             pc' = [pc EXCEPT !["client"] = to],
             writers' \in [P!Ends -> SUBSET P!Processes],
             data' \in [{1, 2} -> Nat], got' \in Nat, wrote = got' + (data')[2],
             UNCHANGED <<nopath, wrote>>, nopath = "error" => (data')[1] = 0,
             to \in Talks => /\ "client" \in (writers')["w1"] /\ "client" \in (writers')["r2"]
                             /\ prog = "sfifo" => "client" \in (writers')["w2"],
             prog = "sfifo" => to \notin {"close_r1", "close_w2"},
             "server" \in writers["w2"] => "server" \in (writers')["w2"],
             to = "no_input" => nopath = "empty",
             to \in {"request", "reply", "end"} => nopath # "empty",
             to = "end" => P!WholeReply' /\ pc["server"] \in P!Ended
      PROVE  PipeInv'
  <2>1. (pc')["client"] = to /\ (pc')["server"] = pc["server"]
    BY <1>0, <1>6 DEF PipeTypes
  <2>2. PipeTypes'
    BY <1>6 DEF PipeTypes, Talks, P!Ended
  <2>3. EndsHeld'
    <3>1. to \notin BeforeFork \cup {"failed", "killed"} /\ pc["server"] # "not_forked"
      BY <1>6 DEF EndsHeld, Talks, BeforeFork
    <3>2. (pc')["client"] \in Talks =>
            /\ "client" \in (writers')["w1"] /\ "client" \in (writers')["r2"]
            /\ prog' = "sfifo" => "client" \in (writers')["w2"]
      BY <1>6, <2>1
    <3>3. prog' = "sfifo" => (pc')["client"] \notin {"close_r1", "close_w2"}
      BY <1>6, <2>1 DEF Talks
    <3>4. (pc')["client"] \notin P!Ended \cup BeforeFork => (pc')["client"] \in Talks
      BY <1>6, <2>1 DEF P!Ended
    <3> QED
      BY <1>6, <2>1, <3>1, <3>2, <3>3, <3>4 DEF EndsHeld
  <2>4. ReplySoFar'
    BY <1>6, <2>1 DEF ReplySoFar, NotAsked, AnswerLength
  <2>5. P!WholeReply'
    BY <1>6, <2>1 DEF P!WholeReply
  <2> QED
    BY <1>6, <2>1, <2>2, <2>3, <2>4, <2>5
<1>7. CASE P!ClientCloses
  <2>1. /\ \/ pc["client"] = "close_r1" /\ pc' = [pc EXCEPT !["client"] = "close_w2"]
           \/ pc["client"] = "close_w2" /\ pc' = [pc EXCEPT !["client"] = "read"]
        /\ \/ writers' = [writers EXCEPT !["r1"] = writers["r1"] \ {"client"}]
           \/ writers' = [writers EXCEPT !["w2"] = writers["w2"] \ {"client"}]
        /\ UNCHANGED <<nopath, data, wrote, got>>
    BY <1>7 DEF P!ClientCloses, P!Close, P!Goto
  <2>2. pc["client"] \in Talks /\ prog # "sfifo"
    BY <2>1 DEF Talks, EndsHeld
  <2>3. /\ writers' \in [P!Ends -> SUBSET P!Processes]
        /\ (writers')["w1"] = writers["w1"] /\ (writers')["r2"] = writers["r2"]
        /\ "server" \in writers["w2"] => "server" \in (writers')["w2"]
    BY <2>1 DEF PipeTypes, P!Ends
  <2>4. /\ "client" \in (writers')["w1"] /\ "client" \in (writers')["r2"]
        /\ data' \in [{1, 2} -> Nat] /\ got' \in Nat /\ wrote = got' + (data')[2]
        /\ nopath = "error" => (data')[1] = 0
    BY <2>1, <2>2, <2>3 DEF EndsHeld, ReplySoFar, PipeTypes
  <2>5. "close_w2" \in Talks /\ "read" \in Talks
    BY DEF Talks
  <2> QED
    BY <1>6, <2>1, <2>2, <2>3, <2>4, <2>5
<1>8. CASE P!ReadInput
  <2>1. CASE nopath = "empty" /\ P!Exit("client", "read", "no_input")
    <3>1. /\ pc["client"] = "read" /\ pc' = [pc EXCEPT !["client"] = "no_input"]
          /\ writers' = [e \in P!Ends |-> writers[e] \ {"client"}]
          /\ UNCHANGED <<nopath, data, wrote, got>>
      BY <2>1 DEF P!Exit, P!Goto
    <3>2. /\ writers' \in [P!Ends -> SUBSET P!Processes]
          /\ "server" \in writers["w2"] => "server" \in (writers')["w2"]
      BY <3>1 DEF PipeTypes, P!Ends
    <3>3. /\ pc["client"] \in Talks /\ "no_input" \notin Talks
          /\ data' \in [{1, 2} -> Nat] /\ got' \in Nat /\ wrote = got' + (data')[2]
          /\ nopath = "error" => (data')[1] = 0
      BY <3>1 DEF Talks, ReplySoFar, PipeTypes
    <3> QED
      BY <1>6, <2>1, <3>1, <3>2, <3>3
  <2>2. CASE nopath # "empty" /\ pc["client"] = "read"
             /\ pc' = [pc EXCEPT !["client"] = "request"]
             /\ UNCHANGED <<nopath, writers, data, wrote, got>>
    <3>1. /\ pc["client"] \in Talks /\ "request" \in Talks
          /\ data' \in [{1, 2} -> Nat] /\ got' \in Nat /\ wrote = got' + (data')[2]
          /\ nopath = "error" => (data')[1] = 0
      BY <2>2 DEF Talks, ReplySoFar, PipeTypes
    <3>2. /\ writers' \in [P!Ends -> SUBSET P!Processes]
          /\ "client" \in (writers')["w1"] /\ "client" \in (writers')["r2"]
          /\ prog = "sfifo" => "client" \in (writers')["w2"]
      BY <2>2, <3>1 DEF EndsHeld, PipeTypes
    <3> QED
      BY <1>6, <2>2, <3>1, <3>2
  <2> QED
    BY <1>8, <2>1, <2>2 DEF P!ReadInput, P!Goto
<1>9. CASE P!WriteRequest \/ P!ReadReply
  <2>1. /\ pc["client"] \in {"request", "reply"} /\ pc' = [pc EXCEPT !["client"] = "reply"]
        /\ UNCHANGED <<nopath, writers, wrote>>
    BY <1>9 DEF P!WriteRequest, P!ReadReply, P!Goto, PipeTypes
  <2>2. \/ nopath # "error" /\ data' = [data EXCEPT ![1] = data[1] + 1] /\ got' = got
        \/ nopath = "error" /\ data' = data /\ got' = got
        \/ data[2] > 0 /\ data' = [data EXCEPT ![2] = data[2] - 1] /\ got' = got + 1
    BY <1>9 DEF P!WriteRequest, P!ReadReply
  <2>3. /\ data' \in [{1, 2} -> Nat] /\ got' \in Nat /\ wrote = got' + (data')[2]
        /\ nopath = "error" => (data')[1] = 0
    BY <2>2 DEF PipeTypes, ReplySoFar
  <2>4. pc["client"] \in Talks /\ "reply" \in Talks /\ nopath # "empty"
    BY <2>1 DEF Talks, ReplySoFar
  <2>5. /\ writers' \in [P!Ends -> SUBSET P!Processes]
        /\ "client" \in (writers')["w1"] /\ "client" \in (writers')["r2"]
        /\ prog = "sfifo" => "client" \in (writers')["w2"]
    BY <2>1, <2>4 DEF EndsHeld, PipeTypes
  <2> QED
    BY <1>6, <2>1, <2>3, <2>4, <2>5
<1>10. CASE P!ReplyEnds
  <2>1. /\ pc["client"] = "reply" /\ pc' = [pc EXCEPT !["client"] = "end"]
        /\ data[2] = 0 /\ writers["w2"] = {}
        /\ writers' = [e \in P!Ends |-> writers[e] \ {"client"}]
        /\ UNCHANGED <<nopath, data, wrote, got>>
    BY <1>10 DEF P!ReplyEnds, P!Exit, P!Goto
  <2>2. prog # "sfifo" /\ nopath \notin {"empty", "error"} /\ pc["server"] \in P!Ended
    BY <2>1 DEF EndsHeld, ReplySoFar, NotAsked, Talks, BeforeFork, P!Ended
  <2>3. pc["server"] = "end" /\ wrote = AnswerLength /\ got = wrote
    BY <2>1, <2>2 DEF ReplySoFar, P!Ended, PipeTypes
  <2>4. P!WholeReply'
    BY <2>1, <2>2, <2>3 DEF P!WholeReply, AnswerLength
  <2>5. /\ writers' \in [P!Ends -> SUBSET P!Processes] /\ pc["client"] \in Talks
        /\ "end" \notin Talks
        /\ data' \in [{1, 2} -> Nat] /\ got' \in Nat /\ wrote = got' + (data')[2]
        /\ nopath = "error" => (data')[1] = 0
    BY <2>1 DEF PipeTypes, Talks, ReplySoFar
  <2>6. "server" \in writers["w2"] => "server" \in (writers')["w2"]
    BY <2>1
  <2> QED
    BY <1>6, <2>1, <2>2, <2>4, <2>5, <2>6
<1> QED
  BY <1>3, <1>4, <1>5, <1>7, <1>8, <1>9, <1>10 DEF P!Client

LEMMA PipeServerStep ==
  ASSUME prog \in Pipes, PipeInv, P!Server, UNCHANGED prog
  PROVE  PipeInv'
<1> USE DEF PipeInv
<1>0. "client" \in P!Processes /\ "server" \in P!Processes
  BY DEF P!Processes
<1>1. ASSUME NEW to \in Serves \cup {"end", "killed"}, pc["server"] \in Serves,
             pc' = [pc EXCEPT !["server"] = to],
             writers' \in [P!Ends -> SUBSET P!Processes],
             \A e \in P!Ends : "client" \in writers[e] => "client" \in (writers')[e],
             to \in Serves => "server" \in (writers')["w2"],
             data' \in [{1, 2} -> Nat], wrote' \in Nat, wrote' = got + (data')[2],
             UNCHANGED <<nopath, got>>,
             nopath = "error" => (data')[1] = 0 /\ to \in NotAsked,
             nopath # "empty" =>
               /\ to # "killed"
               /\ to \in NotAsked => wrote' = 0
               /\ to = "copy" => nopath = "path" /\ wrote' <= Chunks
               /\ to = "error" => nopath = "nopath" /\ wrote' = 0
               /\ to \in {"wait", "end"} => wrote' = AnswerLength
               /\ to = "wait" => nopath = "nopath"
      PROVE  PipeInv'
  <2>1. (pc')["server"] = to /\ (pc')["client"] = pc["client"]
    BY <1>0, <1>1 DEF PipeTypes
  <2>2. to \notin {"not_forked", "no_input", "failed"} /\ pc["server"] \notin {"not_forked"} \cup P!Ended
    BY <1>1 DEF Serves, P!Ended
  <2>3. PipeTypes'
    BY <1>1 DEF PipeTypes, Serves, P!Ended
  <2>4. EndsHeld'
    <3>1. {"r2", "w1", "w2"} \subseteq P!Ends
      BY DEF P!Ends
    <3> QED
      BY <1>1, <2>1, <2>2, <3>1 DEF EndsHeld, P!Ended
  <2>5. ReplySoFar'
    BY <1>1, <2>1, <2>2 DEF ReplySoFar, NotAsked, AnswerLength
  <2>6. P!WholeReply' /\ pc["client"] # "end"
    BY <2>1, <2>2 DEF P!WholeReply
  <2> QED
    BY <2>1, <2>3, <2>4, <2>5, <2>6
<1>2. pc["server"] \in Serves =>
        /\ "server" \in writers["w2"] /\ pc["client"] \notin {"end", "failed", "killed"}
        /\ pc["client"] \in Talks \/ nopath = "empty"
  BY DEF EndsHeld, Serves, P!Ended, BeforeFork, ReplySoFar
\* Nobody but the server can be at either end: the client had no input.
<1>3. pc["server"] \in Serves /\ (writers["w1"] = {} \/ writers["r2"] = {}) => nopath = "empty"
  BY <1>2 DEF EndsHeld
<1>4. ASSUME NEW how \in {"end", "killed"}, NEW from \in Serves, P!Exit("server", from, how)
      PROVE  /\ pc["server"] = from /\ pc' = [pc EXCEPT !["server"] = how]
             /\ writers' \in [P!Ends -> SUBSET P!Processes]
             /\ \A e \in P!Ends : "client" \in writers[e] => "client" \in (writers')[e]
             /\ UNCHANGED <<nopath, data, wrote, got>>
  BY <1>4 DEF P!Exit, P!Goto, PipeTypes
<1>5. data \in [{1, 2} -> Nat] /\ wrote \in Nat /\ got \in Nat /\ wrote = got + data[2]
  BY DEF PipeTypes, ReplySoFar
<1>6. writers \in [P!Ends -> SUBSET P!Processes]
  BY DEF PipeTypes
<1>7. CASE P!ServerCloses
  <2>1. PICK to \in {"close_r2", "read"}, e \in {"w1", "r2"} :
          /\ pc["server"] \in {"close_w1", "close_r2"} /\ pc' = [pc EXCEPT !["server"] = to]
          /\ writers' = [writers EXCEPT ![e] = writers[e] \ {"server"}]
          /\ UNCHANGED <<nopath, data, wrote, got>>
    BY <1>7 DEF P!ServerCloses, P!Close, P!Goto
  <2>2. /\ writers' \in [P!Ends -> SUBSET P!Processes]
        /\ \A f \in P!Ends : "client" \in writers[f] => "client" \in (writers')[f]
        /\ (writers')["w2"] = writers["w2"]
    BY <1>6, <2>1 DEF P!Ends
  <2>3. /\ pc["server"] \in Serves /\ to \in Serves /\ to \notin {"wait", "end", "copy", "error", "killed"}
        /\ nopath # "empty" => wrote = 0
        /\ nopath = "error" => (data')[1] = 0 /\ to \in NotAsked
    BY <2>1 DEF Serves, ReplySoFar, NotAsked
  <2> QED
    BY <1>1, <1>2, <1>5, <2>1, <2>2, <2>3
<1>8. CASE P!ReadRequest
  <2>1. PICK to \in {"copy", "error"} :
          /\ to = IF nopath = "path" THEN "copy" ELSE "error"
          /\ pc["server"] = "read" /\ pc' = [pc EXCEPT !["server"] = to]
          /\ data[1] > 0 /\ data' = [data EXCEPT ![1] = data[1] - 1]
          /\ UNCHANGED <<nopath, writers, wrote, got>>
    BY <1>8 DEF P!ReadRequest, P!Goto
  <2>2. data' \in [{1, 2} -> Nat] /\ wrote' \in Nat /\ wrote' = got + (data')[2]
    BY <1>5, <2>1
  <2>3. pc["server"] \in Serves /\ to \in Serves /\ (nopath # "empty" => wrote = 0)
        /\ nopath \in {"empty", "path", "nopath"} /\ to \notin NotAsked
    BY <2>1 DEF Serves, ReplySoFar, PipeTypes, NotAsked
  <2>4. nopath # "empty" => /\ to = "copy" => nopath = "path" /\ wrote' <= Chunks
                            /\ to = "error" => nopath = "nopath" /\ wrote' = 0
    BY <2>1, <2>3, FifoAssumption
  <2>5. /\ "server" \in (writers')["w2"] /\ writers' \in [P!Ends -> SUBSET P!Processes]
        /\ \A e \in P!Ends : "client" \in writers[e] => "client" \in (writers')[e]
    BY <1>2, <1>6, <2>1, <2>3
  <2> QED
    BY <1>1, <2>1, <2>2, <2>3, <2>4, <2>5
<1>9. CASE P!ReadNothing
  <2>1. pc["server"] = "read" /\ writers["w1"] = {}
    BY <1>9 DEF P!ReadNothing, P!Exit, P!Goto
  <2>2. /\ pc["server"] \in Serves /\ {"read", "error"} \subseteq Serves /\ "killed" \notin Serves
        /\ NotAsked \cap {"error", "killed"} = {}
    BY <2>1 DEF Serves, NotAsked
  <2>3. nopath = "empty"
    BY <1>3, <2>1, <2>2
  <2>4. CASE P!Exit("server", "read", "killed")
    BY <1>1, <1>4, <1>5, <2>2, <2>3, <2>4
  <2>5. CASE P!Goto("server", "read", "error") /\ UNCHANGED <<nopath, writers, data, wrote, got>>
    BY <1>1, <1>2, <1>5, <1>6, <2>2, <2>3, <2>5 DEF P!Goto
  <2> QED
    BY <1>9, <2>4, <2>5 DEF P!ReadNothing
<1>10. CASE P!WriteError \/ P!CopyChunk
  <2>1. PICK to \in {"wait", "copy"} :
          /\ pc["server"] = IF to = "wait" THEN "error" ELSE "copy"
          /\ to = "copy" => wrote < Chunks
          /\ pc' = [pc EXCEPT !["server"] = to]
          /\ data' = [data EXCEPT ![2] = data[2] + 1] /\ wrote' = wrote + 1
          /\ UNCHANGED <<nopath, writers, got>>
    BY <1>10 DEF P!WriteError, P!CopyChunk, P!Write
  <2>2. data' \in [{1, 2} -> Nat] /\ wrote' \in Nat /\ wrote' = got + (data')[2]
    BY <1>5, <2>1
  <2>3. /\ pc["server"] \in Serves /\ to \in Serves
        /\ nopath # "empty" /\ to = "wait" => nopath = "nopath" /\ wrote' = AnswerLength
        /\ nopath # "empty" /\ to = "copy" => nopath = "path" /\ wrote' <= Chunks
        /\ nopath # "error" /\ to \notin NotAsked
    BY <2>1, <1>5, FifoAssumption DEF Serves, ReplySoFar, NotAsked, AnswerLength
  <2> QED
    BY <1>1, <1>2, <1>6, <2>1, <2>2, <2>3
<1>11. CASE P!ErrorKills
  <2>1. P!Exit("server", "error", "killed") /\ writers["r2"] = {} /\ pc["server"] = "error"
    BY <1>11 DEF P!ErrorKills, P!Exit, P!Goto
  <2>2. pc["server"] \in Serves /\ "error" \in Serves /\ "killed" \notin Serves
    BY <2>1 DEF Serves
  <2>3. nopath = "empty"
    BY <1>3, <2>1, <2>2
  <2> QED
    BY <1>1, <1>4, <1>5, <2>1, <2>2, <2>3
<1>12. CASE P!ServerExits
  <2>1. PICK from \in {"copy", "wait"} :
          P!Exit("server", from, "end") /\ (from = "copy" => wrote >= Chunks)
    BY <1>12 DEF P!ServerExits
  <2>2. pc["server"] = from /\ from \in Serves /\ "end" \notin Serves
    BY <2>1 DEF Serves, P!Exit, P!Goto
  <2>3. nopath # "error" /\ (nopath # "empty" => wrote = AnswerLength) /\ "end" \notin NotAsked
    BY <1>5, <2>1, <2>2, FifoAssumption DEF ReplySoFar, NotAsked, AnswerLength
  <2> QED
    BY <1>1, <1>4, <1>5, <2>1, <2>2, <2>3
<1> QED
  BY <1>7, <1>8, <1>9, <1>10, <1>11, <1>12 DEF P!Server
-----------------------------------------------------------------------------
LEMMA InitInvariant == ServersInit => IInv
<1> SUFFICES ASSUME ServersInit PROVE IInv
  OBVIOUS
<1>1. CASE prog \in {"server", "servern"} /\ N!Init /\ rnum = -1 /\ dropped = {}
  <2>1. /\ server = "mkfifo" /\ cpid = {} /\ reader = "closed" /\ writers = {} /\ data = << >>
        /\ pc = [c \in Clients |-> "open"] /\ job = [c \in Clients |-> "none"]
        /\ wrote = [c \in Clients |-> 0] /\ got = [c \in Clients |-> 0]
    BY <1>1 DEF N!Init, N!FifoInit
  <2>2. FifoInv
    BY <2>1, FifoAssumption
       DEF FifoInv, FifoTypes, Places, Jobs, WritersAre, Requests, Queued, InStep, Answer
  <2>3. OneServed
    BY <1>1, <2>1 DEF OneServed, Idle
  <2> QED
    BY <1>1, <2>2, <2>3 DEF IInv, Pipes
<1>2. CASE prog = "serverfork" /\ F!Init /\ cpid = {}
  <2>1. /\ reader = "closed" /\ writers = {} /\ data = << >> /\ lost = {}
        /\ pc = [c \in Clients |-> "open"] /\ job = [c \in Clients |-> "none"]
        /\ wrote = [c \in Clients |-> 0] /\ got = [c \in Clients |-> 0]
    BY <1>2 DEF F!Init, F!FifoInit
  <2>2. FifoInv
    BY <2>1, FifoAssumption
       DEF FifoInv, FifoTypes, Places, Jobs, WritersAre, Requests, Queued, InStep, Answer
  <2>3. KeepsOpen
    BY <2>1 DEF KeepsOpen
  <2> QED
    BY <1>2, <2>2, <2>3 DEF IInv, Pipes
<1>3. CASE prog \in Pipes /\ P!Init
  <2>1. /\ nopath \in {"empty", "path", "nopath", "error"} /\ writers = [e \in P!Ends |-> {}]
        /\ data = [k \in {1, 2} |-> 0] /\ wrote = 0 /\ got = 0
        /\ pc = [p \in P!Processes |-> IF p = "client" THEN "make1" ELSE "not_forked"]
    BY <1>3 DEF P!Init
  <2>2. pc["client"] = "make1" /\ pc["server"] = "not_forked"
    BY <2>1 DEF P!Processes
  <2>3. PipeTypes
    BY <2>1 DEF PipeTypes
  <2>4. EndsHeld /\ ReplySoFar /\ P!WholeReply
    BY <2>1, <2>2 DEF EndsHeld, ReplySoFar, NotAsked, P!WholeReply, BeforeFork, Talks, Serves, P!Ended
  <2> QED
    BY <1>3, <2>2, <2>3, <2>4 DEF IInv, PipeInv, Pipes
<1> QED
  BY <1>1, <1>2, <1>3 DEF ServersInit

LEMMA NextInvariant == IInv /\ [ServersNext]_svars => IInv'
<1> SUFFICES ASSUME IInv, [ServersNext]_svars PROVE IInv'
  OBVIOUS
<1>1. ASSUME Iterative, N!Server \/ \E c \in Clients : N!ClientStep(c) PROVE IInv'
  <2>1. FifoInv /\ OneServed /\ UNCHANGED <<prog, rnum, dropped>>
    BY <1>1 DEF IInv, Iterative, Pipes
  <2>2. FifoInv' /\ OneServed'
    BY <1>1, <2>1, IterativeServer, IterativeClient
  <2> QED
    BY <1>1, <2>1, <2>2 DEF IInv, Iterative, Pipes
<1>2. ASSUME Concurrent, F!Server \/ \E c \in Clients : F!ClientStep(c) \/ F!ChildStep(c) PROVE IInv'
  <2>1. FifoInv /\ KeepsOpen /\ UNCHANGED <<prog, cpid>>
    BY <1>2 DEF IInv, Concurrent, Pipes
  <2>2. FifoInv' /\ KeepsOpen'
    BY <1>2, <2>1, ForkServer, ForkClient, ForkChild
  <2> QED
    BY <1>2, <2>1, <2>2 DEF IInv, Concurrent, Pipes
<1>3. ASSUME Piped, P!Server \/ P!Client PROVE IInv'
  <2>1. PipeInv' /\ UNCHANGED prog
    BY <1>3, PipeServerStep, PipeClientStep DEF IInv, Piped
  <2> QED
    BY <1>3, <2>1 DEF IInv, Piped, Pipes
<1>4. CASE UNCHANGED svars
  <2>1. UNCHANGED <<prog, nopath, reader, writers, data, lost, job, wrote, pc, got, server, cpid,
                    rnum, dropped>>
    BY <1>4 DEF svars, names, fifo, service, client
  <2>2. PipeInv => PipeInv'
    BY <2>1 DEF PipeInv, PipeTypes, EndsHeld, ReplySoFar, P!WholeReply, AnswerLength
  <2>3. FifoInv => FifoInv'
    BY <2>1 DEF FifoInv, FifoTypes, WritersAre, Requests, Queued, InStep, Answer
  <2>4. (OneServed => OneServed') /\ (KeepsOpen => KeepsOpen')
    BY <2>1 DEF OneServed, KeepsOpen, Idle
  <2> QED
    BY <2>1, <2>2, <2>3, <2>4 DEF IInv, Pipes
<1> QED
  BY <1>1, <1>2, <1>3, <1>4
     DEF ServersNext, ServerStep, PipeClient, ClientStep, ChildStep

(***************************************************************************)
(* The inductive invariant of all five programs: a request is in the FIFO, *)
(* in service or discarded, and its client is where its service expects it *)
(* (client.c, server.c, servern.c, serverfork.c); who can still read and   *)
(* write the pipes (spipe.c:37-56, sfifo.c:35).                            *)
(***************************************************************************)
THEOREM Invariance == ServersSpec => []IInv
<1> QED
  BY InitInvariant, NextInvariant, PTL DEF ServersSpec

(***************************************************************************)
(* For any number of clients and any length of the file a client that      *)
(* finds the end of the answer has all of it (client.c:72-75, spipe.c:49), *)
(* and the client of sfifo.c never finds it.                               *)
(***************************************************************************)
THEOREM AnswersAreWhole == ServersSpec => []WholeAnswer
<1>1. IInv => WholeAnswer
  <2>1. ASSUME FifoInv, NEW c \in Clients \ nopath, pc[c] = "end" PROVE got[c] = Chunks
    BY <2>1 DEF FifoInv, FifoTypes, Jobs, InStep, Answer
  <2> QED
    BY <2>1 DEF IInv, PipeInv, WholeAnswer, WholeFile
<1> QED
  BY <1>1, Invariance, PTL

(***************************************************************************)
(* The iterative servers never read 0 from their FIFO (servern.c:46-54):   *)
(* whoever has let their open return has a request in it, or holds it open *)
(* until it has.                                                           *)
(***************************************************************************)
THEOREM IterativeServersRead == ServersSpec => []NeverReadsEnd
<1>1. IInv => NeverReadsEnd
  BY DEF IInv, OneServed, NeverReadsEnd, N!NeverReadsEnd
<1> QED
  BY <1>1, Invariance, PTL

(***************************************************************************)
(* No server waits for a client that is gone (server.c, servern.c:62,      *)
(* serverfork.c).                                                          *)
(***************************************************************************)
THEOREM SendersAreThere == ServersSpec => []SenderIsThere
<1>1. IInv => SenderIsThere
  BY DEF IInv, FifoInv, InStep, SenderIsThere, N!SenderIsThere
<1> QED
  BY <1>1, Invariance, PTL

(***************************************************************************)
(* serverfork.c discards no request and kills no client, whatever their    *)
(* number (serverfork.c:39, 47).                                           *)
(***************************************************************************)
THEOREM ForkLosesNothing == ServersSpec => []NothingLost
<1>1. IInv => NothingLost
  BY DEF IInv, KeepsOpen, NothingLost, F!NothingLost
<1> QED
  BY <1>1, Invariance, PTL
=============================================================================
