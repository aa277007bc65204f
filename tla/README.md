# unpvol2 in TLA+

The repository holds programs from W. Richard Stevens' "UNIX Network
Programming, volume 2", among them the read-write lock library of chapter 8.
This directory holds TLA+ models of all those in which several threads or
processes work on shared state: the lock library and the programs that use it,
the producer-consumer programs of chapters 7 and 10, the message buffer in shared
memory of chapter 13, the clients and servers over pipes and FIFOs of chapter 4,
the notification programs of chapter 5, the sequence numbers under a record lock
of chapter 9, and the counters in memory of chapters 12 and 13. TLC checks each
model on small instances. TLAPS proves for every instance the safety of the lock
library and of the other programs, and that the lock and the bounded buffers
implement their abstract specifications; what is only model-checked is listed
[below](#what-is-only-model-checked).

Paths below are relative to `src/codes` unless they say otherwise.

## How to run

    tlc -config RWLock.cfg RWLockMC       (one line of the table of runs)
    tlapm RWLockProofs.tla
    tlapm TotalsProofs.tla
    tlapm RWLockProgramsProofs.tla
    tlapm ProducersConsumersProofs.tla    (some minutes)
    tlapm OverflowBufferProofs.tla
    tlapm FifoServersProofs.tla
    tlapm MqNotifyProofs.tla
    tlapm SharedNumbersProofs.tla

`PROJECT.json` lists the components, the runs, the mutated definitions that show
that each property can fail, the source lines of every definition, the findings,
the hazards and the theorems.

## The system

The programs are independent of each other; what binds some together is a
library (`my_rwlock`), a FIFO, a message queue or a shared memory object.

| component | state | operations | interacts through |
|---|---|---|---|
| read-write lock, `8.Read_Write_Locks/my_rwlock/pthread_rwlock*.c` | one mutex, two condition variables, `rw_nwaitreaders`, `rw_nwaitwriters`, `rw_refcount`, `rw_magic` | init, destroy, rdlock, wrlock, tryrdlock, trywrlock, unlock | called by threads of one process; waits and signals on the condition variables |
| `test1.c` | `nreaders`, `nwriters`, `rcountlock`, loop counters | readers and writers that take the lock and check whom they find | calls of the lock |
| `testcancel.c` | three threads, the request for cancellation | lock, cancel a waiting writer, unlock, join, destroy | calls of the lock, `pthread_cancel`, `pthread_join` |
| `incr_rwlock1.c` | `counter`, loop counters | main holds the lock while it creates threads; they increment | calls of the lock |
| `8.Read_Write_Locks/rwlock.c` | as test1 | as test1 | the C library's lock |
| `10.Semaphore/prodcons2.c`, `prodcons3.c`, `prodcons4.c` | circular buffer, semaphores `mutex`, `nempty`, `nstored`, indexes and counts | produce, consume, termination | shared memory of threads |
| `10.Semaphore/prodcons1.c` | as prodcons2, with semaphores that have names | as prodcons2 | names that outlive the process |
| `10.Semaphore/mycat2.c` | buffers with data and length | read into a buffer, write from it | semaphores |
| `7.Mutex_ConditionVariable/prodcons6.c` | array, `put` and `nready` with a mutex each, a condition variable | produce, consume | shared memory of threads |
| `7.Mutex_ConditionVariable/prodcons2.c`, `prodcons3.c` | array under one mutex | produce; consume after the producers, or poll | shared memory of threads |
| `13.PosixSharedMemory/client2.c`, `server2.c` | slots of messages, semaphores, overflow counter | send or count an overflow; print | a shared memory object |
| `13.PosixSharedMemory/client1.c`, `server1.c` | counter, named semaphore | create; increment | a shared memory object, a semaphore |
| `12.SharedMemory/incr1.c`, `incr2.c`, `incr2private.c` | counter in mapped memory | increment in parent and child | mapped memory, a semaphore |
| `4.PipeAndFifos/1snc`: `client.c`, `server.c`, `servern.c`, `serverfork.c` | server FIFO, a FIFO for each client | request a file; serve once, one after the other, or with a child each | open, read, write and close of FIFO ends |
| `4.PipeAndFifos/spipe.c`, `sfifo.c` | two pipes or FIFOs | request a file, answer | pipe and FIFO ends |
| `5.MessageQueue/mqnotifysig1.c` to `mqnotifysig4.c` | queue, registration, signal, `mqflag` | be notified, register again, receive | `mq_notify`, SIGUSR1 |
| `5.MessageQueue/mqnotifythread1.c` | queue, registration, threads | the same in a new thread | `mq_notify` |
| `5.MessageQueue/mqnotifysig5.c` | queue, pipe, signal | the same, through a pipe and `select` | a wrapper that is not in the repository |
| `9.Record_Locking/lockmain.c` with `lockfcntl.c` or `lockopen.c` | the number in a file, a lock | lock, read, write, unlock | a record lock of the kernel, or the existence of a file |
| utilities (`sem*.c`, `shm*.c`, `mq*.c`), examples (`test3.c`, `open.c`, `pipelimit.c`, `sscanf.c`, `key.c`, `mycat1.c`), notes and scripts | none | one system call each | - |

### What makes it hard

* Woken threads take the mutex again later than they are woken; others overtake
  them in between (lock, prodcons6). Waits fail, and return for no reason.
* The lock's counters of waiting threads are lowered by the woken threads, so that
  unlock, destroy and the try functions read them when they are "old". Destroy
  reads them without the mutex, one after the other, while others change them.
* A thread may be cancelled inside `pthread_cond_wait`, asleep or already woken, or
  before it has been created.
* The producer-consumer programs end by threads handing tokens to each other.
* A slot is reserved in one critical section and filled outside it (client2).
* A FIFO loses what is in it when both its ends are closed; opening one of its ends
  is a rendezvous; a write without a reader kills the writer.
* A notification comes only for the message that arrives in an *empty* queue and takes
  the registration away; a signal is not queued; several notification threads run
  at once.
* Processes end between lock and unlock. The kernel removes a record lock; nobody
  removes a lock file, a named semaphore or the token of a semaphore.
* Named semaphores and shared memory are there before they are initialised
  (server2), stay when their maker is killed (prodcons1), and may stand for
  something new between two calls of a client (server1, client1). No result of
  `sem_open`, `shm_open` or `mmap` is looked at.
* A read ends only when nobody, the reader included, could still write (spipe,
  sfifo); a read that fails is not the end of the file (mycat2).

`PROJECT.json` lists these as hazards, each at its line and with the properties
that would tell.

## The modules

Every action is one atomic step of the code between two points at which another
thread can do something that matters: a semaphore or mutex call, an access to a
shared variable, an `open` that waits. Where a thread holds the mutex that all
accesses to some fields are made under, its whole critical section is one
action. Places in the code are strings in `pc` (`at` in `RWLock`); the mapping of
each definition to its lines is in `PROJECT.json` under "map". Definitions whose
name ends in *Not*, *Forgets*, *OffByOne*, *Keeps* and the like stand beside the
definition they are a wrong version of and are used by nothing else: they are
the plausible bugs that show the properties can fail.

| module | models | state and actions |
|---|---|---|
| `RWLock` | the lock library | the fields of `my_pthread_rwlock_t` under their names; condition variables as sets of sleeping threads; for each thread the function it is in and what that returns. `Enter`, `Acquire`, `LockFails`, one action per function body, `RdlockWake` and `WrlockWake` for the return of `pthread_cond_wait`, `Return`; `SpuriousWakeup`; destroy as one step per test and call (`Destroy`, `TestBusy`, `DestroyMutex`, `DestroyConds`, `EndDestroy`), with `gone` for a mutex that is destroyed; `Initialise`. `still` is history: for each running destroy, who has not moved since it began |
| `RWLockSpec` | what the lock promises | who holds, who waits to write: `GrantRead`, `GrantWrite`, `Block`, `Abandon`, `Release`. `RWLock` implements it (`ImplementsRWLockSpec`) |
| `Test1`, `TestCancel`, `IncrRwlock` | the three programs | each EXTENDS `RWLock`: a step is one of the program or one inside the lock |
| `RwlockTest` | `rwlock.c` | the harness of `Test1`; a lock call is granted in one step |
| `RWLockPrograms` | the four together | `prog`, chosen in the initial state, says which runs |
| `RWLockProofs` | theorems about `RWLock` | |
| `RWLockProgramsProofs` | theorems about the four programs | |
| `Semaphore` | `sem_wait`, `sem_post` | operators on a variable |
| `Fifo` | what the producer-consumer programs promise | bounded queue of 0, 1, 2, ...: `Put`, `Get` |
| `ProdCons2`, `ProdCons3`, `ProdCons4` | chapter 10 | the shared struct under its names; one action per semaphore call, test, store, fetch and update of the counts |
| `CondProdCons` | `prodcons6.c` of chapter 7 | the two critical sections of `produce`; `consume` with its wait |
| `ArrayProdCons` | `prodcons2.c`, `prodcons3.c` of chapter 7 | `polls` tells the second from the first; `produce`, and `consume` after the producers or polling beside them |
| `MyCat2` | `mycat2.c` | as `ProdCons2`; a buffer holds the number of a chunk, the end of the file or a failed read |
| `ProdCons1` | `prodcons1.c` | several runs of `main`: what each name stands for, what each run has opened and removed; `Kill` |
| `ProducersConsumers` | the eight together | `prog` says which runs |
| `ProducersConsumersProofs` | theorems about the eight | |
| `Totals`, `TotalsProofs` | the sum of the values of a function, and what is known of it | an operator, as a cardinality |
| `OverflowBuffer` | `client2.c`, `server2.c` | the struct in shared memory, from before it exists; one action per semaphore call, `sem_init` included, reservation, copy, load and store of the overflow count |
| `OverflowBufferProofs` | theorems about `OverflowBuffer` | |
| `FifoService` | `client.c`, and what the servers share | the ends of the server FIFO, what is in it, what was discarded with it; the service of one request |
| `ServerN` | `servern.c`, and with `once` `server.c` | its loop |
| `ServerFork` | `serverfork.c` | the parent's loop and the children |
| `PipeService` | `spipe.c`, `sfifo.c` | which process holds which end, what is in the two pipes, the two processes |
| `FifoServers` | the three servers with the clients, and the two programs over pipes | `prog` says which runs |
| `FifoServersProofs` | theorems about `FifoServers` | |
| `MqNotify` | the queue and its notification | `Send`, `Register`, `Receive` |
| `MqNotifySig` | `mqnotifysig1.c` to `mqnotifysig4.c` | one module; the programs differ in whether a handler sets a flag and whether all messages are received |
| `MqNotifyThread` | `mqnotifythread1.c` | the numbers of threads about to register and receiving |
| `MqNotifyPipe` | `mqnotifysig5.c` | the pending signal, the bytes in the pipe; `Handler` anywhere in `main` |
| `MqNotifyPrograms` | the six together | `program` says which runs |
| `MqNotifyProofs` | theorems about `MqNotifyPrograms` | |
| `LockMain` | `lockmain.c` with either lock | the file, the two locks, the processes; a step each to lock, read, print, write and unlock; `Crash` between any two |
| `SharedCounter` | `client1.c` with `server1.c`, `incr1.c`, `incr2.c`, `incr2private.c` | what the two names stand for, each memory with its counter, each semaphore, each process with the memory and the semaphore it got |
| `SharedNumbers` | `LockMain` and `SharedCounter` | `kind` says which runs |
| `SharedNumbersProofs` | theorems about `SharedNumbers` | |

`*MC` modules define what a constant of an instance is, where the configuration cannot. The modules that put several programs
together (`RWLockPrograms`, `ProducersConsumers`, `FifoServers`,
`MqNotifyPrograms`, `SharedNumbers`) hold no code of their own: they INSTANCE the modules of the
programs, choose one in the initial state, leave the variables of the others
alone and state the fairness.

### What is taken for granted

* `RWLock`: initialising the mutex and the condition variables does not fail (with
  glibc's default attributes it does not), `attr` is `NULL` in every call in the
  repository, and the wrappers `Pthread_*` only print and exit. A thread calls
  unlock only when it holds the lock and does not lock it twice. Init comes before
  any other thread uses the lock, as in every program here.
* `destroy` takes no mutex (`pthread_rwlock_destroy.c:8-17`) and nothing keeps other threads
  out of the lock meanwhile: they go on between any two of its reads and after
  it. What they then meet is undefined for POSIX; the model has what glibc does.
  `pthread_mutex_destroy` of a mutex that is taken, or that somebody waits with in
  `pthread_cond_wait`, fails and leaves it as it is, and destroy does not look at the
  result. After it, to lock, to unlock or to wait with the mutex fails with EINVAL, but a thread
  that was already waiting for the mutex may still get it. `pthread_cond_destroy` waits
  for those who sleep. Only one thread destroys in the instances.
* The error codes of `pthread_cond_wait` are a constant, `WaitErrors`; an error is
  returned in place of sleeping.
* Cancellation is deferred; `pthread_cond_wait` takes the mutex back before the
  thread ends. It is acted on as long as the call has not returned, so also by a
  thread that has been signalled or has woken for no reason. `pthread_cancel` of a thread that
  is not there yet, or no more, fails or crashes the process: POSIX leaves both
  open.
* A FIFO of chapter 4 behaves as on Linux. Requests of 64 bytes are shorter than
  `PIPE_BUF` and so are written and read whole. The FIFOs of the clients exist from
  the start, as each client makes its own first. `fork` may fail.
* The lock of `rwlock.c` is that of the C library. It may let readers pass writers
  that wait, or the other way round; all that is used of it is that it excludes
  and that somebody who can have it gets it.
* The two threads of `prodcons1.c` are those of `prodcons2.c`, over three
  semaphores that nobody else has (`NoneShared`); `ProdCons1` has them as one step
  that ends because they do (`AllEnd` of `prodcons2`). A run that has not its
  three semaphores dies.
* Shared memory is zero at first, which on Linux is a semaphore of value 0. A
  `sem_init` sets the value, and may make the kernel forget who waits in it.
  `server2.c` is started once. `strcpy` into a slot that only its client uses is one
  step.
* `server1.c` is run again and again, one run at a time. A process that touches
  memory it could not map, or whose file is empty, or a semaphore it could not
  open, dies there. The wrapper of `incr2private.c` ends the program when
  `sem_open` fails; `incr1.c` and `incr2.c` go on with what they got.
* Pipes and FIFOs of `PipeService` have room for what is written into them: at
  most one request and one file. A path that can be opened but not read, a
  directory, is a file that ends there. The input of the client may be unreadable
  as well: `read` gives -1, and the `write` of -1 bytes that follows fails. `spipe.c` and `sfifo.c` wait for the
  child in `waitpid` in the wrong process, which returns at once.
* The wrapper `Select` of `mqnotifysig5.c` is not in the repository. When the signal
  interrupts `select` it calls it again, or returns with `rset` as it was passed
  in: both are in the model.
* Senders of messages are like `mqsend.c`, any number of them; they are one
  action.
* A crash in `LockMain` is the end of a process at any point. The kernel removes its
  record lock and leaves files as they are. A number counts as handed out when it is given
  to `printf` (`taken`); what is still in the buffer of a process that crashes may never be
  seen.

## The runs

| run | instance | distinct states | shows |
|---|---|---|---|
| `RWLock` | 3 threads, one of which also destroys the lock, while the others use it; any function in any legal order; waits that fail (EINVAL) or return for no reason | 189390 | the count tells who holds the lock, the counters count who waits, no wakeup is lost, unlock never exits, destroy overlooks only threads that move while it runs, and `RWLockSpec` is implemented |
| `RWLockLive` | 2 readers, 2 writers, no failing waits | 2572 | a waiting writer gets in; a sleeping reader is woken or writers keep coming |
| `RWLockPrograms` | test1 and rwlock with 2 readers and 2 writers, 2 loops; testcancel with sleeps of any length; incr_rwlock1 with 3 threads, 2 loops | 317863 | no check of test1 or rwlock fails; the counter is exact at every moment; what a cancelled writer leaves behind, and when destroy finds the lock busy; all end otherwise |
| `TestCancelBusy` | testcancel with sleeps as long as they are meant to be | violation | finding 1 |
| `ProducersConsumers` | 4 items, 2 slots; 1+1, 3+1, 2+2 producers and consumers, 3+1 at an array in three ways; files of up to 4 chunks or unreadable; 3 runs of prodcons1 | 112460 | items in order, nothing lost or counted twice, no lost wakeup, bounded queue implemented, names apart and what a dead run leaves left for good, all threads end but for mycat2 of a file that cannot be read |
| `OverflowBuffer` | 2 clients that send 5 messages together in every split, from any moment on; 2 slots | 86303 | every message is sent, counted, or undone by the start of the server; all slots come back but for those; overflows are shown with the next message; a lone client's messages are printed in order |
| `OverflowUnwritten` | the same with 4 messages | violation | finding 2 |
| `FifoServers` | 3 clients, one of which may ask for no file; a file of 2 reads; FIFO there or not; spipe and sfifo with a path, a wrong path, no input or input that cannot be read | 42940 | whole answers; no wait for a client that is gone; every client ends, is lost or waits just where the code lets it |
| `ServerNLost` | 2 clients, servern | violation | finding 3 |
| `ServerForkSpins` | 2 clients, serverfork | violation | finding 4 |
| `MqNotifyPrograms` | queue of 4, 10 messages, 0 to 2 in the queue before | 1881 | never registers twice, never blocks, draining programs miss nothing, what strands stays |
| `SharedNumbers` | lockmain: 3 processes, 2 loops, at most 2 crashes, both locks; client1: 3 clients (2, 2 and 1 loops), 2 runs of server1; incr1, incr2, incr2private: parent and child, 2 loops | 361316 | no number skipped, or printed twice but for a crash between printf and write; each value printed once under one semaphore; all get their numbers but for an orphaned lock file or semaphore; the lock file stays |

### Why the bounds are enough

* Three threads let a thread overtake a woken one while a third sleeps, which is
  what the lock's loops are for; four, of both kinds, let readers overlap while two
  writers wait. `TypeOK`, the counters and the refinement are proved for
  any number.
* Four items through two slots go round the buffer twice; with three producers two
  wait while one finds that all is put. Five messages through two slots go
  round more than twice, and between none and three of them overflow; both
  clients can be in the count at once. `OverflowsShown` is about counts up to
  `MaxShown` = 2, so that one overflow is shown and another one after it.
* Files of up to four chunks pass two buffers twice, and end in either.
* Three runs of prodcons1 are one that dies, one that is ending while it does, and
  one that starts; the last may be the one with no items.
* With three clients one request can be in service, one in the FIFO and one about
  to be written when the server closes its end. A file of two reads tells a part of
  the file from all of it.
* A queue of four that ten messages pass through gets full, empty and full again.
* Two crashes of three processes leave one that has to go on. In two loops each
  process comes back after it has unlocked.
* Two runs of server1 make an old and a new memory and semaphore, and three clients
  can have one of each in every mixture: two that share and a third that does
  not.

`CHECK_DEADLOCK FALSE` stands where the system may stop: the programs that end
or hang as the properties describe (`RWLockPrograms`, `TestCancelBusy`, the FIFO
servers, `MqNotifyPrograms`), a server that waits for clients that are done
(`OverflowBuffer`), and callers of the lock that stop asking (`RWLockLive`). The
violation runs end with the violation.
`ProducersConsumers` and `SharedNumbers` check for deadlock: their one way to stop is
that all threads have ended (`Finished`), or in `SharedNumbers` that the rest wait for a
semaphore which a dead client holds.

### Fairness

Weak fairness for each thread or process, on all its steps together: the
operating system schedules every thread. `server1` is taken to be run as often as
`Runs` says. No claim on a mutex or semaphore is
assumed (that would be strong fairness), as POSIX promises none, but for one:
the polling consumer of chapter 7's `prodcons3.c` does not win the mutex *every* time
it is free (`SF_pvars(ProducerLocks)`). Without that `AllEnd` fails, with a consumer that
polls for ever; the program relies on it. Elsewhere weak fairness is enough
because no property says that a *given* thread gets a lock while others ask for
ever: programs have finite loops, and `WaitingWriterGetsIn` is about *some*
writer. `SleepingReaderIsWoken` allows for writers that keep taking the lock, and
says of the reader only that it is woken. In `RWLock` and `MqNotify` nothing forces
a caller to ask for the lock or to send, but a holder gives the lock back.

Spurious wakeups are always possible but do not go on for ever
(`<>[][~SpuriousWakeup]`): POSIX allows them, yet a thread that is woken
infinitely often for nothing would be a broken system. All safety properties
hold without that.

### Findings

1. `testcancel.c:30` says that destroy "returns EBUSY error if cancelled thread does
   not cleanup". wrlock has no cleanup handler, so the cancelled thread ends with
   `rw_mutex`; thread1 waits for it in unlock, main waits for thread1, and destroy is
   not called. `DestroyReturnsEBUSY` fails with the sleeps of the program. Only with sleeps so
   short that thread1 unlocks before thread2 acts on the cancellation is it as line 30 says: `WaiterDiesWithMutex` and
   `BusyMeansDiedHolding` in `RWLockPrograms` say which of the two happens when.
2. `client2.c:53` writes its message after it has left the mutex. When another
   client fills a later slot and posts `nstored` first, `server2.c:42` prints a slot that
   has not been written. `PrintsMessages` fails; `PrintsInOrder` says what is left.
3. `servern.c:57` closes the FIFO after each request. A second request in it is
   discarded when the last client closes its end, and that client waits for ever in
   `client.c:66`, against `servern.c:2`. `KeepsServing` fails; `ClientsEnd` says who is lost.
4. `serverfork.c:7-8` says that a read of 0 bytes makes the server exit. The loop has no
   exit: it reads again, at once, for ever. `ReadOfNothingExits` fails.

Other remarks, where no text of the repository says otherwise: `sfifo.c` never ends, as its
client can write to the FIFO it reads, and neither it nor `spipe.c` ends when the input cannot be
read: the client asks for nothing and waits for the answer (`PipesEnd`). Destroy may take the lock from
a thread that holds it: one that locks after `rw_refcount` has been read as 0. So `DestroySeesWhoStays` claims only that no
thread is overlooked that does not move meanwhile; of all threads it would be false. `lockmain.c` prints a number again that a process
has printed when it crashed before its write (`NumbersTakenOnce`). `mycat2.c` never ends on a file it
cannot read, a directory for instance (`AllEnd`). A killed run of `prodcons1.c` is the end of all later ones (`LeftForGood`).
A client of `client1.c` that comes between the `shm_open` and the `ftruncate` of `server1.c`
may die with the semaphore of the run before (`EachPrints`). A post of a message to
`server2.c` before its last `sem_init` is lost with its slot (`Drains`).
And `lockopen.c:15` says "someone else has the lock" of an open that
fails. After a crash nobody has it (`Orphaned`), and `StaysLocked` shows
that nobody ever will.


## The proofs

All theorems hold for every value of the constants that satisfies the named
assumptions of the modules: any finite set of threads or processes, any buffer
with at least one slot, any number of items, loops, messages and crashes.

**`RWLockProofs`** (1159 obligations): `TypeCorrect`, `HoldersCounted`,
`WaitersCounted`, `WakeupsSuffice`, `UnlockNeverExits`, `DestroySafe`, and
`Refinement`: the lock implements `RWLockSpec`. Assumed: `ThreadsAssumption`,
`UsesAssumption`, `ErrorsAssumption`; any number of threads may destroy, at any time. The inductive invariant
`IInv` adds to the checked invariants that a call matches what its caller holds (`CallsMatch`:
unlock is called by holders, the others by threads that hold nothing), that
the body of a function is run with the mutex (`MutexHeld`), that only threads in
`pthread_cond_wait` sleep and each on its own condition variable
(`SleepersWait`), and what a running destroy has made sure of (`StayersSeen`). Without `CallsMatch`
the count of holders is not inductive: a thread could unlock what another holds. `StayersSeen` is
about the threads that have not moved since destroy began: after the first test
such a thread does not hold the lock, after the second it is not a reader that
waits, after the third not a writer. Each test reads a count of the current state, and the
count says this of all threads at that moment; of those that stay it remains true. The counts are not 0
while such a thread is counted, whoever else comes and goes, which is why it is enough that each is read once.
Steps are split by action; the set of
holders gains or loses one thread (`GainRead`, `GainWrite`, `GiveBack`), and the
counters follow from the cardinality of the set of waiting threads. In the
refinement a thread holds the lock from the step that sets `rw_refcount`, before the call
returns; each step of the code is one abstract step or none.

**`RWLockProgramsProofs`** (1738 obligations): `ChecksNeverFail`, `CancelledWriterBlocks` and
`NoStoreLost` over `ProgramsSpec`. Assumed: `ProgramsAssumption`, any finite set of threads of
which any may be readers, any number of loops, and that `pthread_cond_wait` does
not fail (the programs give it what it needs); and the assumptions of `RWLock`. Each program
has the invariant `IInv` of the lock, since each of its steps is a step of `RWLock` or
none of the lock's (`LockInvariant`). What it adds says where each thread is and what it
then holds or calls; for that a step inside the lock need only tell whether the
thread goes on or comes back with what it asked for (`InsideStep`).

* *test1*. Whoever is in the body of its loop holds the lock (`TestPlaces`), so a writer is there alone
  (`HoldersExclude`). `nreaders` and `nwriters` count who has come in and not gone
  (`TestCounts`): for that the value that a thread has loaded must be the current one until it is
  stored, for readers because of `rcountlock`, for writers because of the lock
  (`UpdatesAlone`).
* *rwlock*. The same harness, over what the C library grants (`RwlockInv`).
* *incr_rwlock1*. Between load and store the lock is the thread's own (`StoresAlone`), so the
  counter is the sum of the stores (`IncrCounts`).
* *testcancel*. As long as thread2 has not died inside wrlock, `NotDead`: the places, and that the
  mutex is taken by whoever is in a body (`MutexIsHeld`). When it dies in `pthread_cond_wait`, there are two cases
  (`DiesInWait`). If thread1 has the lock, it is on its way to `rw_mutex`, which it never
  gets (`Stuck`). If nobody has it, then, since thread1 cancels only when it has got the lock, it has been through its unlock
  and main is free to go on (`Signalled`). Both stay as they are (`DeadInWrlock`, `StuckStep`,
  `SignalledStep`), but that in the second main goes on and reads `rw_nwaitwriters`, which is 1
  for ever. Otherwise, when main destroys the lock nobody waits for it, and the count is not 0 exactly if thread2 died
  with it (`CountsAtDestroy`, `CancelDestroyStep`). A process that has crashed does nothing
  more (`CrashedForGood`).

**`ProducersConsumersProofs`** (5129 obligations), over `ProgramsSpec`, so for whichever
program runs. Assumed: `ProgramsAssumption` and `BufferAssumption`: finite sets
of threads, a slot or more, a producer and a consumer that differ.

* *prodcons2* (`TypeCorrect`, `RightItem`, `NoOverwrite`, `Refinement`). The invariant `Inv2`
  says that the mutex is taken by whoever is inside and that every slot is
  empty, stored or in the hands of a thread. So the producer is less than `NBUFF`
  items ahead, and by `DifferentSlots` two such items are in different slots: that
  is why nothing is overwritten.
* *prodcons3, prodcons4* (`InOrder`, `NothingLost`). The same count with any number of
  producers, as a sum over those at each place (`Slots3`, `Slots4`); one thread at most
  is inside (`OneInside`); `nput - nget`, or `nput - i`, is what is stored and not fetched yet,
  until all is put. Then a post may stand for "terminate" instead (`Ends3`, `Ends4`), and it is the
  thread's test that keeps it from fetching. What the threads have counted is the
  cardinality of the set of counted units (`Totals`), so that one more count of one
  thread is one more of the sum (`TotalPlusOne`).
* *mycat2*. As prodcons2, and the chunks in the buffers are consecutive up to the
  end of the file (`ChunksInOrder`) or up to a first failed read (`OnlyFailures`).
  `BuffersApart` follows from the count of buffers, as a producer and a consumer with a buffer
  each are less than `NBUFF` apart.
* *prodcons6, array2, array3* (also `SignalSuffices`). The array is filled up to `nput`
  (`ArrayFilled`), `nready` is what was stored less what is about to be counted and what
  was consumed (`CondAccounted`), and `Sleeps`: the consumer sleeps only while `nready` is 0,
  since the producer that makes it 1 wakes it under the same mutex.
* *prodcons1* (`RunsKeepApart`). What a run has opened it has made itself (`OwnOrNone`),
  as `O_EXCL` fails on a name that is there; and its place tells what it has
  opened (`RunPlaces`). `NamesKept`: while no run may be without items, a name stays for
  as long as its maker has not come to remove it.
* `ManyRefinement`: prodcons3, prodcons4 and mycat2 implement `Fifo`. The abstract queue is the
  slots between the count of the fetched and that of the stored items, which by the
  invariant hold those items (`QueueHolds`); each step puts one, takes one or neither
  (`QueueSteps`), and these are the abstract steps.

**`OverflowBufferProofs`** (848 obligations): `Invariance`, `MessagesAccountedFor`
(`EachSentOrCounted`), `MessagesPrintedInOrder` (`PrintsInOrder`). Assumed:
`OverflowAssumption`. A slot is empty, stored, lost to the
start of the server, or in the hands of a client or the server (`SlotsConserved`); at most one
process is between the `sem_wait` and the `sem_post` of `noverflowmutex`, and what it has
read is still the count (`OverflowMutex`, `CountIsCurrent`); what the clients have done is what
was counted, stored, lost or printed (`Accounts`). The initialisations are
steps like others: a client may come before any of them, and the invariant says
what each has undone. The order of printing is claimed for a client that is alone:
with two, a slot may be printed before it is written (run `OverflowUnwritten`). Its
invariant `OrderInv` numbers the slots from the server's index on: those before `nput` are
the ones reserved, and the messages in those stored rise from the one printed
last to the client's counter. It rests on `SlotsConserved`: less than `NMESG` slots are
reserved when the client takes one more, so `nput` does not pass the index, and the
copy overwrites nothing that waits. Posts that the server's start undoes stay in
the count of what waits (`lost`), which is why the order survives it.

**`FifoServersProofs`** (1031 obligations): `AnswersAreWhole`, `IterativeServersRead`,
`SendersAreThere`, `ForkLosesNothing`, for any clients, files of any length, and the
programs over pipes. Assumed: `FifoAssumption`. The invariant says where each
request is: in the FIFO once and not in service, in service and no more in the FIFO, or
neither (`Requests`), and which steps of the client go with which of its service (`InStep`); how much
is written and how much read (`Answer`). An iterative server serves one client
(`OneServed`); while it reads, a client holds the write end or there is a request, which is why it never finds
the end. `serverfork` keeps its own read end (`serverfork.c:39`), so that nothing is ever discarded (`KeepsOpen`). For the
pipes, each process that is still to read or write has the end it needs, and so does the
other (`EndsHeld`), and what was written is what was read or is in the pipe (`ReplySoFar`); from input that cannot
be read nothing is ever asked (`NotAsked`).

**`MqNotifyProofs`** (279 obligations): `RegistersOnce`, `ReceivesAtOnce`,
`NothingStranded`, `StrandedForGood`. Assumed: `QueueAssumption`. There is always exactly one
permission to register: the registration, the pending signal, the flag, or the
program on its way to `mq_notify`; for threads, the registration or one new thread
(`OnePermission`, `OneRegisters`). The queue is empty when a draining program is registered
and not receiving (`QueueIsEmpty`), and not empty while a notification is on its
way to one that receives a single message (`MessageIsThere`). In the program with
the pipe the one permission may be a byte (`OneByte`): so there is a byte whenever
`main` gets to its read, by whichever way it came out of `select`.

**`SharedNumbersProofs`** (735 obligations): `NumbersOnce` and `OrphanStays` of `lockmain.c`.
Assumed: `LockAssumption`. At most one process is between lock and unlock, the lock is in use
while one is (`HolderHasLock`), the number it has read is that of the file until it writes the next
(`NumberIsCurrent`), and it has printed it by then (`PrintedBeforeWritten`). So a number below that of
the file is printed once and for all; the one in the file is printed by the holder or by one that stopped halfway. And `EachValueOnce` of the counters in memory. Assumed:
`CounterAssumption`: any processes, loops and runs of server1, and any that die. A
process is between `sem_wait` and `sem_post` only with a semaphore that is 0 (or dead
there), and no two are with the same one (`Inside`). This needs that nobody has the semaphore
which server1 is about to make (`NoneFromLater`): its value is set to 1 then. For
each memory whose users have one semaphore the values printed are those below the
counter, and what a user has read and not yet stored is the counter (`Counted`).
A process that opens the semaphore becomes a user; it has printed nothing, and
if it makes them two semaphores nothing more is claimed.

### What is only model-checked

Everything with fairness: `WaitingWriterGetsIn`, `SleepingReaderIsWoken`,
`ProgramsEnd`, `AllEnd`, `Drains`, `OverflowsShown`, `ClientsEnd`, `AllReceived`,
`EachEnds`. Liveness is out of the prover's reach. Every safety property of a
passing run, invariant or action property, is the statement of a theorem.

## What is not modelled

* Utilities and examples (`semcreate.c`, `shmwrite.c`, `mqunlink.c`, `test3.c`,
  `pipelimit.c` and so on) have no state of their own: one system call each. Notes and
  scripts have none at all.
* What the programs print, unless a property is about it; times they measure,
  permissions and names of files, and errors of system calls that only end the
  program.
* Reads and writes that are cut short, which happen on none of the files and
  pipes here, and the capacity of a pipe.
* Clients that are killed by a user. Crashes are modelled where the code or its
  discussion has them (`LockMain`, `ProdCons1`, `TestCancel`) and where the program
  kills itself (`SharedCounter`, `OverflowBuffer`, `PipeService`).
* A second `server2.c` and clients that still have the object of the first; two `server1.c`
  at once.

## Plan

In this order, the hardest behaviour first. A module that comes joins the run of
its chapter; its properties take the place of shallower ones there.

1. Chapter 8: `RWLock`, its specification, its proofs, its programs. *Done.*
2. Chapters 10 and 7: `Fifo`, `ProdCons2` with proofs, `ProdCons3`, `ProdCons4`,
   `CondProdCons`. *Done.*
3. Chapters 13, 4, 5, 9: `OverflowBuffer`, the FIFO servers, the notification programs
   and `LockMain`, the last two with proofs. *Done.*
4. The rest of chapters 4, 5, 7, 8, 10, 12 and 13: `ArrayProdCons`, `MyCat2`, `ProdCons1`,
   the start of `server2.c`, `PipeService`, `SharedCounter` with a proof,
   `MqNotifyPipe` with a proof, `RwlockTest`. *Done.*
5. Proofs of the producer-consumer programs, of `OverflowBuffer` and of the FIFO
   servers. *Done.*
6. Proofs of the programs over the lock. *Done.*
7. The order in which `server2.c` prints (`PrintsInOrder`), with the invariant that says
   which message is in which slot. *Done.*
