------------------------------- MODULE MyCat2 -------------------------------
(***************************************************************************)
(* codes/10.Semaphore/mycat2.c: one thread reads a file into NBUFF         *)
(* buffers, another writes them to the standard output.  The mutex         *)
(* protects nothing: both threads use their buffer after they have         *)
(* released it.  A read of no bytes is the end of the file, for both.      *)
(*                                                                         *)
(* A buffer holds the number of the chunk read into it, Eof when its n is  *)
(* 0 (as it is before the first read), or Failed when n is -1.  No chunk   *)
(* of a file that could not be opened, or is a directory, is ever read.    *)
(***************************************************************************)
EXTENDS Semaphore, Sequences

CONSTANTS producer, consumer, NBUFF,
          MaxChunks    \* the longest file

CatConstants == NBUFF \in Nat \ {0} /\ MaxChunks \in Nat /\ producer # consumer

Eof     == -1
Failed  == -2
Threads == {producer, consumer}

VARIABLES mutex, nempty, nstored,
          buff,
          size,    \* number of chunks of the file, Failed when read fails
          offset,  \* number of chunks that have been read
          pc, at,  \* where each thread is, and its index i
          out      \* the chunk written last, -1 before the first

sems == <<mutex, nempty, nstored>>
vars == <<sems, buff, size, offset, pc, at, out>>

Init == /\ mutex = 1 /\ nempty = NBUFF /\ nstored = 0
        /\ buff = [k \in 0..NBUFF-1 |-> Eof]
        /\ size \in 0..MaxChunks \cup {Failed} /\ offset = 0 /\ out = -1
        /\ pc = [t \in Threads |-> "wait"]
        /\ at = [t \in Threads |-> 0]

Goto(t, from, to) == pc[t] = from /\ pc' = [pc EXCEPT ![t] = to]
NextBuffer(t) == at' = [at EXCEPT ![t] = (@ + 1) % NBUFF]
-----------------------------------------------------------------------------
WaitEmpty == /\ Goto(producer, "wait", "wait_mutex") /\ SemWait(nempty)
             /\ UNCHANGED <<mutex, nstored, buff, size, offset, at, out>>
WaitStored == /\ Goto(consumer, "wait", "wait_mutex") /\ SemWait(nstored)
              /\ UNCHANGED <<mutex, nempty, buff, size, offset, at, out>>
\* The empty critical region.
WaitMutex(t) == /\ Goto(t, "wait_mutex", "post_mutex") /\ SemWait(mutex)
                /\ UNCHANGED <<nempty, nstored, buff, size, offset, at, out>>
PostMutex(t) == /\ Goto(t, "post_mutex", "use") /\ SemPost(mutex)
                /\ UNCHANGED <<nempty, nstored, buff, size, offset, at, out>>

Fill(chunk) == buff' = [buff EXCEPT ![at[producer]] = chunk]
ReadChunk == /\ offset < size /\ Goto(producer, "use", "post")
             /\ Fill(offset) /\ offset' = offset + 1
             /\ UNCHANGED <<sems, size, at, out>>
ReadEnd == /\ offset = size /\ Goto(producer, "use", "post_last") /\ Fill(Eof)
           /\ UNCHANGED <<sems, size, offset, at, out>>
\* -1 is not 0: the producer takes the buffer for a full one.
ReadFails == /\ size = Failed /\ Goto(producer, "use", "post") /\ Fill(Failed)
             /\ UNCHANGED <<sems, size, offset, at, out>>
PostStored == /\ Goto(producer, "post", "wait") /\ NextBuffer(producer) /\ SemPost(nstored)
              /\ UNCHANGED <<mutex, nempty, buff, size, offset, out>>
LastStored == /\ Goto(producer, "post_last", "end") /\ SemPost(nstored)
              /\ UNCHANGED <<mutex, nempty, buff, size, offset, at, out>>

ConsumerReturns == /\ buff[at[consumer]] = Eof /\ Goto(consumer, "use", "end")
                   /\ UNCHANGED <<sems, buff, size, offset, at, out>>
\* write with the length -1 fails, and its result is not looked at.
Write == /\ buff[at[consumer]] # Eof /\ Goto(consumer, "use", "post")
         /\ out' = IF buff[at[consumer]] = Failed THEN out ELSE buff[at[consumer]]
         /\ UNCHANGED <<sems, buff, size, offset, at>>
PostEmpty == /\ Goto(consumer, "post", "wait") /\ NextBuffer(consumer) /\ SemPost(nempty)
             /\ UNCHANGED <<mutex, nstored, buff, size, offset, out>>

Produce == \/ WaitEmpty \/ WaitMutex(producer) \/ PostMutex(producer)
           \/ ReadChunk \/ ReadEnd \/ ReadFails \/ PostStored \/ LastStored
Consume == \/ WaitStored \/ WaitMutex(consumer) \/ PostMutex(consumer)
           \/ ConsumerReturns \/ Write \/ PostEmpty

Step(t) == (t = producer /\ Produce) \/ (t = consumer /\ Consume)

\* main has joined both threads and exits.
AllEnded == \A t \in Threads : pc[t] = "end"
-----------------------------------------------------------------------------
\* The queue that the buffers stand for: the chunks read and not yet written.
OnTheWay == [k \in 1..(offset - (out + 1)) |-> buff[(out + k) % NBUFF]]

(***************************************************************************)
(* The consumer finds in its buffer the chunk that follows the one it      *)
(* wrote last, and the end of the file only when all of it is written      *)
(* (mycat2.c:97-99); of a file that cannot be read it never finds an end,  *)
(* so that it goes on writing nothing for ever.                            *)
(***************************************************************************)
CopiesInOrder ==
  /\ pc[consumer] = "use" =>
       buff[at[consumer]] = IF size = Failed THEN Failed
                            ELSE IF out + 1 = size THEN Eof ELSE out + 1
  /\ pc[consumer] = "end" => size # Failed /\ out + 1 = size

(***************************************************************************)
(* The two threads never use the same buffer at the same time, although no *)
(* mutex is held while they do (mycat2.c:73, 97-99).                       *)
(***************************************************************************)
BuffersApart ==
  pc[producer] = "use" /\ pc[consumer] = "use" => at[producer] # at[consumer]
=============================================================================
