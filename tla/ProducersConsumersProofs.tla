---------------------- MODULE ProducersConsumersProofs ----------------------
(***************************************************************************)
(* Theorems about the producer-consumer programs, for any number of        *)
(* threads, items and slots.  Each program has an inductive invariant of   *)
(* its own, and what is said of it concerns its behaviours only.           *)
(***************************************************************************)
EXTENDS ProducersConsumers, TotalsProofs

\* How many of the threads in S are at one of some places.
At(S, Places) == Cardinality({t \in S : pc[t] \in Places})

(* prodcons1: a semaphore that a run opened is its own, and as long as     *)
(* every run that removes names has them all, a name it has not removed    *)
(* yet still stands for its semaphore.                                     *)
RunTypes ==
  /\ pbuff \in [P1!Names -> Producers \cup {Nobody}]
  /\ nputval \subseteq MayBeIdle
  /\ pc \in [Producers -> {"open", "work", "unlink", "end", "dead"}]
  /\ count \in [Producers -> Seq(Producers \cup {Nobody})]
  /\ nput \in [Producers -> 0..3]
OwnOrNone == \A r \in Producers : /\ Len(count[r]) <= 3
                                  /\ \A n \in 1 .. Len(count[r]) : count[r][n] \in {r, Nobody}
RunPlaces == \A r \in Producers :
               /\ pc[r] # "unlink" => nput[r] = 0
               /\ pc[r] \in {"dead", "end"} => count[r] = << >>
               /\ pc[r] = "work" => Len(count[r]) = 3
               /\ nputval = {} /\ pc[r] = "unlink" => P1!HasAll(r)
NamesKept == nputval = {} =>
               \A r \in Producers : \A n \in 1 .. Len(count[r]) :
                 count[r][n] = r /\ n > nput[r] => pbuff[n] = r
RunsInv == RunTypes /\ OwnOrNone /\ RunPlaces /\ NamesKept

(* prodcons6: the owner of a mutex is the thread that is inside, what is   *)
(* stored is in the array, and the items are stored, counted and taken in  *)
(* equal numbers.                                                          *)
Storing6 == {"lock_put", "store", "lock_nready", "count", "end"}
Waiting6 == {"loop", "test", "wait", "compare", "end"}
Unready  == {"lock_nready", "count"}
CondTypes ==
  /\ pbuff \in [0..nitems-1 -> Nat] /\ nput \in 0..nitems /\ nputval = nput
  /\ put_mutex \in Producers \cup {Nobody}
  /\ nready_mutex \in Producers \cup {consumer, Nobody}
  /\ nready \in Nat /\ asleep \in BOOLEAN /\ i \in Nat
  /\ pc \in [C6!Threads -> Storing6 \cup Waiting6]
  /\ \A p \in Producers : pc[p] \in Storing6
  /\ pc[consumer] \in Waiting6
  /\ count \in [Producers -> Nat]
CondOwners ==
  /\ \A p \in Producers : pc[p] = "store" <=> put_mutex = p
  /\ \A p \in Producers : pc[p] = "count" <=> nready_mutex = p
  /\ pc[consumer] = "test" <=> nready_mutex = consumer
ArrayFilled == \A k \in 0 .. nput - 1 : pbuff[k] = k
PutEnds == \A p \in Producers : pc[p] = "end" => nput >= nitems
CondAccounted ==
  nput = nready + At(Producers, Unready) + i
           + IF pc[consumer] = "compare" THEN 1 ELSE 0
CondCounts == /\ IsFiniteSet(Units(count))
              /\ Total(count) + At(Producers, Unready) = nput
Sleeps == asleep => pc[consumer] = "wait" /\ nready = 0
CondInv == CondTypes /\ CondOwners /\ ArrayFilled /\ PutEnds /\ CondAccounted
             /\ CondCounts /\ Sleeps

(* prodcons2 and prodcons3 of chapter 7.                                   *)
Filling  == {"lock", "test", "put", "count", "end"}
Checking == {"not_created", "loop", "poll", "compare", "end"}
Counting == {"count"}
ArrayTypes ==
  /\ pbuff \in [0..nitems-1 -> Nat] /\ nput \in 0..nitems /\ nputval = nput
  /\ put_mutex \in Producers \cup {consumer, Nobody} /\ i \in Nat
  /\ pc \in [Arr!Threads -> Filling \cup Checking]
  /\ \A p \in Producers : pc[p] \in Filling
  /\ pc[consumer] \in IF prog = "array3" THEN {"loop", "poll", "compare", "end"}
                      ELSE {"not_created", "loop", "end"}
  /\ count \in [Producers -> Nat]
ArrayOwner ==
  /\ \A p \in Producers : pc[p] \in {"test", "put"} <=> put_mutex = p
  /\ pc[consumer] = "poll" <=> put_mutex = consumer
ArrayPut == \A p \in Producers : pc[p] = "put" => nput < nitems /\ pbuff[nput] = nput
Created == prog = "array2" /\ pc[consumer] # "not_created" => \A p \in Producers : pc[p] = "end"
Compared == pc[consumer] = "compare" => i < nput
ArrayCounts == /\ IsFiniteSet(Units(count))
               /\ Total(count) + At(Producers, Counting) = nput
ArrayInv == ArrayTypes /\ ArrayOwner /\ ArrayPut /\ ArrayFilled /\ PutEnds /\ Created
              /\ Compared /\ ArrayCounts

(* What the programs with a circular buffer and a mutex semaphore share:   *)
(* one thread is inside, stores where it is free to, and the slots and     *)
(* items are accounted for.                                                *)
HasPut == {"post_mutex", "post"}
SlotTypes(T, Places) ==
  /\ pmutex \in {0, 1} /\ pempty \in Nat /\ pstored \in Nat
  /\ pbuff \in [0..NBUFF-1 -> Nat] /\ nput \in 0..nitems /\ nputval = nput
  /\ pc \in [T -> Places]
OneInside(T, Places) ==
  /\ \A t \in T : pc[t] \in Places => pmutex = 0
  /\ \A t, u \in T : pc[t] \in Places /\ pc[u] \in Places => t = u
Storing(P) == /\ \A p \in P : pc[p] \in {"store", "put"} => nput < nitems
              /\ \A p \in P : pc[p] = "put" => pbuff[nput % NBUFF] = nput
SlotsHold(from) == \A k \in from .. nput - 1 : pbuff[k % NBUFF] = k

Producing == {"wait_nempty", "wait_mutex", "test", "store", "put", "post_mutex", "post",
              "last_nempty", "last_mutex", "end"}
Consuming == {"loop", "wait_mutex", "fetch", "post_mutex", "post", "end"}
Inside3 == {"test", "store", "put", "fetch", "post_mutex", "last_nempty", "last_mutex"}
HasSlot3 == {"wait_mutex", "test", "store", "put", "last_nempty"}
ConsHas3 == IF pc[consumer] \in {"loop", "end"} THEN 0 ELSE 1
Types3 ==
  /\ SlotTypes(P3!Threads, Producing \cup Consuming)
  /\ \A p \in Producers : pc[p] \in Producing
  /\ pc[consumer] \in Consuming
  /\ i \in 0..nitems /\ (pc[consumer] \notin {"loop", "end"} => i < nitems)
  /\ (pc[consumer] = "end" => i = nitems)
  /\ seen \in Nat /\ count \in [Producers -> Nat]
Ends3 == \A p \in Producers : pc[p] \in {"last_nempty", "last_mutex", "end"} => nput >= nitems
Slots3 ==
  pempty + pstored + At(Producers, HasSlot3) + At(Producers, HasPut) + ConsHas3 = NBUFF
Items3 == pstored + At(Producers, HasPut) + ConsHas3 = nput - i
Counts3 == /\ IsFiniteSet(Units(count))
           /\ Total(count) + At(Producers, HasPut) = nput
Inv3 == /\ Types3 /\ OneInside(P3!Threads, Inside3) /\ Storing(Producers) /\ Ends3
        /\ Slots3 /\ Items3 /\ SlotsHold(P3!Fetched) /\ P3!NeverPrintsError /\ Counts3

Inside4 == {"test", "store", "put", "fetch", "get", "post_mutex", "last_nstored",
            "last_nempty", "last_mutex"}
HasSlot4 == {"wait_mutex", "test", "store", "put", "last_nstored", "last_nempty"}
HasItem4 == {"wait_mutex", "test", "fetch", "get"}
Last4    == {"last_nstored", "last_nempty", "last_mutex", "end"}
Producing4 == {"wait_nempty", "wait_mutex", "test", "store", "put", "post_mutex", "post"} \cup Last4
Consuming4 == {"wait_nstored", "wait_mutex", "test", "fetch", "get", "post_mutex", "post",
               "last_nstored", "last_mutex", "end"}
Types4 ==
  /\ SlotTypes(P4!Threads, Producing4 \cup Consuming4)
  /\ \A p \in SomeProducers : pc[p] \in Producing4
  /\ \A c \in Consumers : pc[c] \in Consuming4
  /\ nget \in 0..nput /\ ngetval = nget
  /\ seen \in [Consumers -> Nat] /\ count \in [P4!Threads -> Nat] /\ taken \in Nat \cup {-1}
Getting == \A c \in Consumers : /\ pc[c] \in {"fetch", "get"} => nget < nput
                                /\ pc[c] = "get" => seen[c] = nget
Ends4 == /\ \A p \in SomeProducers : pc[p] \in Last4 => nput >= nitems
         /\ \A c \in Consumers : pc[c] \in Last4 => nget >= nitems
Slots4 == pempty + At(SomeProducers, HasSlot4) + (nput - nget) + At(Consumers, HasPut) = NBUFF
Items4 == nput < nitems =>
            pstored + At(SomeProducers, HasPut) + At(Consumers, HasItem4) = nput - nget
CountsOf(S) == [t \in S |-> count[t]]
Counts4 == /\ IsFiniteSet(Units(CountsOf(SomeProducers)))
           /\ Total(CountsOf(SomeProducers)) + At(SomeProducers, HasPut) = nput
           /\ IsFiniteSet(Units(CountsOf(Consumers)))
           /\ Total(CountsOf(Consumers)) + At(Consumers, HasPut) = nget
Inv4 == /\ Types4 /\ OneInside(P4!Threads, Inside4) /\ Storing(SomeProducers) /\ Getting
        /\ Ends4 /\ Slots4 /\ Items4 /\ SlotsHold(nget) /\ Counts4

(* mycat2: where each thread is in the ring of buffers, and what lies      *)
(* between them.                                                           *)
CatPlaces == {"wait", "wait_mutex", "post_mutex", "use", "post", "post_last", "end"}
ProdHasBuffer == IF pc[producer] \in {"wait", "end"} THEN 0 ELSE 1
ConsHasBuffer == IF pc[consumer] = "wait" THEN 0 ELSE 1
NotWritten == pstored + IF pc[consumer] \in {"wait", "post"} THEN 0 ELSE 1
CatTypes ==
  /\ pmutex \in Nat /\ pempty \in Nat /\ pstored \in Nat
  /\ pbuff \in [0..NBUFF-1 -> Nat \cup {Cat!Eof, Cat!Failed}]
  /\ nputval \in 0..nitems \cup {Cat!Failed} /\ nput \in Nat /\ taken \in Nat \cup {-1}
  /\ pc \in [Cat!Threads -> CatPlaces]
  /\ pc[consumer] # "post_last"
  /\ count \in [Cat!Threads -> 0..NBUFF-1]
BuffersCount == pempty + pstored + ProdHasBuffer + ConsHasBuffer = NBUFF
ChunksInOrder == nputval # Cat!Failed =>
  /\ nput <= nputval
  /\ nput = taken + 1 + NotWritten + (IF pc[producer] = "post" THEN 1 ELSE 0)
                                   - (IF pc[producer] = "end" THEN 1 ELSE 0)
  /\ \A k \in taken + 1 .. nput - 1 : pbuff[k % NBUFF] = k
  /\ count[producer] = (IF pc[producer] = "post" THEN nput - 1 ELSE nput) % NBUFF
  /\ count[consumer] = (IF pc[consumer] = "post" THEN taken ELSE taken + 1) % NBUFF
  /\ pc[consumer] = "post" => taken >= 0
  /\ pc[producer] \in {"post_last", "end"} => nput = nputval /\ pbuff[nput % NBUFF] = Cat!Eof
  /\ pc[consumer] = "end" => pc[producer] = "end" /\ taken + 1 = nput
OnlyFailures == nputval = Cat!Failed =>
  /\ taken = -1 /\ nput = 0
  /\ pc[producer] \notin {"post_last", "end"} /\ pc[consumer] # "end"
  /\ count[producer] = (count[consumer] + pstored + ConsHasBuffer) % NBUFF
  /\ \A k \in 0 .. pstored + ConsHasBuffer - 1 + (IF pc[producer] = "post" THEN 1 ELSE 0) :
       pbuff[(count[consumer] + k) % NBUFF] = Cat!Failed
CatInv == CatTypes /\ BuffersCount /\ ChunksInOrder /\ OnlyFailures
-----------------------------------------------------------------------------
LEMMA ConstantFacts ==
  /\ IsFiniteSet(Producers) /\ Producers # {} /\ consumer \notin Producers
  /\ Nobody \notin Producers \cup {consumer}
  /\ IsFiniteSet(SomeProducers) /\ IsFiniteSet(Consumers) /\ Consumers # {}
  /\ SomeProducers \cap Consumers = {} /\ producer # consumer
  /\ MayBeIdle \subseteq Producers /\ NBUFF \in Nat \ {0} /\ nitems \in Nat
<1>1. P3!ProdConsConstants /\ P4!ProdConsConstants /\ Cat!CatConstants
  BY ProgramsAssumption
<1>2. C6!CondProdConsConstants /\ P1!NamedConstants
  BY ProgramsAssumption
<1>3. /\ IsFiniteSet(Producers) /\ consumer \notin Producers /\ NBUFF \in Nat \ {0}
      /\ nitems \in Nat
  BY <1>1 DEF P3!ProdConsConstants, P3!IsFiniteSet, IsFiniteSet
<1>4. /\ IsFiniteSet(SomeProducers) /\ IsFiniteSet(Consumers) /\ Consumers # {}
      /\ SomeProducers \cap Consumers = {}
  BY <1>1 DEF P4!ProdConsConstants, P4!IsFiniteSet, IsFiniteSet
<1>5. Producers # {} /\ Nobody \notin Producers \cup {consumer} /\ MayBeIdle \subseteq Producers
  BY <1>2 DEF C6!CondProdConsConstants, P1!NamedConstants
<1>6. producer # consumer
  BY <1>1 DEF Cat!CatConstants
<1> QED
  BY <1>3, <1>4, <1>5, <1>6

\* One thread goes from a place to another.
LEMMA AtMoves ==
  ASSUME NEW S, IsFiniteSet(S), NEW T, S \subseteq T, DOMAIN pc = T, NEW t \in T,
         NEW to, pc' = [pc EXCEPT ![t] = to], NEW Places
  PROVE  /\ At(S, Places) \in Nat /\ At(S, Places)' \in Nat
         /\ t \in S => At(S, Places)' = At(S, Places) + (IF to \in Places THEN 1 ELSE 0)
                                          - (IF pc[t] \in Places THEN 1 ELSE 0)
         /\ t \notin S => At(S, Places)' = At(S, Places)
<1>1. At(S, Places) \in Nat
  BY CountAt DEF At
<1>2. At(S, Places)' \in Nat
  BY CountAt DEF At
<1>3. CASE t \in S
  BY <1>1, <1>2, <1>3, CountMoves DEF At
<1>4. CASE t \notin S
  <2>1. \A u \in S : pc'[u] = pc[u]
    BY <1>4
  <2>2. {u \in S : pc'[u] \in Places} = {u \in S : pc[u] \in Places}
    BY <2>1
  <2> QED
    BY <1>1, <1>2, <1>4, <2>2, Zenon DEF At
<1> QED
  BY <1>1, <1>2, <1>3, <1>4

LEMMA AtNone ==
  ASSUME NEW S, IsFiniteSet(S), NEW Places
  PROVE  /\ At(S, Places) \in Nat
         /\ At(S, Places) = 0 <=> \A t \in S : pc[t] \notin Places
BY CountAt DEF At
-----------------------------------------------------------------------------
(* prodcons1 *)

LEMMA RunsInit == P1!Init => RunsInv
<1> SUFFICES ASSUME P1!Init PROVE RunsInv
  OBVIOUS
<1> USE ConstantFacts DEF P1!Init, P1!Names
<1>1. RunTypes
  <2>1. << >> \in Seq(Producers \cup {Nobody})
    OBVIOUS
  <2> QED
    BY <2>1 DEF RunTypes
<1>2. OwnOrNone /\ RunPlaces /\ NamesKept
  <2>1. \A r \in Producers : count[r] = << >> /\ nput[r] = 0 /\ pc[r] = "open"
    OBVIOUS
  <2> QED
    BY <2>1 DEF OwnOrNone, RunPlaces, NamesKept
<1> QED
  BY <1>1, <1>2 DEF RunsInv

LEMMA OpenStep ==
  ASSUME RunsInv, NEW r \in Producers, P1!Open(r)
  PROVE  RunsInv'
<1> DEFINE n == Len(count[r]) + 1
           one == P1!OpenNew(r, n)
<1> USE ConstantFacts DEF RunsInv
<1>0. count[r] \in Seq(Producers \cup {Nobody}) /\ nput[r] = 0 /\ pc[r] = "open"
  BY DEF P1!Open, RunTypes, RunPlaces
<1>1. /\ n \in P1!Names /\ one \in {r, Nobody}
      /\ one = IF pbuff[n] = Nobody THEN r ELSE Nobody
  BY <1>0 DEF P1!Open, P1!OpenNew, P1!Names
<1>2. /\ count' = [count EXCEPT ![r] = Append(count[r], one)]
      /\ pbuff' = [pbuff EXCEPT ![n] = IF pbuff[n] = Nobody THEN r ELSE pbuff[n]]
      /\ UNCHANGED <<nputval, nput, pc>>
  BY DEF P1!Open
<1> HIDE DEF one
<1>3. /\ count'[r] = Append(count[r], one) /\ \A q \in Producers \ {r} : count'[q] = count[q]
      /\ Len(count'[r]) = n /\ count'[r][n] = one
      /\ \A k \in 1 .. n - 1 : count'[r][k] = count[r][k]
  BY <1>0, <1>1, <1>2 DEF RunTypes
<1>4. RunTypes'
  <2>1. Append(count[r], one) \in Seq(Producers \cup {Nobody})
    BY <1>0, <1>1
  <2>2. count' \in [Producers -> Seq(Producers \cup {Nobody})]
    BY <1>2, <2>1 DEF RunTypes
  <2>3. pbuff' \in [P1!Names -> Producers \cup {Nobody}]
    BY <1>2 DEF RunTypes
  <2> QED
    BY <1>2, <2>2, <2>3 DEF RunTypes
<1>5. OwnOrNone'
  BY <1>1, <1>3, SMTT(30) DEF OwnOrNone, P1!Names
<1>6. RunPlaces'
  <2>1. \A q \in Producers \ {r} : P1!HasAll(q)' = P1!HasAll(q)
    BY <1>3 DEF P1!HasAll
  <2> QED
    BY <1>0, <1>2, <1>3, <2>1 DEF RunPlaces
<1>7. NamesKept'
  <2> SUFFICES ASSUME nputval = {}, NEW q \in Producers, NEW k \in 1 .. Len(count'[q]),
                      count'[q][k] = q, k > nput[q]
               PROVE  pbuff'[k] = q
    BY <1>2 DEF NamesKept
  <2>1. pbuff \in [P1!Names -> Producers \cup {Nobody}]
    BY DEF RunTypes
  <2>2. CASE q = r /\ k = n
    BY <1>1, <1>2, <1>3, <2>1, <2>2
  <2>3. CASE q # r \/ k # n
    <3>1. k \in 1 .. Len(count[q]) /\ count[q][k] = q
      BY <1>0, <1>3, <2>3
    <3>2. pbuff[k] = q
      BY <3>1 DEF NamesKept
    <3> QED
      BY <1>2, <2>1, <3>2
  <2> QED
    BY <2>2, <2>3
<1> QED
  BY <1>4, <1>5, <1>6, <1>7

\* The threads are created, and joined when the run has all semaphores.
LEMMA WorkStep ==
  ASSUME RunsInv, NEW r \in Producers, P1!CreateThreads(r) \/ P1!JoinThreads(r)
  PROVE  RunsInv'
<1> USE DEF RunsInv, P1!CreateThreads, P1!JoinThreads, P1!Goto
<1>1. UNCHANGED <<pbuff, nputval, count, nput>>
  OBVIOUS
<1>2. RunTypes'
  BY DEF RunTypes
<1>3. OwnOrNone' /\ NamesKept'
  BY <1>1 DEF OwnOrNone, NamesKept
<1>4. RunPlaces'
  <2>1. \A q \in Producers : P1!HasAll(q)' = P1!HasAll(q)
    BY <1>1 DEF P1!HasAll
  <2>2. \A q \in Producers \ {r} : pc'[q] = pc[q]
    BY DEF RunTypes
  <2>3. pc'[r] \in {"work", "unlink"} /\ nput[r] = 0
    BY DEF RunTypes, RunPlaces
  <2>4. pc'[r] = "work" => Len(count[r]) = 3
    BY DEF RunTypes
  <2>5. nputval = {} /\ pc'[r] = "unlink" => P1!HasAll(r)
    BY DEF RunTypes
  <2> QED
    BY <1>1, <2>1, <2>2, <2>3, <2>4, <2>5 DEF RunPlaces
<1> QED
  BY <1>2, <1>3, <1>4

\* The run ends or is killed.
LEMMA GoneStep ==
  ASSUME RunsInv, NEW r \in Producers, P1!Gone(r), NEW to \in {"dead", "end"},
         pc' = [pc EXCEPT ![r] = to]
  PROVE  RunsInv'
<1> USE DEF RunsInv, P1!Gone
<1>1. /\ count'[r] = << >> /\ \A q \in Producers \ {r} : count'[q] = count[q]
      /\ nput'[r] = 0 /\ \A q \in Producers \ {r} : nput'[q] = nput[q]
      /\ pc'[r] = to /\ \A q \in Producers \ {r} : pc'[q] = pc[q]
      /\ UNCHANGED <<pbuff, nputval>>
  BY DEF RunTypes
<1>2. RunTypes'
  <2>1. << >> \in Seq(Producers \cup {Nobody})
    OBVIOUS
  <2> QED
    BY <2>1 DEF RunTypes
<1>3. OwnOrNone' /\ NamesKept'
  BY <1>1 DEF OwnOrNone, NamesKept
<1>4. RunPlaces'
  <2>1. \A q \in Producers \ {r} : P1!HasAll(q)' = P1!HasAll(q)
    BY <1>1 DEF P1!HasAll
  <2> QED
    BY <1>1, <2>1 DEF RunPlaces
<1> QED
  BY <1>2, <1>3, <1>4

LEMMA UnlinkStep ==
  ASSUME RunsInv, NEW r \in Producers, P1!Unlink(r)
  PROVE  RunsInv'
<1> DEFINE n == nput[r] + 1
<1> USE ConstantFacts DEF RunsInv
<1>1. /\ pc[r] = "unlink" /\ n \in 1..3 /\ n \in P1!Names
      /\ nput' = [nput EXCEPT ![r] = n] /\ nput'[r] = n
      /\ pbuff' = [pbuff EXCEPT ![n] = Nobody]
      /\ UNCHANGED <<nputval, count, pc>>
  <2>1. pc[r] = "unlink" /\ nput[r] \in 0..2 /\ UNCHANGED <<nputval, count, pc>>
    BY DEF P1!Unlink, RunTypes
  <2>2. nput' = [nput EXCEPT ![r] = n] /\ nput'[r] = n
    BY DEF P1!Unlink, RunTypes
  <2>3. pbuff' = [pbuff EXCEPT ![n] = Nobody]
    BY <2>2 DEF P1!Unlink
  <2> QED
    BY <2>1, <2>2, <2>3 DEF P1!Names
<1>2. RunTypes'
  BY <1>1 DEF RunTypes
<1>3. OwnOrNone'
  BY <1>1 DEF OwnOrNone
<1>4. RunPlaces'
  <2>1. \A q \in Producers : P1!HasAll(q)' = P1!HasAll(q)
    BY <1>1 DEF P1!HasAll
  <2>2. \A q \in Producers \ {r} : nput'[q] = nput[q]
    BY <1>1 DEF RunTypes
  <2> QED
    BY <1>1, <2>1, <2>2 DEF RunPlaces
<1>5. NamesKept'
  <2> SUFFICES ASSUME nputval = {}, NEW q \in Producers, NEW k \in 1 .. Len(count[q]),
                      count[q][k] = q, k > nput'[q]
               PROVE  pbuff'[k] = q
    BY <1>1 DEF NamesKept
  <2>1. /\ pbuff \in [P1!Names -> Producers \cup {Nobody}] /\ nput[r] \in 0..3
        /\ nput \in [Producers -> 0..3]
    BY DEF RunTypes
  <2>2. k > nput[q] /\ pbuff[k] = q
    BY <1>1, <2>1 DEF NamesKept
  <2>3. k # n
    <3>1. CASE q = r
      BY <1>1, <2>1, <3>1
    <3>2. CASE q # r
      <4>1. P1!HasAll(r) /\ Len(count[r]) = 3 /\ count[r][n] # Nobody
        BY <1>1 DEF RunPlaces, P1!HasAll
      <4>2. count[r][n] = r
        BY <1>1, <4>1 DEF OwnOrNone
      <4>3. pbuff[n] = r
        BY <1>1, <2>1, <4>1, <4>2 DEF NamesKept
      <4> QED
        BY <2>2, <3>2, <4>3
    <3> QED
      BY <3>1, <3>2
  <2> QED
    BY <1>1, <2>1, <2>2, <2>3
<1> QED
  BY <1>2, <1>3, <1>4, <1>5

LEMMA RunSteps ==
  ASSUME RunsInv, NEW r \in Producers, P1!Step(r) \/ P1!Kill(r)
  PROVE  RunsInv'
<1>1. CASE P1!NullSemaphore(r)
  BY <1>1, GoneStep DEF P1!NullSemaphore, P1!Goto
<1>2. CASE P1!Exit(r)
  BY <1>2, GoneStep DEF P1!Exit, P1!Goto
<1>3. CASE P1!Kill(r)
  BY <1>3, GoneStep DEF P1!Kill
<1> QED
  BY <1>1, <1>2, <1>3, OpenStep, WorkStep, UnlinkStep DEF P1!Step

\* No step of a run takes a semaphore or a name from another.
LEMMA RunsApart ==
  ASSUME RunsInv, NEW r \in Producers, P1!Step(r) \/ P1!Kill(r)
  PROVE  P1!NoneShared /\ P1!RemovesOwn /\ P1!LeftForGood
<1>1. P1!NoneShared
  <2> SUFFICES ASSUME NEW q \in Producers, P1!HasAll(q), NEW n \in P1!Names
               PROVE  count[q][n] = q
    BY DEF P1!NoneShared
  <2> QED
    BY DEF RunsInv, OwnOrNone, P1!HasAll, P1!Names
<1>2. P1!RemovesOwn
  <2> SUFFICES ASSUME nputval = {}, NEW n \in P1!Names, pbuff'[n] # pbuff[n],
                      pbuff[n] # Nobody
               PROVE  nput'[pbuff[n]] = n
    BY DEF P1!RemovesOwn
  <2>1. pbuff \in [P1!Names -> Producers \cup {Nobody}]
    BY DEF RunsInv, RunTypes
  <2>2. P1!Unlink(r)
    BY <2>1 DEF P1!Step, P1!Kill, P1!Gone, P1!Open, P1!CreateThreads, P1!JoinThreads,
       P1!NullSemaphore, P1!Exit
  <2>3. nput'[r] = n /\ pc[r] = "unlink" /\ n > nput[r]
    <3>1. nput \in [Producers -> 0..3] /\ pc[r] = "unlink" /\ nput[r] \in 0..2
      BY <2>2 DEF P1!Unlink, RunsInv, RunTypes
    <3>2. nput'[r] = nput[r] + 1
      BY <2>2, <3>1 DEF P1!Unlink
    <3>3. pbuff' = [pbuff EXCEPT ![nput[r] + 1] = Nobody]
      BY <2>2, <3>2 DEF P1!Unlink
    <3> QED
      BY <2>1, <3>1, <3>2, <3>3
  <2>4. count[r][n] = r /\ Len(count[r]) = 3
    BY <2>3 DEF RunsInv, RunPlaces, OwnOrNone, P1!HasAll, P1!Names
  <2>5. pbuff[n] = r
    BY <2>3, <2>4 DEF RunsInv, NamesKept, P1!Names
  <2> QED
    BY <2>3, <2>5
<1>3. P1!LeftForGood
  <2> SUFFICES ASSUME nputval = {}, NEW n \in P1!Names, pbuff[n] # Nobody,
                      pc[pbuff[n]] = "dead",
                      NEW q \in Producers, ~P1!HasAll(q), P1!HasAll(q)'
               PROVE  FALSE
    BY DEF P1!LeftForGood, P1!Left
  <2>1. /\ pbuff \in [P1!Names -> Producers \cup {Nobody}]
        /\ count \in [Producers -> Seq(Producers \cup {Nobody})]
    BY DEF RunsInv, RunTypes
  <2>2. count' # count
    BY DEF P1!HasAll
  <2>3. P1!Open(r)
    <3>1. ASSUME P1!Gone(r) PROVE FALSE
      <4>1. count'[q] = << >> \/ count'[q] = count[q]
        BY <2>1, <3>1 DEF P1!Gone
      <4> QED
        BY <4>1 DEF P1!HasAll
    <3> QED
      BY <2>2, <3>1 DEF P1!Step, P1!Kill, P1!CreateThreads, P1!JoinThreads,
         P1!NullSemaphore, P1!Unlink, P1!Exit
  <2>4. q = r /\ pc[q] = "open" /\ nput[q] = 0
    <3>1. q # r => count'[q] = count[q]
      BY <2>1, <2>3 DEF P1!Open
    <3> QED
      BY <2>3, <3>1 DEF P1!HasAll, P1!Open, RunsInv, RunPlaces
  <2>5. /\ Len(count[q]) = 2 /\ count'[q] = Append(count[q], P1!OpenNew(q, 3))
    <3>1. count'[q] = Append(count[q], P1!OpenNew(q, Len(count[q]) + 1))
      BY <2>1, <2>3, <2>4 DEF P1!Open
    <3>2. Len(count'[q]) = Len(count[q]) + 1 /\ Len(count[q]) \in Nat
      BY <2>1, <3>1
    <3>3. Len(count'[q]) = 3
      BY DEF P1!HasAll
    <3>5. Len(count[q]) + 1 = 3
      BY <3>2, <3>3, Zenon
    <3>6. \A l \in Nat : l + 1 = 3 => l = 2
      OBVIOUS
    <3>4. Len(count[q]) = 2
      BY <3>2, <3>5, <3>6, Zenon
    <3> QED
      BY <3>1, <3>4, <3>5
  <2>6. n = 3 => count'[q][n] = Nobody
    <3>1. n = 3 => P1!OpenNew(q, 3) = Nobody
      BY DEF P1!OpenNew
    <3>2. ASSUME NEW S, NEW s \in Seq(S), NEW x PROVE Append(s, x)[Len(s) + 1] = x
      OBVIOUS
    <3>3. count'[q][3] = P1!OpenNew(q, 3)
      <4>1. Append(count[q], P1!OpenNew(q, 3))[Len(count[q]) + 1] = P1!OpenNew(q, 3)
        BY <2>1, <3>2
      <4>2. Len(count[q]) + 1 = 3
        BY <2>5
      <4> QED
        BY <2>5, <4>1, <4>2, Zenon
    <3> QED
      BY <3>1, <3>3
  <2>7. n \in 1..2 => count[q][n] = q
    <3>1. ASSUME n \in 1..2 PROVE count'[q][n] = count[q][n]
      <4>1. ASSUME NEW S, NEW s \in Seq(S), NEW x, NEW j \in 1 .. Len(s)
            PROVE  Append(s, x)[j] = s[j]
        OBVIOUS
      <4>2. n \in 1 .. Len(count[q])
        BY <2>5, <3>1
      <4>3. Append(count[q], P1!OpenNew(q, 3))[n] = count[q][n]
        BY <2>1, <4>1, <4>2
      <4> QED
        BY <2>5, <4>3, Zenon
    <3>2. count'[q][n] # Nobody
      BY DEF P1!HasAll
    <3> QED
      BY <2>5, <3>1, <3>2 DEF RunsInv, OwnOrNone
  <2>8. n \in 1..2 => pbuff[n] = q
    BY <2>4, <2>5, <2>7 DEF RunsInv, NamesKept
  <2>9. count'[q][n] # Nobody
    BY DEF P1!HasAll
  <2> QED
    BY <2>4, <2>6, <2>8, <2>9 DEF P1!Names
<1> QED
  BY <1>1, <1>2, <1>3
\* The totals of the modules are those of Totals.
LEMMA SameTotals ==
  /\ \A f : C6!Total(f) = Total(f)
  /\ \A f : Arr!Total(f) = Total(f)
  /\ \A f : P3!Total(f) = Total(f)
  /\ \A f : P4!Total(f) = Total(f)
<1>1. \A S : C6!Cardinality(S) = Cardinality(S)
  BY DEF C6!Cardinality, Cardinality
<1>2. \A S : Arr!Cardinality(S) = Cardinality(S)
  BY DEF Arr!Cardinality, Cardinality
<1>3. \A S : P3!Cardinality(S) = Cardinality(S)
  BY DEF P3!Cardinality, Cardinality
<1>4. \A S : P4!Cardinality(S) = Cardinality(S)
  BY DEF P4!Cardinality, Cardinality
<1>5. \A f : C6!Total(f) = Total(f)
  BY <1>1 DEF C6!Total, C6!Units, Total, Units
<1>6. \A f : Arr!Total(f) = Total(f)
  BY <1>2 DEF Arr!Total, Arr!Units, Total, Units
<1>7. \A f : P3!Total(f) = Total(f)
  BY <1>3 DEF P3!Total, P3!Units, Total, Units
<1>8. \A f : P4!Total(f) = Total(f)
  BY <1>4 DEF P4!Total, P4!Units, Total, Units
<1> QED
  BY <1>5, <1>6, <1>7, <1>8

\* A thread has counted one item more.
LEMMA OneMoreCounted ==
  ASSUME NEW S, count \in [S -> Nat], IsFiniteSet(Units(count)), NEW t \in S,
         count' = [count EXCEPT ![t] = @ + 1]
  PROVE  /\ count' \in [S -> Nat] /\ IsFiniteSet(Units(count'))
         /\ Total(count) \in Nat /\ Total(count') = Total(count) + 1
<1>1. count' \in [S -> Nat] /\ OneMore(S, count, t, count')
  BY DEF OneMore
<1> QED
  BY <1>1, TotalPlusOne
-----------------------------------------------------------------------------
(* prodcons6 *)

Uncounted == At(Producers, Unready)
Comparing == IF pc[consumer] = "compare" THEN 1 ELSE 0

LEMMA CondInit == C6!Init => CondInv
<1> SUFFICES ASSUME C6!Init PROVE CondInv
  OBVIOUS
<1> USE ConstantFacts DEF C6!Init, C6!Threads
<1>1. CondTypes
  <2>1. pc \in [C6!Threads -> Storing6 \cup Waiting6]
    BY DEF Storing6, Waiting6
  <2>2. /\ \A p \in Producers : pc[p] = "lock_put"
        /\ pc[consumer] = "loop" /\ count \in [Producers -> Nat]
    OBVIOUS
  <2>3. pbuff \in [0..nitems-1 -> Nat] /\ asleep \in BOOLEAN
    OBVIOUS
  <2> QED
    BY <2>1, <2>2, <2>3 DEF CondTypes, Storing6, Waiting6
<1>2. CondOwners /\ ArrayFilled /\ PutEnds /\ Sleeps
  BY DEF CondOwners, ArrayFilled, PutEnds, Sleeps
<1>3. Uncounted = 0
  BY AtNone DEF Uncounted, Unready
<1>4. IsFiniteSet(Units(count)) /\ Total(count) = 0
  BY TotalOfNothing
<1>5. CondAccounted /\ CondCounts
  BY <1>3, <1>4 DEF CondAccounted, CondCounts, Uncounted
<1> QED
  BY <1>1, <1>2, <1>5 DEF CondInv

LEMMA ProducerMoves6 ==
  ASSUME CondInv, NEW p \in Producers,
         NEW to \in Storing6,
         pc' = [pc EXCEPT ![p] = to]
  PROVE  /\ pc' \in [C6!Threads -> Storing6 \cup Waiting6]
         /\ pc'[p] = to /\ \A t \in C6!Threads \ {p} : pc'[t] = pc[t]
         /\ pc'[consumer] = pc[consumer]
         /\ \A q \in Producers : pc'[q] \in Storing6
         /\ Uncounted \in Nat
         /\ Uncounted' = Uncounted + (IF to \in Unready THEN 1 ELSE 0)
                           - (IF pc[p] \in Unready THEN 1 ELSE 0)
<1>1. pc \in [C6!Threads -> Storing6 \cup Waiting6]
  BY DEF CondInv, CondTypes
<1>2. /\ Producers \subseteq C6!Threads /\ consumer \in C6!Threads /\ p # consumer
      /\ DOMAIN pc = C6!Threads /\ p \in C6!Threads /\ IsFiniteSet(Producers)
  BY <1>1, ConstantFacts DEF C6!Threads
<1>3. /\ Uncounted \in Nat
      /\ Uncounted' = Uncounted + (IF to \in Unready THEN 1 ELSE 0)
                        - (IF pc[p] \in Unready THEN 1 ELSE 0)
  BY <1>2, AtMoves, ZenonT(60) DEF Uncounted
<1>4. pc'[p] = to /\ \A t \in C6!Threads \ {p} : pc'[t] = pc[t]
  BY <1>1, <1>2
<1>5. \A q \in Producers : pc[q] \in Storing6
  BY DEF CondInv, CondTypes
<1> QED
  BY <1>1, <1>2, <1>3, <1>4, <1>5

LEMMA ConsumerMoves6 ==
  ASSUME CondInv, NEW to \in Waiting6,
         pc' = [pc EXCEPT ![consumer] = to]
  PROVE  /\ pc' \in [C6!Threads -> Storing6 \cup Waiting6]
         /\ pc'[consumer] = to /\ \A p \in Producers : pc'[p] = pc[p]
         /\ Uncounted \in Nat /\ Uncounted' = Uncounted
<1>1. pc \in [C6!Threads -> Storing6 \cup Waiting6]
  BY DEF CondInv, CondTypes
<1>2. /\ Producers \subseteq C6!Threads /\ consumer \in C6!Threads /\ consumer \notin Producers
      /\ DOMAIN pc = C6!Threads /\ IsFiniteSet(Producers)
  BY <1>1, ConstantFacts DEF C6!Threads
<1>3. Uncounted \in Nat /\ Uncounted' = Uncounted
  BY <1>2, AtMoves, ZenonT(60) DEF Uncounted
<1> QED
  BY <1>1, <1>2, <1>3

LEMMA LockPutStep6 ==
  ASSUME CondInv, NEW p \in Producers, C6!LockPut(p)
  PROVE  CondInv'
<1>1. /\ pc[p] = "lock_put" /\ pc' = [pc EXCEPT ![p] = "store"]
      /\ put_mutex = Nobody /\ put_mutex' = p
      /\ UNCHANGED <<pbuff, nput, nputval, nready_mutex, nready, asleep, i, count>>
  BY DEF C6!LockPut, C6!Goto, C6!ready, C6!cons
<1>2. /\ pc'[p] = "store" /\ \A t \in C6!Threads \ {p} : pc'[t] = pc[t]
      /\ pc'[consumer] = pc[consumer] /\ Uncounted \in Nat /\ Uncounted' = Uncounted
  <2>1. /\ pc'[p] = "store" /\ \A t \in C6!Threads \ {p} : pc'[t] = pc[t]
        /\ pc'[consumer] = pc[consumer] /\ Uncounted \in Nat
        /\ Uncounted' = Uncounted + (IF "store" \in Unready THEN 1 ELSE 0)
                          - (IF pc[p] \in Unready THEN 1 ELSE 0)
    BY <1>1, ProducerMoves6 DEF Storing6
  <2> QED
    BY <1>1, <2>1 DEF Unready
<1>3. CondTypes'
  BY <1>1, ProducerMoves6 DEF CondInv, CondTypes, Storing6
<1>4. CondOwners'
  BY <1>1, <1>2, ConstantFacts DEF CondInv, CondOwners, C6!Threads
<1>5. ArrayFilled' /\ PutEnds' /\ Sleeps'
  BY <1>1, <1>2 DEF CondInv, ArrayFilled, PutEnds, Sleeps, C6!Threads
<1>6. CondAccounted' /\ CondCounts'
  BY <1>1, <1>2 DEF CondInv, CondAccounted, CondCounts, Uncounted
<1> QED
  BY <1>3, <1>4, <1>5, <1>6 DEF CondInv

LEMMA ReturnStep6 ==
  ASSUME CondInv, NEW p \in Producers, C6!ProducerReturns(p)
  PROVE  CondInv'
<1>1. /\ pc[p] = "store" /\ pc' = [pc EXCEPT ![p] = "end"]
      /\ put_mutex' = Nobody /\ nput >= nitems
      /\ UNCHANGED <<pbuff, nput, nputval, nready_mutex, nready, asleep, i, count>>
  BY DEF C6!ProducerReturns, C6!AllStored, C6!Goto, C6!ready, C6!cons
<1>2. /\ pc'[p] = "end" /\ \A t \in C6!Threads \ {p} : pc'[t] = pc[t]
      /\ pc'[consumer] = pc[consumer] /\ Uncounted \in Nat /\ Uncounted' = Uncounted
  <2>1. /\ pc'[p] = "end" /\ \A t \in C6!Threads \ {p} : pc'[t] = pc[t]
        /\ pc'[consumer] = pc[consumer] /\ Uncounted \in Nat
        /\ Uncounted' = Uncounted + (IF "end" \in Unready THEN 1 ELSE 0)
                          - (IF pc[p] \in Unready THEN 1 ELSE 0)
    BY <1>1, ProducerMoves6 DEF Storing6
  <2> QED
    BY <1>1, <2>1 DEF Unready
<1>3. CondTypes'
  BY <1>1, ProducerMoves6 DEF CondInv, CondTypes, Storing6
<1>4. CondOwners'
  BY <1>1, <1>2, ConstantFacts DEF CondInv, CondOwners, C6!Threads
<1>5. ArrayFilled' /\ PutEnds' /\ Sleeps'
  BY <1>1, <1>2 DEF CondInv, ArrayFilled, PutEnds, Sleeps, C6!Threads
<1>6. CondAccounted' /\ CondCounts'
  BY <1>1, <1>2 DEF CondInv, CondAccounted, CondCounts, Uncounted
<1> QED
  BY <1>3, <1>4, <1>5, <1>6 DEF CondInv

LEMMA StoreStep6 ==
  ASSUME CondInv, NEW p \in Producers, C6!Store(p)
  PROVE  CondInv'
<1>0. nput \in Nat /\ nputval = nput /\ pbuff \in [0..nitems-1 -> Nat] /\ nitems \in Nat
  BY ConstantFacts DEF CondInv, CondTypes
<1>1. /\ pc[p] = "store" /\ pc' = [pc EXCEPT ![p] = "lock_nready"]
      /\ put_mutex' = Nobody /\ nput < nitems
      /\ nput' = nput + 1 /\ nputval' = nput + 1
      /\ pbuff' = [pbuff EXCEPT ![nput] = nput]
      /\ UNCHANGED <<nready_mutex, nready, asleep, i, count>>
  BY <1>0 DEF C6!Store, C6!AllStored, C6!Goto, C6!ready, C6!cons
<1>2. /\ pc'[p] = "lock_nready" /\ \A t \in C6!Threads \ {p} : pc'[t] = pc[t]
      /\ pc'[consumer] = pc[consumer] /\ Uncounted \in Nat /\ Uncounted' = Uncounted + 1
  <2>1. /\ pc'[p] = "lock_nready" /\ \A t \in C6!Threads \ {p} : pc'[t] = pc[t]
        /\ pc'[consumer] = pc[consumer] /\ Uncounted \in Nat
        /\ Uncounted' = Uncounted + (IF "lock_nready" \in Unready THEN 1 ELSE 0)
                          - (IF pc[p] \in Unready THEN 1 ELSE 0)
    BY <1>1, ProducerMoves6 DEF Storing6
  <2> QED
    BY <1>1, <2>1 DEF Unready
<1>3. CondTypes'
  <2>1. pbuff' \in [0..nitems-1 -> Nat] /\ nput' \in 0..nitems
    BY <1>0, <1>1
  <2>2. /\ pc' \in [C6!Threads -> Storing6 \cup Waiting6]
        /\ \A q \in Producers : pc'[q] \in Storing6
    BY <1>1, ProducerMoves6 DEF Storing6
  <2> QED
    BY <1>1, <1>2, <2>1, <2>2 DEF CondInv, CondTypes
<1>4. CondOwners'
  BY <1>1, <1>2, ConstantFacts DEF CondInv, CondOwners, C6!Threads
<1>5. ArrayFilled' /\ Sleeps'
  BY <1>0, <1>1, <1>2 DEF CondInv, ArrayFilled, Sleeps
<1>6. PutEnds'
  BY <1>0, <1>1, <1>2 DEF CondInv, PutEnds, C6!Threads
<1>7. nready \in Nat /\ i \in Nat
  BY DEF CondInv, CondTypes
<1>8. CondAccounted'
  BY <1>0, <1>1, <1>2, <1>7, SMTT(30) DEF CondInv, CondAccounted, Uncounted
<1>9. CondCounts'
  BY <1>0, <1>1, <1>2, FS_CardinalityType DEF CondInv, CondCounts, Uncounted, Total
<1> QED
  BY <1>3, <1>4, <1>5, <1>6, <1>8, <1>9 DEF CondInv

LEMMA LockReadyStep6 ==
  ASSUME CondInv, NEW p \in Producers, C6!LockReady(p)
  PROVE  CondInv'
<1>1. /\ pc[p] = "lock_nready" /\ pc' = [pc EXCEPT ![p] = "count"]
      /\ nready_mutex = Nobody /\ nready_mutex' = p
      /\ UNCHANGED <<pbuff, put_mutex, nput, nputval, nready, asleep, i, count>>
  BY DEF C6!LockReady, C6!Goto, C6!put, C6!cons
<1>2. /\ pc'[p] = "count" /\ \A t \in C6!Threads \ {p} : pc'[t] = pc[t]
      /\ pc'[consumer] = pc[consumer] /\ Uncounted \in Nat /\ Uncounted' = Uncounted
  <2>1. /\ pc'[p] = "count" /\ \A t \in C6!Threads \ {p} : pc'[t] = pc[t]
        /\ pc'[consumer] = pc[consumer] /\ Uncounted \in Nat
        /\ Uncounted' = Uncounted + (IF "count" \in Unready THEN 1 ELSE 0)
                          - (IF pc[p] \in Unready THEN 1 ELSE 0)
    BY <1>1, ProducerMoves6 DEF Storing6
  <2> QED
    BY <1>1, <2>1 DEF Unready
<1>3. CondTypes'
  BY <1>1, ProducerMoves6 DEF CondInv, CondTypes, Storing6
<1>4. CondOwners'
  BY <1>1, <1>2, ConstantFacts DEF CondInv, CondOwners, C6!Threads
<1>5. ArrayFilled' /\ PutEnds' /\ Sleeps'
  BY <1>1, <1>2 DEF CondInv, ArrayFilled, PutEnds, Sleeps, C6!Threads
<1>6. CondAccounted' /\ CondCounts'
  BY <1>1, <1>2 DEF CondInv, CondAccounted, CondCounts, Uncounted
<1> QED
  BY <1>3, <1>4, <1>5, <1>6 DEF CondInv

\* The consumer that sleeps because nothing was ready is woken.
LEMMA CountStep6 ==
  ASSUME CondInv, NEW p \in Producers, C6!CountReady(p)
  PROVE  CondInv'
<1>0. /\ nput \in Nat /\ nready \in Nat /\ i \in Nat /\ asleep \in BOOLEAN
      /\ count \in [Producers -> Nat] /\ IsFiniteSet(Units(count))
  BY ConstantFacts DEF CondInv, CondTypes, CondCounts
<1>1. /\ pc[p] = "count" /\ pc' = [pc EXCEPT ![p] = "lock_put"]
      /\ nready_mutex' = Nobody /\ nready' = nready + 1
      /\ asleep' = (asleep /\ nready # 0)
      /\ count' = [count EXCEPT ![p] = @ + 1]
      /\ UNCHANGED <<pbuff, put_mutex, nput, nputval, i>>
  BY DEF C6!CountReady, C6!Signal, C6!Goto, C6!put, C6!cons
<1>2. /\ pc'[p] = "lock_put" /\ \A t \in C6!Threads \ {p} : pc'[t] = pc[t]
      /\ pc'[consumer] = pc[consumer] /\ Uncounted \in Nat /\ Uncounted' = Uncounted - 1
  <2>1. /\ pc'[p] = "lock_put" /\ \A t \in C6!Threads \ {p} : pc'[t] = pc[t]
        /\ pc'[consumer] = pc[consumer] /\ Uncounted \in Nat
        /\ Uncounted' = Uncounted + (IF "lock_put" \in Unready THEN 1 ELSE 0)
                          - (IF pc[p] \in Unready THEN 1 ELSE 0)
    BY <1>1, ProducerMoves6 DEF Storing6
  <2> QED
    BY <1>1, <2>1 DEF Unready
<1>3. /\ count' \in [Producers -> Nat] /\ IsFiniteSet(Units(count'))
      /\ Total(count) \in Nat /\ Total(count') = Total(count) + 1
  BY <1>0, <1>1, OneMoreCounted
<1>4. ~asleep'
  BY <1>1, Zenon DEF CondInv, Sleeps
<1>5. CondTypes'
  <2>1. asleep' \in BOOLEAN
    BY <1>1, Zenon
  <2>2. /\ pc' \in [C6!Threads -> Storing6 \cup Waiting6]
        /\ \A q \in Producers : pc'[q] \in Storing6
    BY <1>1, ProducerMoves6 DEF Storing6
  <2>3. nready' \in Nat /\ UNCHANGED <<pbuff, put_mutex, nput, nputval, i>>
    BY <1>0, <1>1
  <2>4. nready_mutex' \in Producers \cup {consumer, Nobody}
    BY <1>1
  <2> QED
    BY <1>2, <1>3, <2>1, <2>2, <2>3, <2>4 DEF CondInv, CondTypes
<1>6. CondOwners'
  BY <1>1, <1>2, ConstantFacts DEF CondInv, CondOwners, C6!Threads
<1>7. ArrayFilled' /\ PutEnds' /\ Sleeps'
  BY <1>1, <1>2, <1>4 DEF CondInv, ArrayFilled, PutEnds, Sleeps, C6!Threads
<1>8. CondAccounted'
  BY <1>0, <1>1, <1>2 DEF CondInv, CondAccounted, Uncounted
<1>9. CondCounts'
  BY <1>0, <1>1, <1>2, <1>3 DEF CondInv, CondCounts, Uncounted
<1> QED
  BY <1>5, <1>6, <1>7, <1>8, <1>9 DEF CondInv

\* The consumer takes the mutex of nready, or ends: nothing else changes.
LEMMA LocksStep6 ==
  ASSUME CondInv, C6!ConsumerLocks \/ C6!WaitReturns \/ C6!ConsumerReturns
  PROVE  CondInv'
<1>1. /\ pc[consumer] \in {"loop", "wait"}
      /\ UNCHANGED <<pbuff, put_mutex, nput, nputval, nready, asleep, i, count>>
  BY DEF C6!ConsumerLocks, C6!WaitReturns, C6!ConsumerReturns, C6!Goto, C6!put, C6!cons, C6!ready
<1>2. \/ pc' = [pc EXCEPT ![consumer] = "test"] /\ nready_mutex = Nobody /\ nready_mutex' = consumer
      \/ pc' = [pc EXCEPT ![consumer] = "end"] /\ nready_mutex' = nready_mutex
  BY DEF C6!ConsumerLocks, C6!WaitReturns, C6!ConsumerReturns, C6!Goto, C6!ready
<1>3. /\ pc[consumer] = "wait" => ~asleep
      /\ pc[consumer] = "loop" => ~asleep
  BY DEF CondInv, Sleeps, C6!ConsumerLocks, C6!WaitReturns, C6!ConsumerReturns, C6!Goto
<1>4. /\ pc' \in [C6!Threads -> Storing6 \cup Waiting6]
      /\ \A p \in Producers : pc'[p] = pc[p]
      /\ Uncounted \in Nat /\ Uncounted' = Uncounted
      /\ \/ pc'[consumer] = "test" /\ nready_mutex = Nobody /\ nready_mutex' = consumer
         \/ pc'[consumer] = "end" /\ nready_mutex' = nready_mutex
  <2>1. CASE pc' = [pc EXCEPT ![consumer] = "test"]
    BY <1>2, <2>1, ConsumerMoves6 DEF Waiting6
  <2>2. CASE pc' = [pc EXCEPT ![consumer] = "end"]
    BY <1>2, <2>2, ConsumerMoves6 DEF Waiting6
  <2> QED
    BY <1>2, <2>1, <2>2
<1>5. CondTypes'
  BY <1>1, <1>4 DEF CondInv, CondTypes, Waiting6
<1>6. CondOwners'
  BY <1>1, <1>4, ConstantFacts DEF CondInv, CondOwners
<1>7. ArrayFilled' /\ PutEnds' /\ Sleeps'
  BY <1>1, <1>3, <1>4 DEF CondInv, ArrayFilled, PutEnds, Sleeps
<1>8. CondAccounted' /\ CondCounts'
  BY <1>1, <1>4 DEF CondInv, CondAccounted, CondCounts, Uncounted
<1> QED
  BY <1>5, <1>6, <1>7, <1>8 DEF CondInv

LEMMA WaitStep6 ==
  ASSUME CondInv, C6!Wait
  PROVE  CondInv'
<1>1. /\ pc[consumer] = "test" /\ pc' = [pc EXCEPT ![consumer] = "wait"]
      /\ nready = 0 /\ asleep' = TRUE /\ nready_mutex' = Nobody
      /\ UNCHANGED <<pbuff, put_mutex, nput, nputval, nready, i, count>>
  BY DEF C6!Wait, C6!NoneReady, C6!Goto, C6!put
<1>2. /\ pc' \in [C6!Threads -> Storing6 \cup Waiting6]
      /\ \A p \in Producers : pc'[p] = pc[p]
      /\ Uncounted \in Nat /\ Uncounted' = Uncounted /\ pc'[consumer] = "wait"
  BY <1>1, ConsumerMoves6 DEF Waiting6
<1>3. CondTypes'
  BY <1>1, <1>2 DEF CondInv, CondTypes, Waiting6
<1>4. CondOwners'
  BY <1>1, <1>2, ConstantFacts DEF CondInv, CondOwners
<1>5. ArrayFilled' /\ PutEnds' /\ Sleeps'
  BY <1>1, <1>2 DEF CondInv, ArrayFilled, PutEnds, Sleeps
<1>6. CondAccounted' /\ CondCounts'
  BY <1>1, <1>2 DEF CondInv, CondAccounted, CondCounts, Uncounted
<1> QED
  BY <1>3, <1>4, <1>5, <1>6 DEF CondInv

LEMMA TakeStep6 ==
  ASSUME CondInv, C6!TakeReady
  PROVE  CondInv'
<1>0. nready \in Nat /\ i \in Nat
  BY DEF CondInv, CondTypes
<1>1. /\ pc[consumer] = "test" /\ pc' = [pc EXCEPT ![consumer] = "compare"]
      /\ nready # 0 /\ nready' = nready - 1 /\ nready_mutex' = Nobody
      /\ UNCHANGED <<pbuff, put_mutex, nput, nputval, asleep, i, count>>
  BY DEF C6!TakeReady, C6!NoneReady, C6!Goto, C6!put, C6!cons
<1>2. /\ pc' \in [C6!Threads -> Storing6 \cup Waiting6]
      /\ \A p \in Producers : pc'[p] = pc[p]
      /\ Uncounted \in Nat /\ Uncounted' = Uncounted /\ pc'[consumer] = "compare"
  BY <1>1, ConsumerMoves6 DEF Waiting6
<1>3. CondTypes'
  BY <1>0, <1>1, <1>2 DEF CondInv, CondTypes, Waiting6
<1>4. CondOwners'
  BY <1>1, <1>2, ConstantFacts DEF CondInv, CondOwners
<1>5. ArrayFilled' /\ PutEnds' /\ Sleeps'
  BY <1>1, <1>2 DEF CondInv, ArrayFilled, PutEnds, Sleeps
<1>6. CondAccounted' /\ CondCounts'
  BY <1>0, <1>1, <1>2 DEF CondInv, CondAccounted, CondCounts, Uncounted
<1> QED
  BY <1>3, <1>4, <1>5, <1>6 DEF CondInv

LEMMA CompareStep6 ==
  ASSUME CondInv, C6!Compare
  PROVE  CondInv'
<1>0. nready \in Nat /\ i \in Nat
  BY DEF CondInv, CondTypes
<1>1. /\ pc[consumer] = "compare" /\ pc' = [pc EXCEPT ![consumer] = "loop"] /\ i' = i + 1
      /\ UNCHANGED <<pbuff, put_mutex, nput, nputval, nready_mutex, nready, asleep, count>>
  BY DEF C6!Compare, C6!Goto, C6!put, C6!ready
<1>2. /\ pc' \in [C6!Threads -> Storing6 \cup Waiting6]
      /\ \A p \in Producers : pc'[p] = pc[p]
      /\ Uncounted \in Nat /\ Uncounted' = Uncounted /\ pc'[consumer] = "loop"
  BY <1>1, ConsumerMoves6 DEF Waiting6
<1>3. CondTypes'
  BY <1>0, <1>1, <1>2 DEF CondInv, CondTypes, Waiting6
<1>4. CondOwners'
  BY <1>1, <1>2, ConstantFacts DEF CondInv, CondOwners
<1>5. ArrayFilled' /\ PutEnds' /\ Sleeps'
  BY <1>1, <1>2 DEF CondInv, ArrayFilled, PutEnds, Sleeps
<1>6. CondAccounted' /\ CondCounts'
  BY <1>0, <1>1, <1>2 DEF CondInv, CondAccounted, CondCounts, Uncounted
<1> QED
  BY <1>3, <1>4, <1>5, <1>6 DEF CondInv

LEMMA WakeupStep6 ==
  ASSUME CondInv, C6!SpuriousWakeup
  PROVE  CondInv'
<1>1. /\ asleep' = FALSE
      /\ UNCHANGED <<pbuff, put_mutex, nput, nputval, nready_mutex, nready, pc, i, count>>
  BY DEF C6!SpuriousWakeup, C6!put, C6!ready
<1>2. CondTypes' /\ CondOwners' /\ ArrayFilled' /\ PutEnds' /\ Sleeps'
  BY <1>1 DEF CondInv, CondTypes, CondOwners, ArrayFilled, PutEnds, Sleeps
<1>3. Uncounted' = Uncounted
  BY <1>1 DEF Uncounted, At
<1>4. CondAccounted' /\ CondCounts'
  BY <1>1, <1>3 DEF CondInv, CondAccounted, CondCounts, Uncounted
<1> QED
  BY <1>2, <1>4 DEF CondInv

LEMMA CondSteps ==
  ASSUME CondInv, NEW t, C6!Step(t) \/ C6!SpuriousWakeup
  PROVE  CondInv'
<1>1. CASE t \in Producers /\ C6!Produce(t)
  BY <1>1, LockPutStep6, ReturnStep6, StoreStep6, LockReadyStep6, CountStep6 DEF C6!Produce
<1>2. CASE C6!Consume
  BY <1>2, LocksStep6, WaitStep6, TakeStep6, CompareStep6 DEF C6!Consume
<1> QED
  BY <1>1, <1>2, WakeupStep6 DEF C6!Step

\* What the invariant says of the properties of prodcons6.
LEMMA CondProperties ==
  ASSUME CondInv
  PROVE  C6!ReadsOnlyStored /\ C6!ItemsAccounted /\ C6!SleepsOnlyOnNothing /\ C6!CountsAddUp
<1>1. nput \in 0..nitems /\ nready \in Nat /\ i \in Nat /\ Uncounted \in Nat
  BY ConstantFacts, AtNone DEF CondInv, CondTypes, Uncounted
<1>2. C6!ReadsOnlyStored
  BY <1>1 DEF C6!ReadsOnlyStored, CondInv, CondAccounted, ArrayFilled, Uncounted
<1>3. C6!Cardinality(C6!Stored) = Uncounted
  BY DEF C6!Cardinality, Cardinality, C6!Stored, Uncounted, At, Unready
<1>4. C6!ItemsAccounted
  BY <1>3 DEF C6!ItemsAccounted, CondInv, CondAccounted, Uncounted
<1>5. C6!SleepsOnlyOnNothing
  BY DEF C6!SleepsOnlyOnNothing, CondInv, Sleeps
<1>6. C6!CountsAddUp
  <2> SUFFICES ASSUME \A p \in Producers : pc[p] = "end" PROVE Total(count) = nitems
    BY SameTotals DEF C6!CountsAddUp
  <2>1. Uncounted = 0
    BY ConstantFacts, AtNone DEF Uncounted, Unready
  <2>2. nput >= nitems
    BY ConstantFacts DEF CondInv, PutEnds
  <2> QED
    BY <1>1, <2>1, <2>2, FS_CardinalityType, ConstantFacts DEF CondInv, CondCounts, Uncounted, Total
<1> QED
  BY <1>2, <1>4, <1>5, <1>6
-----------------------------------------------------------------------------
(* prodcons2 and prodcons3 of chapter 7 *)

Untold == At(Producers, Counting)

LEMMA ArrayInit == IsArray /\ Arr!Init => ArrayInv
<1> SUFFICES ASSUME IsArray, Arr!Init PROVE ArrayInv
  OBVIOUS
<1> USE ConstantFacts DEF Arr!Init, Arr!Threads, IsArray
<1>1. ArrayTypes
  <2>1. pc \in [Arr!Threads -> Filling \cup Checking]
    BY DEF Filling, Checking
  <2>2. /\ \A p \in Producers : pc[p] = "lock"
        /\ pc[consumer] = IF prog = "array3" THEN "loop" ELSE "not_created"
        /\ count \in [Producers -> Nat] /\ pbuff \in [0..nitems-1 -> Nat]
    OBVIOUS
  <2> QED
    BY <2>1, <2>2 DEF ArrayTypes, Filling
<1>2. ArrayOwner /\ ArrayPut /\ ArrayFilled /\ PutEnds /\ Compared
  BY DEF ArrayOwner, ArrayPut, ArrayFilled, PutEnds, Compared
<1>3. Created
  BY DEF Created
<1>4. Untold = 0
  BY AtNone DEF Untold, Counting
<1>5. IsFiniteSet(Units(count)) /\ Total(count) = 0
  BY TotalOfNothing
<1>6. ArrayCounts
  BY <1>4, <1>5 DEF ArrayCounts, Untold
<1> QED
  BY <1>1, <1>2, <1>3, <1>6 DEF ArrayInv

LEMMA ProducerMovesA ==
  ASSUME ArrayInv, NEW p \in Producers, NEW to \in Filling, pc' = [pc EXCEPT ![p] = to]
  PROVE  /\ pc' \in [Arr!Threads -> Filling \cup Checking]
         /\ pc'[p] = to /\ \A q \in Producers \ {p} : pc'[q] = pc[q]
         /\ pc'[consumer] = pc[consumer] /\ \A q \in Producers : pc'[q] \in Filling
         /\ Untold \in Nat
         /\ Untold' = Untold + (IF to \in Counting THEN 1 ELSE 0)
                        - (IF pc[p] \in Counting THEN 1 ELSE 0)
<1>1. pc \in [Arr!Threads -> Filling \cup Checking] /\ \A q \in Producers : pc[q] \in Filling
  BY DEF ArrayInv, ArrayTypes
<1>2. /\ Producers \subseteq Arr!Threads /\ consumer \in Arr!Threads /\ p # consumer
      /\ DOMAIN pc = Arr!Threads /\ p \in Arr!Threads /\ IsFiniteSet(Producers)
  BY <1>1, ConstantFacts DEF Arr!Threads
<1>3. /\ Untold \in Nat
      /\ Untold' = Untold + (IF to \in Counting THEN 1 ELSE 0)
                     - (IF pc[p] \in Counting THEN 1 ELSE 0)
  BY <1>2, AtMoves DEF Untold
<1>4. pc'[p] = to /\ \A t \in Arr!Threads \ {p} : pc'[t] = pc[t]
  BY <1>1, <1>2
<1> QED
  BY <1>1, <1>2, <1>3, <1>4

LEMMA ConsumerMovesA ==
  ASSUME ArrayInv, NEW to \in Checking, pc' = [pc EXCEPT ![consumer] = to]
  PROVE  /\ pc' \in [Arr!Threads -> Filling \cup Checking]
         /\ pc'[consumer] = to /\ \A p \in Producers : pc'[p] = pc[p]
         /\ Untold' = Untold
<1>1. pc \in [Arr!Threads -> Filling \cup Checking]
  BY DEF ArrayInv, ArrayTypes
<1>2. /\ Producers \subseteq Arr!Threads /\ consumer \in Arr!Threads /\ consumer \notin Producers
      /\ DOMAIN pc = Arr!Threads /\ IsFiniteSet(Producers)
  BY <1>1, ConstantFacts DEF Arr!Threads
<1>3. Untold' = Untold
  BY <1>2, AtMoves, ZenonT(60) DEF Untold
<1> QED
  BY <1>1, <1>2, <1>3

\* The mutex is taken, or given back by a producer that found the array full.
LEMMA LockStepA ==
  ASSUME ArrayInv, UNCHANGED prog, NEW p \in Producers, Arr!Lock(p) \/ Arr!ArrayFull(p)
  PROVE  ArrayInv'
<1>1. UNCHANGED <<pbuff, nput, nputval, count, i, prog>>
  BY DEF Arr!Lock, Arr!ArrayFull
<1>2. \/ /\ pc[p] = "lock" /\ pc' = [pc EXCEPT ![p] = "test"]
         /\ put_mutex = Nobody /\ put_mutex' = p
      \/ /\ pc[p] = "test" /\ pc' = [pc EXCEPT ![p] = "end"]
         /\ put_mutex' = Nobody /\ nput >= nitems
  BY DEF Arr!Lock, Arr!ArrayFull, Arr!Goto, Arr!LockMutex, Arr!UnlockMutex
<1>3. /\ pc' \in [Arr!Threads -> Filling \cup Checking]
      /\ \A q \in Producers \ {p} : pc'[q] = pc[q]
      /\ pc'[consumer] = pc[consumer] /\ \A q \in Producers : pc'[q] \in Filling
      /\ Untold' = Untold
      /\ \/ pc[p] = "lock" /\ pc'[p] = "test" /\ put_mutex = Nobody /\ put_mutex' = p
         \/ pc[p] = "test" /\ pc'[p] = "end" /\ put_mutex' = Nobody /\ nput >= nitems
  <2>1. CASE pc[p] = "lock" /\ pc' = [pc EXCEPT ![p] = "test"]
    <3>1. /\ pc' \in [Arr!Threads -> Filling \cup Checking] /\ pc'[p] = "test"
          /\ \A q \in Producers \ {p} : pc'[q] = pc[q]
          /\ pc'[consumer] = pc[consumer] /\ \A q \in Producers : pc'[q] \in Filling
          /\ Untold \in Nat
          /\ Untold' = Untold + (IF "test" \in Counting THEN 1 ELSE 0)
                        - (IF pc[p] \in Counting THEN 1 ELSE 0)
      BY <2>1, ProducerMovesA DEF Filling
    <3> QED
      BY <1>2, <2>1, <3>1 DEF Counting
  <2>2. CASE pc[p] = "test" /\ pc' = [pc EXCEPT ![p] = "end"]
    <3>1. /\ pc' \in [Arr!Threads -> Filling \cup Checking] /\ pc'[p] = "end"
          /\ \A q \in Producers \ {p} : pc'[q] = pc[q]
          /\ pc'[consumer] = pc[consumer] /\ \A q \in Producers : pc'[q] \in Filling
          /\ Untold \in Nat
          /\ Untold' = Untold + (IF "end" \in Counting THEN 1 ELSE 0)
                        - (IF pc[p] \in Counting THEN 1 ELSE 0)
      BY <2>2, ProducerMovesA DEF Filling
    <3> QED
      BY <1>2, <2>2, <3>1 DEF Counting
  <2> QED
    BY <1>2, <2>1, <2>2
<1>4. ArrayTypes'
  BY <1>1, <1>3 DEF ArrayInv, ArrayTypes
<1>5. ArrayOwner'
  BY <1>3, ConstantFacts DEF ArrayInv, ArrayOwner
<1>6. ArrayPut' /\ ArrayFilled' /\ PutEnds' /\ Compared'
  BY <1>1, <1>3 DEF ArrayInv, ArrayPut, ArrayFilled, PutEnds, Compared
<1>7. Created'
  BY <1>1, <1>3 DEF ArrayInv, Created
<1>8. ArrayCounts'
  BY <1>1, <1>3 DEF ArrayInv, ArrayCounts, Untold
<1> QED
  BY <1>4, <1>5, <1>6, <1>7, <1>8 DEF ArrayInv

LEMMA StoreStepA ==
  ASSUME ArrayInv, UNCHANGED prog, NEW p \in Producers, Arr!Store(p)
  PROVE  ArrayInv'
<1>0. nput \in Nat /\ nputval = nput /\ pbuff \in [0..nitems-1 -> Nat] /\ nitems \in Nat
  BY ConstantFacts DEF ArrayInv, ArrayTypes
<1>1. /\ pc[p] = "test" /\ pc' = [pc EXCEPT ![p] = "put"] /\ nput < nitems
      /\ pbuff' = [pbuff EXCEPT ![nput] = nput]
      /\ UNCHANGED <<put_mutex, nput, nputval, count, i, prog>>
  BY <1>0 DEF Arr!Store, Arr!Goto
<1>2. /\ pc' \in [Arr!Threads -> Filling \cup Checking] /\ pc'[p] = "put"
      /\ \A q \in Producers \ {p} : pc'[q] = pc[q]
      /\ pc'[consumer] = pc[consumer] /\ \A q \in Producers : pc'[q] \in Filling
      /\ Untold \in Nat
      /\ Untold' = Untold + (IF "put" \in Counting THEN 1 ELSE 0)
                    - (IF pc[p] \in Counting THEN 1 ELSE 0)
  BY <1>1, ProducerMovesA DEF Filling
<1>3. Untold' = Untold
  BY <1>1, <1>2 DEF Counting
<1>4. pbuff' \in [0..nitems-1 -> Nat] /\ pbuff'[nput] = nput
  BY <1>0, <1>1
<1>5. ArrayTypes'
  BY <1>1, <1>2, <1>4 DEF ArrayInv, ArrayTypes
<1>6. ArrayOwner'
  BY <1>1, <1>2, ConstantFacts DEF ArrayInv, ArrayOwner
<1>7. ArrayPut' /\ PutEnds' /\ Compared' /\ Created'
  BY <1>1, <1>2, <1>4 DEF ArrayInv, ArrayPut, ArrayOwner, PutEnds, Compared, Created
<1>8. ArrayFilled'
  BY <1>0, <1>1 DEF ArrayInv, ArrayFilled
<1>9. ArrayCounts'
  BY <1>1, <1>3 DEF ArrayInv, ArrayCounts, Untold
<1> QED
  BY <1>5, <1>6, <1>7, <1>8, <1>9 DEF ArrayInv

LEMMA PutStepA ==
  ASSUME ArrayInv, UNCHANGED prog, NEW p \in Producers, Arr!Put(p)
  PROVE  ArrayInv'
<1>0. nput \in Nat /\ nputval = nput /\ nitems \in Nat /\ i \in Nat
  BY ConstantFacts DEF ArrayInv, ArrayTypes
<1>1. /\ pc[p] = "put" /\ pc' = [pc EXCEPT ![p] = "count"] /\ put_mutex' = Nobody
      /\ nput' = nput + 1 /\ nputval' = nput + 1
      /\ UNCHANGED <<pbuff, count, i, prog>>
  BY <1>0 DEF Arr!Put, Arr!Goto, Arr!UnlockMutex
<1>2. /\ pc' \in [Arr!Threads -> Filling \cup Checking] /\ pc'[p] = "count"
      /\ \A q \in Producers \ {p} : pc'[q] = pc[q]
      /\ pc'[consumer] = pc[consumer] /\ \A q \in Producers : pc'[q] \in Filling
      /\ Untold \in Nat
      /\ Untold' = Untold + (IF "count" \in Counting THEN 1 ELSE 0)
                    - (IF pc[p] \in Counting THEN 1 ELSE 0)
  BY <1>1, ProducerMovesA DEF Filling
<1>3. Untold' = Untold + 1
  BY <1>1, <1>2 DEF Counting
<1>4. nput < nitems /\ pbuff[nput] = nput
  BY <1>1 DEF ArrayInv, ArrayPut
<1>5. ArrayTypes'
  BY <1>0, <1>1, <1>2, <1>4 DEF ArrayInv, ArrayTypes
<1>6. ArrayOwner'
  BY <1>1, <1>2, ConstantFacts DEF ArrayInv, ArrayOwner
<1>7. ArrayPut'
  BY <1>1, <1>2 DEF ArrayInv, ArrayPut, ArrayOwner
<1>8. PutEnds' /\ Compared' /\ Created'
  BY <1>0, <1>1, <1>2 DEF ArrayInv, PutEnds, Compared, Created
<1>9. ArrayFilled'
  BY <1>0, <1>1, <1>4 DEF ArrayInv, ArrayFilled
<1>10. ArrayCounts'
  BY <1>0, <1>1, <1>2, <1>3, FS_CardinalityType DEF ArrayInv, ArrayCounts, Untold, Total
<1> QED
  BY <1>5, <1>6, <1>7, <1>8, <1>9, <1>10 DEF ArrayInv

LEMMA CountStepA ==
  ASSUME ArrayInv, UNCHANGED prog, NEW p \in Producers, Arr!Count(p)
  PROVE  ArrayInv'
<1>0. /\ nput \in Nat /\ count \in [Producers -> Nat] /\ IsFiniteSet(Units(count))
  BY ConstantFacts DEF ArrayInv, ArrayTypes, ArrayCounts
<1>1. /\ pc[p] = "count" /\ pc' = [pc EXCEPT ![p] = "lock"]
      /\ count' = [count EXCEPT ![p] = @ + 1]
      /\ UNCHANGED <<pbuff, put_mutex, nput, nputval, i, prog>>
  BY <1>0 DEF Arr!Count, Arr!Goto, Arr!shared
<1>2. /\ pc' \in [Arr!Threads -> Filling \cup Checking] /\ pc'[p] = "lock"
      /\ \A q \in Producers \ {p} : pc'[q] = pc[q]
      /\ pc'[consumer] = pc[consumer] /\ \A q \in Producers : pc'[q] \in Filling
      /\ Untold \in Nat
      /\ Untold' = Untold + (IF "lock" \in Counting THEN 1 ELSE 0)
                    - (IF pc[p] \in Counting THEN 1 ELSE 0)
  BY <1>1, ProducerMovesA DEF Filling
<1>3. Untold' = Untold - 1
  BY <1>1, <1>2 DEF Counting
<1>4. /\ count' \in [Producers -> Nat] /\ IsFiniteSet(Units(count'))
      /\ Total(count) \in Nat /\ Total(count') = Total(count) + 1
  BY <1>0, <1>1, OneMoreCounted
<1>5. ArrayTypes'
  BY <1>0, <1>1, <1>2, <1>4 DEF ArrayInv, ArrayTypes
<1>6. ArrayOwner'
  BY <1>1, <1>2, ConstantFacts DEF ArrayInv, ArrayOwner
<1>7. ArrayPut' /\ ArrayFilled' /\ PutEnds' /\ Compared' /\ Created'
  BY <1>1, <1>2 DEF ArrayInv, ArrayPut, ArrayFilled, PutEnds, Compared, Created
<1>8. ArrayCounts'
  BY <1>0, <1>1, <1>2, <1>3, <1>4 DEF ArrayInv, ArrayCounts, Untold
<1> QED
  BY <1>5, <1>6, <1>7, <1>8 DEF ArrayInv

LEMMA ConsumeStepA ==
  ASSUME ArrayInv, UNCHANGED prog, IsArray, Arr!Consume
  PROVE  ArrayInv'
<1>0. /\ nput \in Nat /\ nitems \in Nat /\ i \in Nat
      /\ pc \in [Arr!Threads -> Filling \cup Checking] /\ consumer \in Arr!Threads
      /\ pc[consumer] \in IF prog = "array3" THEN {"loop", "poll", "compare", "end"}
                          ELSE {"not_created", "loop", "end"}
  BY ConstantFacts DEF ArrayInv, ArrayTypes, Arr!Threads
<1>1. UNCHANGED <<pbuff, nput, nputval, count, prog>>
  BY DEF Arr!Consume, Arr!CreateConsumer, Arr!PollLocks, Arr!Poll, Arr!Compare,
     Arr!ConsumerReturns, Arr!shared
<1>2. /\ i' = i \/ i' = i + 1
      /\ \/ /\ pc[consumer] = "not_created" /\ \A p \in Producers : pc[p] = "end"
            /\ pc' = [pc EXCEPT ![consumer] = "loop"] /\ put_mutex' = put_mutex
         \/ /\ pc[consumer] = "loop" /\ pc' = [pc EXCEPT ![consumer] = "poll"]
            /\ prog = "array3" /\ put_mutex = Nobody /\ put_mutex' = consumer
         \/ /\ pc[consumer] = "poll" /\ put_mutex' = Nobody
            /\ \/ i < nput /\ i' = i /\ pc' = [pc EXCEPT ![consumer] = "compare"]
               \/ pc' = [pc EXCEPT ![consumer] = "loop"]
         \/ /\ pc[consumer] = "compare" /\ pc' = [pc EXCEPT ![consumer] = "loop"]
            /\ put_mutex' = put_mutex
         \/ pc[consumer] = "loop" /\ pc' = pc /\ put_mutex' = put_mutex
         \/ /\ pc[consumer] = "loop" /\ pc' = [pc EXCEPT ![consumer] = "end"]
            /\ put_mutex' = put_mutex
  BY DEF Arr!Consume, Arr!CreateConsumer, Arr!PollLocks, Arr!Poll, Arr!Compare,
     Arr!ConsumerReturns, Arr!shared, Arr!Goto, Arr!LockMutex, Arr!UnlockMutex
<1>3. /\ pc' \in [Arr!Threads -> Filling \cup Checking]
      /\ \A p \in Producers : pc'[p] = pc[p]
      /\ Untold' = Untold
  <2>1. CASE pc' = pc
    BY <1>0, <2>1 DEF Untold, At
  <2>2. ASSUME NEW to \in Checking, pc' = [pc EXCEPT ![consumer] = to]
        PROVE  /\ pc' \in [Arr!Threads -> Filling \cup Checking]
               /\ \A p \in Producers : pc'[p] = pc[p]
               /\ Untold' = Untold
    BY <2>2, ConsumerMovesA
  <2> QED
    BY <1>2, <2>1, <2>2 DEF Checking
<1>4. \/ /\ pc[consumer] = "not_created" /\ \A p \in Producers : pc[p] = "end"
         /\ pc'[consumer] = "loop" /\ put_mutex' = put_mutex
      \/ /\ pc[consumer] = "loop" /\ pc'[consumer] = "poll"
         /\ prog = "array3" /\ put_mutex = Nobody /\ put_mutex' = consumer
      \/ /\ pc[consumer] = "poll" /\ put_mutex' = Nobody
         /\ \/ i < nput /\ i' = i /\ pc'[consumer] = "compare"
            \/ pc'[consumer] = "loop"
      \/ pc[consumer] = "compare" /\ pc'[consumer] = "loop" /\ put_mutex' = put_mutex
      \/ pc[consumer] = "loop" /\ pc'[consumer] \in {"loop", "end"} /\ put_mutex' = put_mutex
  BY <1>0, <1>2
<1>5. ArrayTypes'
  <2>1. i' \in Nat
    BY <1>0, <1>2
  <2>2. pc'[consumer] \in IF prog = "array3" THEN {"loop", "poll", "compare", "end"}
                          ELSE {"not_created", "loop", "end"}
    BY <1>0, <1>4 DEF IsArray
  <2>3. put_mutex' \in Producers \cup {consumer, Nobody}
    BY <1>4 DEF ArrayInv, ArrayTypes
  <2> QED
    BY <1>1, <1>3, <2>1, <2>2, <2>3 DEF ArrayInv, ArrayTypes
<1>6. ArrayOwner'
  BY <1>3, <1>4, ConstantFacts DEF ArrayInv, ArrayOwner
<1>7. ArrayPut' /\ ArrayFilled' /\ PutEnds'
  BY <1>1, <1>3 DEF ArrayInv, ArrayPut, ArrayFilled, PutEnds
<1>8. Compared'
  BY <1>1, <1>4 DEF Compared
<1>9. Created'
  BY <1>1, <1>3, <1>4 DEF ArrayInv, Created
<1>10. ArrayCounts'
  BY <1>1, <1>3 DEF ArrayInv, ArrayCounts, Untold
<1> QED
  BY <1>5, <1>6, <1>7, <1>8, <1>9, <1>10 DEF ArrayInv

LEMMA ArraySteps ==
  ASSUME ArrayInv, UNCHANGED prog, IsArray, NEW t, Arr!Step(t)
  PROVE  ArrayInv'
<1>1. CASE t \in Producers /\ Arr!Produce(t)
  BY <1>1, LockStepA, StoreStepA, PutStepA, CountStepA DEF Arr!Produce
<1> QED
  BY <1>1, ConsumeStepA DEF Arr!Step

LEMMA ArrayProperties ==
  ASSUME ArrayInv, IsArray
  PROVE  Arr!ReadsOnlyStored /\ Arr!ItemsCounted
<1>1. nput \in 0..nitems /\ i \in Nat /\ nitems \in Nat
  BY ConstantFacts DEF ArrayInv, ArrayTypes
<1>2. \A k \in 0 .. nput - 1 : pbuff[k] = k
  BY DEF ArrayInv, ArrayFilled
<1>3. (\A p \in Producers : pc[p] = "end") => nput = nitems
  BY <1>1, ConstantFacts DEF ArrayInv, PutEnds
<1>4. Arr!ReadsOnlyStored
  <2> SUFFICES ASSUME Arr!Comparing PROVE i < nput
    BY <1>1, <1>2 DEF Arr!ReadsOnlyStored
  <2>1. CASE pc[consumer] = "compare"
    BY <2>1 DEF ArrayInv, Compared
  <2>2. CASE prog # "array3" /\ i < nitems /\ pc[consumer] = "loop"
    BY <1>3, <2>2 DEF ArrayInv, Created, IsArray
  <2> QED
    BY <2>1, <2>2 DEF Arr!Comparing
<1>5. Arr!ItemsCounted
  <2>1. Arr!Cardinality({p \in Producers : pc[p] = "count"}) = Untold
    <3>1. {p \in Producers : pc[p] = "count"} = {p \in Producers : pc[p] \in Counting}
      BY DEF Counting
    <3>2. \A S : Arr!Cardinality(S) = Cardinality(S)
      BY DEF Arr!Cardinality, Cardinality
    <3> QED
      BY <3>1, <3>2 DEF Untold, At
  <2>2. Arr!Total(count) + Untold = nput
    BY SameTotals DEF ArrayInv, ArrayCounts, Untold
  <2> QED
    BY <1>3, <2>1, <2>2 DEF Arr!ItemsCounted
<1> QED
  BY <1>4, <1>5
-----------------------------------------------------------------------------
(* The programs with a circular buffer and a mutex semaphore *)

\* Numbers less than n apart have different remainders.
LEMMA DifferentSlots ==
  ASSUME NEW n \in Nat \ {0}, NEW a \in Nat, NEW b \in Nat, a < b, b < a + n
  PROVE  a % n # b % n
<1> DEFINE p == a \div n
           q == b \div n
<1>1. /\ p \in Int /\ q \in Int /\ a % n \in 0..n-1 /\ b % n \in 0..n-1
      /\ a = n * p + (a % n) /\ b = n * q + (b % n)
  OBVIOUS
<1> SUFFICES ASSUME a % n = b % n PROVE FALSE
  OBVIOUS
<1>2. b - a = n * (q - p)
  BY <1>1
<1>3. CASE q - p <= 0
  <2>1. n * (q - p) <= 0
    BY <1>1, <1>3
  <2> QED
    BY <1>2, <2>1
<1>4. CASE q - p >= 1
  <2>1. n * (q - p) >= n
    BY <1>1, <1>4
  <2> QED
    BY <1>2, <2>1
<1> QED
  BY <1>1, <1>3, <1>4

LEMMA SlotExists ==
  ASSUME NEW n \in Nat \ {0}, NEW a \in Nat
  PROVE  a % n \in 0..n-1
OBVIOUS

\* The slot of the next item holds none of those that are under way.
LEMMA FreeSlot ==
  ASSUME NEW f \in Nat, NEW n \in Nat, n < f + NBUFF
  PROVE  /\ n % NBUFF \in 0..NBUFF-1
         /\ \A k \in f .. n - 1 : k % NBUFF \in 0..NBUFF-1 /\ k % NBUFF # n % NBUFF
<1>1. n % NBUFF \in 0..NBUFF-1
  BY ConstantFacts, SlotExists
<1>2. ASSUME NEW k \in f .. n - 1 PROVE k % NBUFF \in 0..NBUFF-1 /\ k % NBUFF # n % NBUFF
  <2>1. k \in Nat /\ k < n /\ n < k + NBUFF
    BY <1>2, ConstantFacts
  <2> QED
    BY <2>1, ConstantFacts, SlotExists, DifferentSlots
<1> QED
  BY <1>1, <1>2

In(place, Places) == IF place \in Places THEN 1 ELSE 0

\* Who enters takes the mutex, who leaves gives it back.
MutexStep(t, to, Places) ==
  /\ to \in Places /\ pc[t] \notin Places => pmutex = 1 /\ pmutex' = 0
  /\ to \notin Places /\ pc[t] \in Places => pmutex' = pmutex + 1
  /\ (to \in Places <=> pc[t] \in Places) => pmutex' = pmutex

LEMMA InsideMoves ==
  ASSUME NEW T, NEW Places, OneInside(T, Places), pmutex \in {0, 1}, DOMAIN pc = T,
         NEW t \in T, NEW to, pc' = [pc EXCEPT ![t] = to], MutexStep(t, to, Places)
  PROVE  OneInside(T, Places)' /\ pmutex' \in {0, 1}
<1>1. pc'[t] = to /\ \A u \in T \ {t} : pc'[u] = pc[u]
  OBVIOUS
<1>2. /\ \A u \in T : pc[u] \in Places => pmutex = 0
      /\ \A u, v \in T : pc[u] \in Places /\ pc[v] \in Places => u = v
  BY DEF OneInside
<1>3. CASE to \in Places /\ pc[t] \notin Places
  BY <1>1, <1>2, <1>3 DEF MutexStep, OneInside
<1>4. CASE to \notin Places /\ pc[t] \in Places
  BY <1>1, <1>2, <1>4 DEF MutexStep, OneInside
<1>5. CASE to \in Places <=> pc[t] \in Places
  BY <1>1, <1>2, <1>5 DEF MutexStep, OneInside
<1> QED
  BY <1>3, <1>4, <1>5
-----------------------------------------------------------------------------
(* prodcons3 *)

SlotsInHand == At(Producers, HasSlot3)
Unposted    == At(Producers, HasPut)

LEMMA Init3 == P3!Init => Inv3
<1> SUFFICES ASSUME P3!Init PROVE Inv3
  OBVIOUS
<1> USE ConstantFacts DEF P3!Init, P3!Threads
<1>1. Types3
  <2>1. pc \in [P3!Threads -> Producing \cup Consuming]
    BY DEF Producing, Consuming
  <2>2. /\ \A p \in Producers : pc[p] = "wait_nempty" /\ pc[consumer] = "loop"
        /\ count \in [Producers -> Nat] /\ pbuff \in [0..NBUFF-1 -> Nat]
    OBVIOUS
  <2> QED
    BY <2>1, <2>2 DEF Types3, SlotTypes, Producing, Consuming
<1>2. /\ \A p \in Producers : pc[p] = "wait_nempty"
      /\ pc[consumer] = "loop"
  OBVIOUS
<1>3. OneInside(P3!Threads, Inside3) /\ Storing(Producers) /\ Ends3
  BY <1>2 DEF OneInside, Inside3, Storing, Ends3
<1>4. SlotsInHand = 0 /\ Unposted = 0
  BY <1>2, AtNone DEF SlotsInHand, Unposted, HasSlot3, HasPut
<1>5. IsFiniteSet(Units(count)) /\ Total(count) = 0
  BY TotalOfNothing
<1>6. Slots3 /\ Items3 /\ Counts3
  BY <1>2, <1>4, <1>5 DEF Slots3, Items3, Counts3, ConsHas3, SlotsInHand, Unposted
<1>7. SlotsHold(P3!Fetched) /\ P3!NeverPrintsError
  BY <1>2 DEF SlotsHold, P3!Fetched, P3!NeverPrintsError
<1> QED
  BY <1>1, <1>3, <1>6, <1>7 DEF Inv3

LEMMA Facts3 ==
  ASSUME Inv3
  PROVE  /\ pmutex \in {0, 1} /\ pempty \in Nat /\ pstored \in Nat
         /\ pbuff \in [0..NBUFF-1 -> Nat] /\ nput \in 0..nitems /\ nputval = nput
         /\ pc \in [P3!Threads -> Producing \cup Consuming]
         /\ \A p \in Producers : pc[p] \in Producing
         /\ pc[consumer] \in Consuming
         /\ i \in 0..nitems /\ seen \in Nat /\ count \in [Producers -> Nat]
         /\ SlotsInHand \in Nat /\ Unposted \in Nat /\ ConsHas3 \in 0..1
         /\ pempty + pstored + SlotsInHand + Unposted + ConsHas3 = NBUFF
         /\ pstored + Unposted + ConsHas3 = nput - i
<1>1. SlotsInHand \in Nat /\ Unposted \in Nat
  BY AtNone, ConstantFacts DEF SlotsInHand, Unposted
<1> QED
  BY <1>1 DEF Inv3, Types3, SlotTypes, Slots3, Items3, SlotsInHand, Unposted, ConsHas3

LEMMA ProducerMoves3 ==
  ASSUME Inv3, NEW p \in Producers, NEW to \in Producing, pc' = [pc EXCEPT ![p] = to]
  PROVE  /\ pc' \in [P3!Threads -> Producing \cup Consuming]
         /\ pc'[p] = to /\ \A q \in Producers \ {p} : pc'[q] = pc[q]
         /\ \A q \in Producers : pc'[q] \in Producing
         /\ pc'[consumer] = pc[consumer] /\ ConsHas3' = ConsHas3
         /\ SlotsInHand' \in Nat /\ Unposted' \in Nat
         /\ SlotsInHand' = SlotsInHand + In(to, HasSlot3) - In(pc[p], HasSlot3)
         /\ Unposted' = Unposted + In(to, HasPut) - In(pc[p], HasPut)
<1>1. /\ pc \in [P3!Threads -> Producing \cup Consuming] /\ \A q \in Producers : pc[q] \in Producing
  BY Facts3
<1>2. /\ Producers \subseteq P3!Threads /\ consumer \in P3!Threads /\ p # consumer
      /\ DOMAIN pc = P3!Threads /\ p \in P3!Threads /\ IsFiniteSet(Producers)
  BY <1>1, ConstantFacts DEF P3!Threads
<1>3. /\ SlotsInHand' \in Nat
      /\ SlotsInHand' = SlotsInHand + In(to, HasSlot3) - In(pc[p], HasSlot3)
  <2>1. /\ SlotsInHand \in Nat /\ SlotsInHand' \in Nat
        /\ SlotsInHand' = SlotsInHand + (IF to \in HasSlot3 THEN 1 ELSE 0)
                            - (IF pc[p] \in HasSlot3 THEN 1 ELSE 0)
    BY <1>2, AtMoves, ZenonT(60) DEF SlotsInHand
  <2> QED
    BY <2>1 DEF In
<1>4. Unposted' \in Nat /\ Unposted' = Unposted + In(to, HasPut) - In(pc[p], HasPut)
  <2>1. /\ Unposted \in Nat /\ Unposted' \in Nat
        /\ Unposted' = Unposted + (IF to \in HasPut THEN 1 ELSE 0)
                            - (IF pc[p] \in HasPut THEN 1 ELSE 0)
    BY <1>2, AtMoves, ZenonT(60) DEF Unposted
  <2> QED
    BY <2>1 DEF In
<1>5. pc'[p] = to /\ \A t \in P3!Threads \ {p} : pc'[t] = pc[t]
  BY <1>1, <1>2
<1> QED
  BY <1>1, <1>2, <1>3, <1>4, <1>5 DEF ConsHas3

\* A producer goes on, but puts nothing and posts no item.
LEMMA ProducerGoes3 ==
  ASSUME Inv3, NEW p \in Producers, NEW to \in Producing \ {"put"}, pc' = [pc EXCEPT ![p] = to],
         UNCHANGED <<pbuff, nput, nputval, i, seen, count, pstored>>,
         MutexStep(p, to, Inside3), pempty' \in Nat,
         pempty' = pempty + In(pc[p], HasSlot3) - In(to, HasSlot3),
         In(to, HasPut) = In(pc[p], HasPut),
         to = "store" => nput < nitems,
         to \in {"last_nempty", "last_mutex", "end"} => nput >= nitems
  PROVE  Inv3'
<1>1. /\ pc' \in [P3!Threads -> Producing \cup Consuming]
      /\ pc'[p] = to /\ \A q \in Producers \ {p} : pc'[q] = pc[q]
      /\ \A q \in Producers : pc'[q] \in Producing
      /\ pc'[consumer] = pc[consumer] /\ ConsHas3' = ConsHas3
      /\ SlotsInHand' \in Nat /\ Unposted' \in Nat
      /\ SlotsInHand' = SlotsInHand + In(to, HasSlot3) - In(pc[p], HasSlot3)
      /\ Unposted' = Unposted + In(to, HasPut) - In(pc[p], HasPut)
  BY ProducerMoves3
<1>2. OneInside(P3!Threads, Inside3)' /\ pmutex' \in {0, 1}
  BY Facts3, InsideMoves DEF Inv3, P3!Threads
<1>3. Types3'
  BY <1>1, <1>2 DEF Inv3, Types3, SlotTypes
<1>4. Storing(Producers)'
  BY <1>1 DEF Inv3, Storing
<1>5. Ends3'
  BY <1>1 DEF Inv3, Ends3
<1>6. In(to, HasSlot3) \in Int /\ In(pc[p], HasSlot3) \in Int /\ In(pc[p], HasPut) \in Int
  BY DEF In
<1>7. Unposted' = Unposted /\ pempty' + SlotsInHand' = pempty + SlotsInHand
  <2>1. /\ pempty \in Nat /\ SlotsInHand \in Nat /\ Unposted \in Nat
    BY Facts3
  <2>2. Unposted' = Unposted
    BY <1>1, <1>6, <2>1
  <2>3. pempty' + SlotsInHand' = pempty + SlotsInHand
    BY <1>1, <1>6, <2>1
  <2> QED
    BY <2>2, <2>3
<1>8. Slots3' /\ Items3'
  <2>1. /\ pempty \in Nat /\ SlotsInHand \in Nat /\ Unposted \in Nat /\ pstored \in Nat
        /\ ConsHas3 \in 0..1
        /\ pempty + pstored + SlotsInHand + Unposted + ConsHas3 = NBUFF
        /\ pstored + Unposted + ConsHas3 = nput - i
    BY Facts3
  <2>2. pstored' = pstored /\ nput' = nput /\ i' = i
    OBVIOUS
  <2>3. SlotsInHand' \in Nat /\ pempty' \in Nat /\ ConsHas3' = ConsHas3
    BY <1>1
  <2>4. (pempty' + SlotsInHand') + pstored + Unposted + ConsHas3 = NBUFF
    BY <1>7, <2>1
  <2>5. /\ pempty' + pstored' + SlotsInHand' + Unposted' + ConsHas3' = NBUFF
        /\ pstored' + Unposted' + ConsHas3' = nput' - i'
    BY <1>7, <2>1, <2>2, <2>3, <2>4
  <2> QED
    BY <2>5 DEF Slots3, Items3, SlotsInHand, Unposted
<1>9. Counts3'
  BY <1>7 DEF Inv3, Counts3, Unposted
<1>10. SlotsHold(P3!Fetched)' /\ P3!NeverPrintsError'
  BY <1>1 DEF Inv3, SlotsHold, P3!Fetched, P3!NeverPrintsError
<1> QED
  BY <1>2, <1>3, <1>4, <1>5, <1>8, <1>9, <1>10 DEF Inv3

LEMMA ProducerSteps3 ==
  ASSUME Inv3, NEW p \in Producers,
         \/ P3!WaitEmpty(p) \/ P3!WaitMutex(p) \/ P3!TestPut(p)
         \/ P3!PostMutex(p) \/ P3!LastEmpty(p) \/ P3!LastMutex(p)
  PROVE  Inv3'
<1>0. pmutex \in {0, 1} /\ pempty \in Nat /\ p # consumer /\ nput \in Nat /\ nitems \in Nat
  BY Facts3, ConstantFacts
<1>1. CASE P3!WaitEmpty(p)
  <2>1. /\ pc[p] = "wait_nempty" /\ pc' = [pc EXCEPT ![p] = "wait_mutex"]
        /\ pempty > 0 /\ pempty' = pempty - 1
        /\ UNCHANGED <<pmutex, pbuff, nput, nputval, i, seen, count, pstored>>
    BY <1>1 DEF P3!WaitEmpty, P3!Goto, P3!SemWait, P3!shared
  <2>2. MutexStep(p, "wait_mutex", Inside3)
    BY <2>1 DEF MutexStep, Inside3
  <2>3. /\ pempty' \in Nat /\ pempty' = pempty + In(pc[p], HasSlot3) - In("wait_mutex", HasSlot3)
        /\ In("wait_mutex", HasPut) = In(pc[p], HasPut)
    BY <1>0, <2>1 DEF In, HasSlot3, HasPut
  <2>4. "wait_mutex" \in Producing \ {"put"}
    BY DEF Producing
  <2> QED
    BY <2>1, <2>2, <2>3, <2>4, ProducerGoes3
<1>2. CASE P3!WaitMutex(p)
  <2>1. /\ pc[p] = "wait_mutex" /\ pc' = [pc EXCEPT ![p] = "test"]
        /\ pmutex > 0 /\ pmutex' = pmutex - 1
        /\ UNCHANGED <<pempty, pbuff, nput, nputval, i, seen, count, pstored>>
    BY <1>0, <1>2 DEF P3!WaitMutex, P3!Goto, P3!SemWait, P3!shared
  <2>2. MutexStep(p, "test", Inside3)
    BY <1>0, <2>1 DEF MutexStep, Inside3
  <2>3. /\ pempty' \in Nat /\ pempty' = pempty + In(pc[p], HasSlot3) - In("test", HasSlot3)
        /\ In("test", HasPut) = In(pc[p], HasPut)
    BY <1>0, <2>1 DEF In, HasSlot3, HasPut
  <2>4. "test" \in Producing \ {"put"}
    BY DEF Producing
  <2> QED
    BY <2>1, <2>2, <2>3, <2>4, ProducerGoes3
<1>3. CASE P3!TestPut(p)
  <2>1. /\ pc[p] = "test"
        /\ pc' = [pc EXCEPT ![p] = IF nput >= nitems THEN "last_nempty" ELSE "store"]
        /\ UNCHANGED <<pempty, pmutex, pbuff, nput, nputval, i, seen, count, pstored>>
    BY <1>3 DEF P3!TestPut, P3!Goto, P3!sems, P3!shared
  <2>2. CASE nput >= nitems
    <3>1. pc' = [pc EXCEPT ![p] = "last_nempty"]
      BY <1>0, <2>1, <2>2
    <3>2. MutexStep(p, "last_nempty", Inside3)
      BY <2>1 DEF MutexStep, Inside3
    <3>3. /\ pempty' \in Nat /\ pempty' = pempty + In(pc[p], HasSlot3) - In("last_nempty", HasSlot3)
          /\ In("last_nempty", HasPut) = In(pc[p], HasPut)
      BY <1>0, <2>1 DEF In, HasSlot3, HasPut
    <3>4. "last_nempty" \in Producing \ {"put"}
      BY DEF Producing
    <3> QED
      BY <2>1, <2>2, <3>1, <3>2, <3>3, <3>4, ProducerGoes3
  <2>3. CASE ~(nput >= nitems)
    <3>1. pc' = [pc EXCEPT ![p] = "store"]
      BY <2>1, <2>3
    <3>2. MutexStep(p, "store", Inside3)
      BY <2>1 DEF MutexStep, Inside3
    <3>3. /\ pempty' \in Nat /\ pempty' = pempty + In(pc[p], HasSlot3) - In("store", HasSlot3)
          /\ In("store", HasPut) = In(pc[p], HasPut)
      BY <1>0, <2>1 DEF In, HasSlot3, HasPut
    <3>4. "store" \in Producing \ {"put"} /\ nput < nitems
      BY <1>0, <2>3 DEF Producing
    <3> QED
      BY <2>1, <2>3, <3>1, <3>2, <3>3, <3>4, ProducerGoes3
  <2> QED
    BY <1>0, <2>2, <2>3
<1>4. CASE P3!PostMutex(p)
  <2>1. /\ pc[p] = "post_mutex" /\ pc' = [pc EXCEPT ![p] = "post"]
        /\ pmutex' = pmutex + 1
        /\ UNCHANGED <<pempty, pbuff, nput, nputval, i, seen, count, pstored>>
    BY <1>4 DEF P3!PostMutex, P3!Goto, P3!SemPost, P3!shared
  <2>2. MutexStep(p, "post", Inside3)
    BY <2>1 DEF MutexStep, Inside3
  <2>3. /\ pempty' \in Nat /\ pempty' = pempty + In(pc[p], HasSlot3) - In("post", HasSlot3)
        /\ In("post", HasPut) = In(pc[p], HasPut)
    BY <1>0, <2>1 DEF In, HasSlot3, HasPut
  <2>4. "post" \in Producing \ {"put"}
    BY DEF Producing
  <2> QED
    BY <2>1, <2>2, <2>3, <2>4, ProducerGoes3
<1>5. CASE P3!LastEmpty(p)
  <2>1. /\ pc[p] = "last_nempty" /\ pc' = [pc EXCEPT ![p] = "last_mutex"]
        /\ pempty' = pempty + 1
        /\ UNCHANGED <<pmutex, pbuff, nput, nputval, i, seen, count, pstored>>
    BY <1>5 DEF P3!LastEmpty, P3!Goto, P3!SlotReturned, P3!SemPost, P3!shared
  <2>2. MutexStep(p, "last_mutex", Inside3)
    BY <2>1 DEF MutexStep, Inside3
  <2>3. /\ pempty' \in Nat /\ pempty' = pempty + In(pc[p], HasSlot3) - In("last_mutex", HasSlot3)
        /\ In("last_mutex", HasPut) = In(pc[p], HasPut)
    BY <1>0, <2>1 DEF In, HasSlot3, HasPut
  <2>4. "last_mutex" \in Producing \ {"put"} /\ nput >= nitems
    BY <2>1 DEF Producing, Inv3, Ends3
  <2> QED
    BY <2>1, <2>2, <2>3, <2>4, ProducerGoes3
<1>6. CASE P3!LastMutex(p)
  <2>1. /\ pc[p] = "last_mutex" /\ pc' = [pc EXCEPT ![p] = "end"]
        /\ pmutex' = pmutex + 1
        /\ UNCHANGED <<pempty, pbuff, nput, nputval, i, seen, count, pstored>>
    BY <1>6 DEF P3!LastMutex, P3!Goto, P3!SemPost, P3!shared
  <2>2. MutexStep(p, "end", Inside3)
    BY <2>1 DEF MutexStep, Inside3
  <2>3. /\ pempty' \in Nat /\ pempty' = pempty + In(pc[p], HasSlot3) - In("end", HasSlot3)
        /\ In("end", HasPut) = In(pc[p], HasPut)
    BY <1>0, <2>1 DEF In, HasSlot3, HasPut
  <2>4. "end" \in Producing \ {"put"} /\ nput >= nitems
    BY <2>1 DEF Producing, Inv3, Ends3
  <2> QED
    BY <2>1, <2>2, <2>3, <2>4, ProducerGoes3
<1> QED
  BY <1>1, <1>2, <1>3, <1>4, <1>5, <1>6

LEMMA FetchedFacts3 ==
  ASSUME Inv3
  PROVE  /\ P3!Fetched \in Nat /\ i <= P3!Fetched /\ P3!Fetched <= nput
         /\ nput - P3!Fetched <= NBUFF
<1>1. /\ pempty \in Nat /\ pstored \in Nat /\ SlotsInHand \in Nat /\ Unposted \in Nat
      /\ ConsHas3 \in 0..1 /\ i \in Nat /\ nput \in Nat /\ NBUFF \in Nat
      /\ pempty + pstored + SlotsInHand + Unposted + ConsHas3 = NBUFF
      /\ pstored + Unposted + ConsHas3 = nput - i
  BY Facts3, ConstantFacts
<1>2. /\ P3!Fetched = i + 1 => ConsHas3 = 1
      /\ P3!Fetched = i \/ P3!Fetched = i + 1
  BY <1>1 DEF P3!Fetched, ConsHas3
<1> QED
  BY <1>1, <1>2

\* The slot a thread is about to fill is one that no item is in.
LEMMA RoomFor3 ==
  ASSUME Inv3, NEW p \in Producers, pc[p] \in HasSlot3
  PROVE  nput < P3!Fetched + NBUFF
<1>1. SlotsInHand # 0
  BY AtNone, ConstantFacts DEF SlotsInHand
<1>2. /\ pempty \in Nat /\ pstored \in Nat /\ SlotsInHand \in Nat /\ Unposted \in Nat
      /\ ConsHas3 \in 0..1 /\ i \in Nat /\ nput \in Nat /\ NBUFF \in Nat
      /\ pempty + pstored + SlotsInHand + Unposted + ConsHas3 = NBUFF
      /\ pstored + Unposted + ConsHas3 = nput - i
      /\ P3!Fetched \in Nat /\ i <= P3!Fetched
  BY Facts3, ConstantFacts, FetchedFacts3
<1> QED
  BY <1>1, <1>2

LEMMA StoreStep3 ==
  ASSUME Inv3, NEW p \in Producers, P3!Store(p)
  PROVE  Inv3'
<1>0. /\ nput \in Nat /\ nputval = nput /\ pbuff \in [0..NBUFF-1 -> Nat]
  BY Facts3
<1>1. /\ pc[p] = "store" /\ pc' = [pc EXCEPT ![p] = "put"]
      /\ pbuff' = [pbuff EXCEPT ![nput % NBUFF] = nput]
      /\ UNCHANGED <<pmutex, pempty, pstored, nput, nputval, i, seen, count>>
  BY <1>0 DEF P3!Store, P3!Goto, P3!sems
<1>2. "put" \in Producing
  BY DEF Producing
<1>3. /\ pc' \in [P3!Threads -> Producing \cup Consuming]
      /\ pc'[p] = "put" /\ \A q \in Producers \ {p} : pc'[q] = pc[q]
      /\ \A q \in Producers : pc'[q] \in Producing
      /\ pc'[consumer] = pc[consumer] /\ ConsHas3' = ConsHas3
      /\ SlotsInHand' \in Nat /\ Unposted' \in Nat
      /\ SlotsInHand' = SlotsInHand + In("put", HasSlot3) - In(pc[p], HasSlot3)
      /\ Unposted' = Unposted + In("put", HasPut) - In(pc[p], HasPut)
  BY <1>1, <1>2, ProducerMoves3
<1>4. SlotsInHand' = SlotsInHand /\ Unposted' = Unposted
  BY <1>1, <1>3, Facts3 DEF In, HasSlot3, HasPut
<1>5. OneInside(P3!Threads, Inside3)' /\ pmutex' \in {0, 1}
  <2>1. MutexStep(p, "put", Inside3)
    BY <1>1 DEF MutexStep, Inside3
  <2> QED
    BY <1>1, <2>1, Facts3, InsideMoves DEF Inv3, P3!Threads
<1>6. nput < P3!Fetched + NBUFF /\ P3!Fetched \in Nat
  BY <1>1, RoomFor3, FetchedFacts3 DEF HasSlot3
<1>7. /\ pbuff'[nput % NBUFF] = nput
      /\ \A k \in P3!Fetched .. nput - 1 : pbuff'[k % NBUFF] = pbuff[k % NBUFF]
  <2>1. /\ nput % NBUFF \in 0..NBUFF-1
        /\ \A k \in P3!Fetched .. nput - 1 : k % NBUFF \in 0..NBUFF-1 /\ k % NBUFF # nput % NBUFF
    BY <1>0, <1>6, FreeSlot
  <2>2. \A x \in 0..NBUFF-1 : pbuff'[x] = IF x = nput % NBUFF THEN nput ELSE pbuff[x]
    BY <1>0, <1>1
  <2> QED
    BY <2>1, <2>2, Zenon
<1>8. Types3'
  BY <1>0, <1>1, <1>3, <1>5 DEF Inv3, Types3, SlotTypes
<1>9. Storing(Producers)'
  <2>1. \A q \in Producers \ {p} : pc[q] # "put"
    BY <1>1 DEF Inv3, OneInside, Inside3, P3!Threads
  <2> QED
    BY <1>1, <1>3, <1>7, <2>1 DEF Inv3, Storing
<1>10. Ends3'
  BY <1>1, <1>3 DEF Inv3, Ends3
<1>11. Slots3' /\ Items3'
  BY <1>1, <1>3, <1>4 DEF Inv3, Slots3, Items3, SlotsInHand, Unposted
<1>12. Counts3'
  BY <1>1, <1>4 DEF Inv3, Counts3, Unposted
<1>13. P3!NeverPrintsError' /\ P3!Fetched' = P3!Fetched
  BY <1>1, <1>3 DEF Inv3, P3!Fetched, P3!NeverPrintsError
<1>14. SlotsHold(P3!Fetched)'
  BY <1>1, <1>7, <1>13 DEF Inv3, SlotsHold
<1> QED
  BY <1>5, <1>8, <1>9, <1>10, <1>11, <1>12, <1>13, <1>14 DEF Inv3

LEMMA PutStep3 ==
  ASSUME Inv3, NEW p \in Producers, P3!Put(p)
  PROVE  Inv3'
<1>0. /\ nput \in Nat /\ nputval = nput /\ nitems \in Nat
  BY Facts3, ConstantFacts
<1>1. /\ pc[p] = "put" /\ pc' = [pc EXCEPT ![p] = "post_mutex"]
      /\ nput' = nput + 1 /\ nputval' = nput + 1
      /\ UNCHANGED <<pmutex, pempty, pstored, pbuff, i, seen, count>>
  BY <1>0 DEF P3!Put, P3!Goto, P3!sems
<1>2. "post_mutex" \in Producing
  BY DEF Producing
<1>3. /\ pc' \in [P3!Threads -> Producing \cup Consuming]
      /\ pc'[p] = "post_mutex" /\ \A q \in Producers \ {p} : pc'[q] = pc[q]
      /\ \A q \in Producers : pc'[q] \in Producing
      /\ pc'[consumer] = pc[consumer] /\ ConsHas3' = ConsHas3
      /\ SlotsInHand' \in Nat /\ Unposted' \in Nat
      /\ SlotsInHand' = SlotsInHand + In("post_mutex", HasSlot3) - In(pc[p], HasSlot3)
      /\ Unposted' = Unposted + In("post_mutex", HasPut) - In(pc[p], HasPut)
  BY <1>1, <1>2, ProducerMoves3
<1>4. SlotsInHand' = SlotsInHand - 1 /\ Unposted' = Unposted + 1
  BY <1>1, <1>3, Facts3 DEF In, HasSlot3, HasPut
<1>5. OneInside(P3!Threads, Inside3)' /\ pmutex' \in {0, 1}
  <2>1. MutexStep(p, "post_mutex", Inside3)
    BY <1>1 DEF MutexStep, Inside3
  <2> QED
    BY <1>1, <2>1, Facts3, InsideMoves DEF Inv3, P3!Threads
<1>6. nput < nitems /\ pbuff[nput % NBUFF] = nput
  BY <1>1 DEF Inv3, Storing
<1>8. Types3'
  BY <1>0, <1>1, <1>3, <1>5, <1>6 DEF Inv3, Types3, SlotTypes
<1>9. Storing(Producers)'
  <2>1. \A q \in Producers \ {p} : pc[q] \notin {"store", "put"}
    BY <1>1 DEF Inv3, OneInside, Inside3, P3!Threads
  <2> QED
    BY <1>3, <2>1 DEF Storing
<1>10. Ends3'
  BY <1>0, <1>1, <1>3 DEF Inv3, Ends3
<1>11. Slots3' /\ Items3'
  <2>1. /\ pempty \in Nat /\ SlotsInHand \in Nat /\ Unposted \in Nat /\ pstored \in Nat
        /\ ConsHas3 \in 0..1 /\ i \in Nat
        /\ pempty + pstored + SlotsInHand + Unposted + ConsHas3 = NBUFF
        /\ pstored + Unposted + ConsHas3 = nput - i
    BY Facts3
  <2>2. /\ pempty' = pempty /\ pstored' = pstored /\ i' = i /\ ConsHas3' = ConsHas3
        /\ nput' = nput + 1
    BY <1>1, <1>3
  <2>3. /\ pempty' + pstored' + SlotsInHand' + Unposted' + ConsHas3' = NBUFF
        /\ pstored' + Unposted' + ConsHas3' = nput' - i'
    BY <1>0, <1>4, <2>1, <2>2
  <2> QED
    BY <2>3 DEF Slots3, Items3, SlotsInHand, Unposted
<1>12. Counts3'
  <2>1. Total(count) \in Nat /\ Unposted \in Nat
    BY Facts3, FS_CardinalityType DEF Inv3, Counts3, Total
  <2> QED
    BY <1>0, <1>1, <1>4, <2>1 DEF Inv3, Counts3, Unposted
<1>13. P3!NeverPrintsError' /\ P3!Fetched' = P3!Fetched
  BY <1>1, <1>3 DEF Inv3, P3!Fetched, P3!NeverPrintsError
<1>14. SlotsHold(P3!Fetched)'
  <2>1. P3!Fetched \in Nat
    BY FetchedFacts3
  <2> QED
    BY <1>0, <1>1, <1>6, <1>13, <2>1 DEF Inv3, SlotsHold
<1> QED
  BY <1>5, <1>8, <1>9, <1>10, <1>11, <1>12, <1>13, <1>14 DEF Inv3

LEMMA PostStep3 ==
  ASSUME Inv3, NEW p \in Producers, P3!PostStored(p)
  PROVE  Inv3'
<1>0. /\ count \in [Producers -> Nat] /\ IsFiniteSet(Units(count)) /\ nput \in Nat
  BY Facts3 DEF Inv3, Counts3
<1>1. /\ pc[p] = "post" /\ pc' = [pc EXCEPT ![p] = "wait_nempty"]
      /\ pstored' = pstored + 1 /\ count' = [count EXCEPT ![p] = @ + 1]
      /\ UNCHANGED <<pmutex, pempty, pbuff, nput, nputval, i, seen>>
  BY <1>0 DEF P3!PostStored, P3!Goto, P3!SemPost, P3!shared
<1>2. "wait_nempty" \in Producing
  BY DEF Producing
<1>3. /\ pc' \in [P3!Threads -> Producing \cup Consuming]
      /\ pc'[p] = "wait_nempty" /\ \A q \in Producers \ {p} : pc'[q] = pc[q]
      /\ \A q \in Producers : pc'[q] \in Producing
      /\ pc'[consumer] = pc[consumer] /\ ConsHas3' = ConsHas3
      /\ SlotsInHand' \in Nat /\ Unposted' \in Nat
      /\ SlotsInHand' = SlotsInHand + In("wait_nempty", HasSlot3) - In(pc[p], HasSlot3)
      /\ Unposted' = Unposted + In("wait_nempty", HasPut) - In(pc[p], HasPut)
  BY <1>1, <1>2, ProducerMoves3
<1>4. SlotsInHand' = SlotsInHand /\ Unposted' = Unposted - 1
  BY <1>1, <1>3, Facts3 DEF In, HasSlot3, HasPut
<1>5. OneInside(P3!Threads, Inside3)' /\ pmutex' \in {0, 1}
  <2>1. MutexStep(p, "wait_nempty", Inside3)
    BY <1>1 DEF MutexStep, Inside3
  <2> QED
    BY <1>1, <2>1, Facts3, InsideMoves DEF Inv3, P3!Threads
<1>6. /\ count' \in [Producers -> Nat] /\ IsFiniteSet(Units(count'))
      /\ Total(count) \in Nat /\ Total(count') = Total(count) + 1
  BY <1>0, <1>1, OneMoreCounted
<1>7. pstored' \in Nat
  BY <1>1, Facts3, SMTT(30)
<1>8. Types3'
  BY <1>1, <1>3, <1>5, <1>6, <1>7 DEF Inv3, Types3, SlotTypes
<1>9. Storing(Producers)'
  BY <1>1, <1>3 DEF Inv3, Storing
<1>10. Ends3'
  BY <1>1, <1>3 DEF Inv3, Ends3
<1>11. Slots3' /\ Items3'
  <2>1. /\ pempty \in Nat /\ SlotsInHand \in Nat /\ Unposted \in Nat /\ pstored \in Nat
        /\ ConsHas3 \in 0..1 /\ i \in Nat
        /\ pempty + pstored + SlotsInHand + Unposted + ConsHas3 = NBUFF
        /\ pstored + Unposted + ConsHas3 = nput - i
    BY Facts3
  <2>2. /\ pempty' = pempty /\ pstored' = pstored + 1 /\ i' = i /\ ConsHas3' = ConsHas3
        /\ nput' = nput
    BY <1>1, <1>3
  <2>3. /\ pempty' + pstored' + SlotsInHand' + Unposted' + ConsHas3' = NBUFF
        /\ pstored' + Unposted' + ConsHas3' = nput' - i'
    BY <1>4, <2>1, <2>2
  <2> QED
    BY <2>3 DEF Slots3, Items3, SlotsInHand, Unposted
<1>12. Counts3'
  <2>1. Unposted \in Nat
    BY Facts3
  <2> QED
    BY <1>0, <1>1, <1>4, <1>6, <2>1 DEF Inv3, Counts3, Unposted
<1>13. SlotsHold(P3!Fetched)' /\ P3!NeverPrintsError'
  BY <1>1, <1>3 DEF Inv3, SlotsHold, P3!Fetched, P3!NeverPrintsError
<1> QED
  BY <1>5, <1>8, <1>9, <1>10, <1>11, <1>12, <1>13 DEF Inv3

LEMMA ConsumerMoves3 ==
  ASSUME Inv3, NEW to \in Consuming, pc' = [pc EXCEPT ![consumer] = to]
  PROVE  /\ pc' \in [P3!Threads -> Producing \cup Consuming]
         /\ pc'[consumer] = to /\ \A q \in Producers : pc'[q] = pc[q]
         /\ SlotsInHand' = SlotsInHand /\ Unposted' = Unposted
<1>1. pc \in [P3!Threads -> Producing \cup Consuming]
  BY Facts3
<1>2. /\ Producers \subseteq P3!Threads /\ consumer \in P3!Threads /\ consumer \notin Producers
      /\ DOMAIN pc = P3!Threads /\ IsFiniteSet(Producers)
  BY <1>1, ConstantFacts DEF P3!Threads
<1>3. SlotsInHand' = SlotsInHand
  BY <1>2, AtMoves DEF SlotsInHand
<1>4. Unposted' = Unposted
  BY <1>2, AtMoves, ZenonT(60) DEF Unposted
<1> QED
  BY <1>1, <1>2, <1>3, <1>4

\* The consumer goes on; what it takes from the semaphores it has.
LEMMA ConsumerGoes3 ==
  ASSUME Inv3, NEW to \in Consuming, pc' = [pc EXCEPT ![consumer] = to],
         UNCHANGED <<pbuff, nput, nputval, count>>,
         MutexStep(consumer, to, Inside3), pempty' \in Nat, pstored' \in Nat,
         i' \in 0..nitems, seen' \in Nat,
         pempty' + pstored' + SlotsInHand + Unposted + ConsHas3' = NBUFF,
         pstored' + Unposted + ConsHas3' = nput - i',
         to \notin {"loop", "end"} => i' < nitems,
         to = "end" => i' = nitems,
         P3!Fetched \in Nat, P3!Fetched' \in Nat, P3!Fetched' >= P3!Fetched,
         to \in {"post_mutex", "post"} => seen' = i'
  PROVE  Inv3'
<1>1. /\ pc' \in [P3!Threads -> Producing \cup Consuming]
      /\ pc'[consumer] = to /\ \A q \in Producers : pc'[q] = pc[q]
      /\ SlotsInHand' = SlotsInHand /\ Unposted' = Unposted
  BY ConsumerMoves3
<1>2. OneInside(P3!Threads, Inside3)' /\ pmutex' \in {0, 1}
  BY Facts3, InsideMoves DEF Inv3, P3!Threads
<1>3. Types3'
  BY <1>1, <1>2 DEF Inv3, Types3, SlotTypes
<1>4. Storing(Producers)'
  BY <1>1 DEF Inv3, Storing
<1>5. Ends3'
  BY <1>1 DEF Inv3, Ends3
<1>6. Slots3' /\ Items3'
  <2>1. /\ pempty' + pstored' + SlotsInHand' + Unposted' + ConsHas3' = NBUFF
        /\ pstored' + Unposted' + ConsHas3' = nput' - i'
    BY <1>1
  <2> QED
    BY <2>1 DEF Slots3, Items3, SlotsInHand, Unposted
<1>7. Counts3'
  BY <1>1 DEF Inv3, Counts3, Unposted
<1>8. P3!NeverPrintsError'
  BY <1>1 DEF P3!NeverPrintsError
<1>9. SlotsHold(P3!Fetched)'
  <2>1. \A k \in P3!Fetched' .. nput - 1 : k \in P3!Fetched .. nput - 1
    BY Facts3
  <2> QED
    BY <2>1 DEF Inv3, SlotsHold
<1> QED
  BY <1>2, <1>3, <1>4, <1>5, <1>6, <1>7, <1>8, <1>9 DEF Inv3

LEMMA ConsumerSteps3 ==
  ASSUME Inv3, P3!Consume
  PROVE  Inv3'
<1>0. /\ pmutex \in {0, 1} /\ pempty \in Nat /\ pstored \in Nat /\ consumer \notin Producers
      /\ i \in 0..nitems /\ nitems \in Nat /\ seen \in Nat /\ consumer \in DOMAIN pc
      /\ P3!Fetched \in Nat /\ SlotsInHand \in Nat /\ Unposted \in Nat /\ nput \in Nat
      /\ pempty + pstored + SlotsInHand + Unposted + ConsHas3 = NBUFF
      /\ pstored + Unposted + ConsHas3 = nput - i
      /\ (pc[consumer] \notin {"loop", "end"} => i < nitems)
  BY Facts3, FetchedFacts3, ConstantFacts, SMTT(30) DEF P3!Threads, Inv3, Types3
<1>1. CASE P3!WaitStored
  <2>1. /\ pc[consumer] = "loop" /\ pc' = [pc EXCEPT ![consumer] = "wait_mutex"] /\ i < nitems
        /\ pstored > 0 /\ pstored' = pstored - 1
        /\ UNCHANGED <<pmutex, pempty, pbuff, nput, nputval, i, seen, count>>
    BY <1>1 DEF P3!WaitStored, P3!Goto, P3!SemWait, P3!shared
  <2>2. "wait_mutex" \in Consuming /\ MutexStep(consumer, "wait_mutex", Inside3)
    BY <2>1 DEF MutexStep, Inside3, Consuming
  <2>3. ConsHas3 = 0 /\ ConsHas3' = 1 /\ P3!Fetched' = P3!Fetched
    BY <1>0, <2>1 DEF ConsHas3, P3!Fetched
  <2>4. /\ pstored' \in Nat
        /\ pempty' + pstored' + SlotsInHand + Unposted + ConsHas3' = NBUFF
        /\ pstored' + Unposted + ConsHas3' = nput - i'
    BY <1>0, <2>1, <2>3
  <2> QED
    <3>1. "wait_mutex" \notin {"loop", "end"} => i' < nitems
      BY <2>1
    <3>2. "wait_mutex" = "end" => i' = nitems
      OBVIOUS
    <3>3. P3!Fetched \in Nat /\ P3!Fetched' \in Nat /\ P3!Fetched' >= P3!Fetched
      BY <1>0, <2>3
    <3>4. "wait_mutex" \in {"post_mutex", "post"} => seen' = i'
      OBVIOUS
    <3>5. i' \in 0..nitems /\ seen' \in Nat /\ pempty' \in Nat /\ pstored' \in Nat
      BY <1>0, <2>1, <2>4
    <3>6. UNCHANGED <<pbuff, nput, nputval, count>>
      BY <2>1
    <3> QED
      BY <2>1, <2>2, <2>4, <3>1, <3>2, <3>3, <3>4, <3>5, <3>6, ConsumerGoes3
<1>2. CASE P3!WaitMutex(consumer)
  <2>1. /\ pc[consumer] = "wait_mutex" /\ pc' = [pc EXCEPT ![consumer] = "fetch"]
        /\ pmutex > 0 /\ pmutex' = pmutex - 1
        /\ UNCHANGED <<pempty, pstored, pbuff, nput, nputval, i, seen, count>>
    BY <1>2 DEF P3!WaitMutex, P3!Goto, P3!SemWait, P3!shared
  <2>2. "fetch" \in Consuming /\ MutexStep(consumer, "fetch", Inside3)
    BY <1>0, <2>1 DEF MutexStep, Inside3, Consuming
  <2>3. ConsHas3 = 1 /\ ConsHas3' = 1 /\ P3!Fetched' = P3!Fetched
    BY <1>0, <2>1 DEF ConsHas3, P3!Fetched
  <2>4. /\ pempty' + pstored' + SlotsInHand + Unposted + ConsHas3' = NBUFF
        /\ pstored' + Unposted + ConsHas3' = nput - i'
    BY <1>0, <2>1, <2>3
  <2> QED
    <3>1. "fetch" \notin {"loop", "end"} => i' < nitems
      BY <1>0, <2>1
    <3>2. "fetch" = "end" => i' = nitems
      BY <2>1
    <3>3. P3!Fetched \in Nat /\ P3!Fetched' \in Nat /\ P3!Fetched' >= P3!Fetched
      BY <1>0, <2>3
    <3>4. "fetch" \in {"post_mutex", "post"} => seen' = i'
      BY <2>1
    <3>5. i' \in 0..nitems /\ seen' \in Nat /\ pempty' \in Nat /\ pstored' \in Nat
      BY <1>0, <2>1, <2>4
    <3>6. UNCHANGED <<pbuff, nput, nputval, count>>
      BY <2>1
    <3> QED
      BY <2>1, <2>2, <2>4, <3>1, <3>2, <3>3, <3>4, <3>5, <3>6, ConsumerGoes3
<1>3. CASE P3!Fetch
  <2>1. /\ pc[consumer] = "fetch" /\ pc' = [pc EXCEPT ![consumer] = "post_mutex"]
        /\ seen' = pbuff[i % NBUFF]
        /\ UNCHANGED <<pmutex, pempty, pstored, pbuff, nput, nputval, i, count>>
    BY <1>3 DEF P3!Fetch, P3!Goto, P3!sems, P3!shared
  <2>2. "post_mutex" \in Consuming /\ MutexStep(consumer, "post_mutex", Inside3)
    BY <2>1 DEF MutexStep, Inside3, Consuming
  <2>3. ConsHas3 = 1 /\ ConsHas3' = 1 /\ P3!Fetched = i /\ P3!Fetched' = i + 1
    BY <1>0, <2>1 DEF ConsHas3, P3!Fetched
  <2>4. i < nput
    BY <1>0, <2>3, Facts3
  <2>5. seen' = i
    <3>1. i \in P3!Fetched .. nput - 1
      BY <1>0, <2>3, <2>4
    <3>2. pbuff[i % NBUFF] = i
      BY <3>1 DEF Inv3, SlotsHold
    <3> QED
      BY <2>1, <3>2
  <2>6. /\ pempty' + pstored' + SlotsInHand + Unposted + ConsHas3' = NBUFF
        /\ pstored' + Unposted + ConsHas3' = nput - i'
    BY <1>0, <2>1, <2>3
  <2> QED
    <3>1. "post_mutex" \notin {"loop", "end"} => i' < nitems
      BY <1>0, <2>1
    <3>2. "post_mutex" = "end" => i' = nitems
      BY <2>1
    <3>3. P3!Fetched \in Nat /\ P3!Fetched' \in Nat /\ P3!Fetched' >= P3!Fetched
      BY <1>0, <2>3
    <3>4. "post_mutex" \in {"post_mutex", "post"} => seen' = i'
      BY <2>1, <2>5
    <3>5. i' \in 0..nitems /\ seen' \in Nat /\ pempty' \in Nat /\ pstored' \in Nat
      BY <1>0, <2>1, <2>5
    <3>6. UNCHANGED <<pbuff, nput, nputval, count>>
      BY <2>1
    <3> QED
      BY <2>1, <2>2, <2>6, <3>1, <3>2, <3>3, <3>4, <3>5, <3>6, ConsumerGoes3
<1>4. CASE P3!PostMutex(consumer)
  <2>1. /\ pc[consumer] = "post_mutex" /\ pc' = [pc EXCEPT ![consumer] = "post"]
        /\ pmutex' = pmutex + 1
        /\ UNCHANGED <<pempty, pstored, pbuff, nput, nputval, i, seen, count>>
    BY <1>4 DEF P3!PostMutex, P3!Goto, P3!SemPost, P3!shared
  <2>2. "post" \in Consuming /\ MutexStep(consumer, "post", Inside3)
    BY <2>1 DEF MutexStep, Inside3, Consuming
  <2>3. ConsHas3 = 1 /\ ConsHas3' = 1 /\ P3!Fetched' = P3!Fetched
    BY <1>0, <2>1 DEF ConsHas3, P3!Fetched
  <2>4. seen = i
    BY <2>1 DEF Inv3, P3!NeverPrintsError
  <2>5. /\ pempty' + pstored' + SlotsInHand + Unposted + ConsHas3' = NBUFF
        /\ pstored' + Unposted + ConsHas3' = nput - i'
    BY <1>0, <2>1, <2>3
  <2> QED
    <3>1. "post" \notin {"loop", "end"} => i' < nitems
      BY <1>0, <2>1
    <3>2. "post" = "end" => i' = nitems
      BY <2>1
    <3>3. P3!Fetched \in Nat /\ P3!Fetched' \in Nat /\ P3!Fetched' >= P3!Fetched
      BY <1>0, <2>3
    <3>4. "post" \in {"post_mutex", "post"} => seen' = i'
      BY <2>1, <2>4
    <3>5. i' \in 0..nitems /\ seen' \in Nat /\ pempty' \in Nat /\ pstored' \in Nat
      BY <1>0, <2>1, <2>4
    <3>6. UNCHANGED <<pbuff, nput, nputval, count>>
      BY <2>1
    <3> QED
      BY <2>1, <2>2, <2>5, <3>1, <3>2, <3>3, <3>4, <3>5, <3>6, ConsumerGoes3
<1>5. CASE P3!PostEmpty
  <2>1. /\ pc[consumer] = "post" /\ pc' = [pc EXCEPT ![consumer] = "loop"]
        /\ pempty' = pempty + 1 /\ i' = i + 1
        /\ UNCHANGED <<pmutex, pstored, pbuff, nput, nputval, seen, count>>
    BY <1>5 DEF P3!PostEmpty, P3!Goto, P3!SemPost, P3!shared
  <2>2. "loop" \in Consuming /\ MutexStep(consumer, "loop", Inside3)
    BY <2>1 DEF MutexStep, Inside3, Consuming
  <2>3. ConsHas3 = 1 /\ ConsHas3' = 0 /\ P3!Fetched' = P3!Fetched
    BY <1>0, <2>1 DEF ConsHas3, P3!Fetched
  <2>4. /\ i' \in 0..nitems /\ pempty' \in Nat
        /\ pempty' + pstored' + SlotsInHand + Unposted + ConsHas3' = NBUFF
        /\ pstored' + Unposted + ConsHas3' = nput - i'
    BY <1>0, <2>1, <2>3
  <2> QED
    <3>1. "loop" \notin {"loop", "end"} => i' < nitems
      BY <2>1
    <3>2. "loop" = "end" => i' = nitems
      BY <2>1
    <3>3. P3!Fetched \in Nat /\ P3!Fetched' \in Nat /\ P3!Fetched' >= P3!Fetched
      BY <1>0, <2>3
    <3>4. "loop" \in {"post_mutex", "post"} => seen' = i'
      BY <2>1
    <3>5. i' \in 0..nitems /\ seen' \in Nat /\ pempty' \in Nat /\ pstored' \in Nat
      BY <1>0, <2>1, <2>4
    <3>6. UNCHANGED <<pbuff, nput, nputval, count>>
      BY <2>1
    <3> QED
      BY <2>1, <2>2, <2>4, <3>1, <3>2, <3>3, <3>4, <3>5, <3>6, ConsumerGoes3
<1>6. CASE P3!EndConsume
  <2>1. /\ pc[consumer] = "loop" /\ pc' = [pc EXCEPT ![consumer] = "end"] /\ i >= nitems
        /\ UNCHANGED <<pmutex, pempty, pstored, pbuff, nput, nputval, i, seen, count>>
    BY <1>6 DEF P3!EndConsume, P3!Goto, P3!sems, P3!shared
  <2>2. "end" \in Consuming /\ MutexStep(consumer, "end", Inside3)
    BY <2>1 DEF MutexStep, Inside3, Consuming
  <2>3. ConsHas3 = 0 /\ ConsHas3' = 0 /\ P3!Fetched' = P3!Fetched
    BY <1>0, <2>1 DEF ConsHas3, P3!Fetched
  <2>4. i' = nitems /\ i' \in 0..nitems
    BY <1>0, <2>1
  <2>5. /\ pempty' + pstored' + SlotsInHand + Unposted + ConsHas3' = NBUFF
        /\ pstored' + Unposted + ConsHas3' = nput - i'
    BY <1>0, <2>1, <2>3
  <2> QED
    <3>1. "end" \notin {"loop", "end"} => i' < nitems
      BY <2>1
    <3>2. "end" = "end" => i' = nitems
      BY <2>4
    <3>3. P3!Fetched \in Nat /\ P3!Fetched' \in Nat /\ P3!Fetched' >= P3!Fetched
      BY <1>0, <2>3
    <3>4. "end" \in {"post_mutex", "post"} => seen' = i'
      BY <2>1
    <3>5. i' \in 0..nitems /\ seen' \in Nat /\ pempty' \in Nat /\ pstored' \in Nat
      BY <1>0, <2>1, <2>4
    <3>6. UNCHANGED <<pbuff, nput, nputval, count>>
      BY <2>1
    <3> QED
      BY <2>1, <2>2, <2>5, <3>1, <3>2, <3>3, <3>4, <3>5, <3>6, ConsumerGoes3
<1> QED
  BY <1>1, <1>2, <1>3, <1>4, <1>5, <1>6 DEF P3!Consume

LEMMA Steps3 ==
  ASSUME Inv3, NEW t, P3!Step(t)
  PROVE  Inv3'
<1>1. CASE t \in Producers /\ P3!Produce(t)
  BY <1>1, ProducerSteps3, StoreStep3, PutStep3, PostStep3 DEF P3!Produce
<1> QED
  BY <1>1, ConsumerSteps3 DEF P3!Step

LEMMA Properties3 ==
  ASSUME Inv3
  PROVE  P3!NeverPrintsError /\ P3!SlotsConserved /\ P3!CountsAddUp
<1>1. /\ nput \in 0..nitems /\ nitems \in Nat /\ Unposted \in Nat /\ SlotsInHand \in Nat
      /\ \A p \in Producers : pc[p] \in Producing
  BY Facts3, ConstantFacts
<1>2. P3!SlotsConserved
  <2> DEFINE A == {p \in Producers : pc[p] \in HasSlot3}
             B == {p \in Producers : pc[p] \in HasPut}
  <2>1. {p \in Producers : pc[p] \notin {"wait_nempty", "last_mutex", "end"}} = A \cup B
    BY <1>1 DEF Producing, HasSlot3, HasPut
  <2>2. IsFiniteSet(A) /\ IsFiniteSet(B)
    BY CountAt, ConstantFacts
  <2>3. A \cap B = {}
    BY DEF HasSlot3, HasPut
  <2>4. Cardinality({}) = 0
    BY FS_EmptySet
  <2>5. Cardinality(A \cup B) = Cardinality(A) + Cardinality(B) - Cardinality(A \cap B)
    BY <2>2, FS_Union
  <2>6. Cardinality(A) = SlotsInHand /\ Cardinality(B) = Unposted
    BY DEF SlotsInHand, Unposted, At
  <2>7. Cardinality(A \cup B) = SlotsInHand + Unposted
    <3>1. Cardinality(A \cap B) = 0
      BY <2>3, <2>4, Zenon
    <3>2. Cardinality(A \cup B) = SlotsInHand + Unposted - 0
      BY <2>5, <2>6, <3>1, Zenon
    <3> QED
      BY <1>1, <3>2
  <2>8. P3!Cardinality({p \in Producers : pc[p] \notin {"wait_nempty", "last_mutex", "end"}})
          = SlotsInHand + Unposted
    <3>1. \A S : P3!Cardinality(S) = Cardinality(S)
      BY DEF P3!Cardinality, Cardinality
    <3> QED
      BY <2>1, <2>7, <3>1
  <2>9. /\ pempty \in Nat /\ pstored \in Nat /\ ConsHas3 \in 0..1
        /\ pempty + pstored + SlotsInHand + Unposted + ConsHas3 = NBUFF
    BY Facts3
  <2>10. pempty + pstored + (SlotsInHand + Unposted) + ConsHas3 = NBUFF
    BY <1>1, <2>9
  <2> QED
    BY <2>8, <2>10 DEF P3!SlotsConserved, ConsHas3
<1>3. P3!CountsAddUp
  <2> SUFFICES ASSUME P3!AllEnded PROVE P3!Total(count) = nitems
    BY DEF P3!CountsAddUp
  <2>1. \A p \in Producers : pc[p] = "end"
    BY DEF P3!AllEnded, P3!Threads
  <2>2. nput = nitems
    BY <1>1, <2>1, ConstantFacts DEF Inv3, Ends3
  <2>3. Unposted = 0
    BY <2>1, AtNone, ConstantFacts DEF Unposted, HasPut
  <2>4. Total(count) \in Nat /\ Total(count) + Unposted = nput
    BY FS_CardinalityType DEF Inv3, Counts3, Total, Unposted
  <2>5. Total(count) = nitems
    BY <2>2, <2>3, <2>4
  <2> QED
    BY <2>5, SameTotals
<1> QED
  BY <1>2, <1>3 DEF Inv3
-----------------------------------------------------------------------------
(* prodcons4 *)

SlotsOut == At(SomeProducers, HasSlot4)
PutsOut  == At(SomeProducers, HasPut)
ItemsOut == At(Consumers, HasItem4)
GetsOut  == At(Consumers, HasPut)

LEMMA Init4 == P4!Init => Inv4
<1> SUFFICES ASSUME P4!Init PROVE Inv4
  OBVIOUS
<1> USE ConstantFacts DEF P4!Init, P4!Threads
<1>1. /\ \A p \in SomeProducers : pc[p] = "wait_nempty"
      /\ \A c \in Consumers : pc[c] = "wait_nstored"
      /\ \A t \in P4!Threads : count[t] = 0
  OBVIOUS
<1>2. Types4
  <2>1. pc \in [P4!Threads -> Producing4 \cup Consuming4]
    BY DEF Producing4, Consuming4
  <2>2. /\ seen \in [Consumers -> Nat] /\ count \in [P4!Threads -> Nat]
        /\ pbuff \in [0..NBUFF-1 -> Nat]
    OBVIOUS
  <2> QED
    BY <1>1, <2>1, <2>2 DEF Types4, SlotTypes, Producing4, Consuming4
<1>3. OneInside(P4!Threads, Inside4) /\ Storing(SomeProducers) /\ Getting /\ Ends4
  BY <1>1 DEF OneInside, Inside4, Storing, Getting, Ends4, Last4
<1>4. SlotsOut = 0 /\ PutsOut = 0
  BY <1>1, AtNone DEF SlotsOut, PutsOut, HasSlot4, HasPut
<1>5. ItemsOut = 0 /\ GetsOut = 0
  BY <1>1, AtNone DEF ItemsOut, GetsOut, HasItem4, HasPut
<1>6. Slots4 /\ Items4
  BY <1>4, <1>5 DEF Slots4, Items4, SlotsOut, PutsOut, ItemsOut, GetsOut
<1>7. \A S : S \subseteq P4!Threads => IsFiniteSet(Units(CountsOf(S))) /\ Total(CountsOf(S)) = 0
  <2> SUFFICES ASSUME NEW S, S \subseteq P4!Threads
               PROVE  IsFiniteSet(Units(CountsOf(S))) /\ Total(CountsOf(S)) = 0
    OBVIOUS
  <2>1. CountsOf(S) \in [S -> Nat] /\ \A t \in S : CountsOf(S)[t] = 0
    BY <1>1 DEF CountsOf
  <2> QED
    BY <2>1, TotalOfNothing
<1>8. Counts4
  <2>1. SomeProducers \subseteq P4!Threads /\ Consumers \subseteq P4!Threads
    OBVIOUS
  <2> QED
    BY <1>4, <1>5, <1>7, <2>1 DEF Counts4, PutsOut, GetsOut
<1>9. SlotsHold(nget)
  BY DEF SlotsHold
<1> QED
  BY <1>2, <1>3, <1>6, <1>8, <1>9 DEF Inv4

LEMMA Facts4 ==
  ASSUME Inv4
  PROVE  /\ pmutex \in {0, 1} /\ pempty \in Nat /\ pstored \in Nat
         /\ pbuff \in [0..NBUFF-1 -> Nat] /\ nput \in 0..nitems /\ nputval = nput
         /\ nget \in 0..nput /\ ngetval = nget
         /\ pc \in [P4!Threads -> Producing4 \cup Consuming4]
         /\ \A p \in SomeProducers : pc[p] \in Producing4
         /\ \A c \in Consumers : pc[c] \in Consuming4
         /\ seen \in [Consumers -> Nat] /\ count \in [P4!Threads -> Nat]
         /\ taken \in Nat \cup {-1}
         /\ SlotsOut \in Nat /\ PutsOut \in Nat /\ ItemsOut \in Nat /\ GetsOut \in Nat
         /\ pempty + SlotsOut + (nput - nget) + GetsOut = NBUFF
         /\ nput < nitems => pstored + PutsOut + ItemsOut = nput - nget
<1>1. SlotsOut \in Nat /\ PutsOut \in Nat
  BY AtNone, ConstantFacts DEF SlotsOut, PutsOut
<1>2. ItemsOut \in Nat /\ GetsOut \in Nat
  BY AtNone, ConstantFacts DEF ItemsOut, GetsOut
<1> QED
  BY <1>1, <1>2 DEF Inv4, Types4, SlotTypes, Slots4, Items4, SlotsOut, PutsOut, ItemsOut, GetsOut


LEMMA ProducerMoves4 ==
  ASSUME Inv4, NEW t \in SomeProducers, NEW to \in Producing4, pc' = [pc EXCEPT ![t] = to]
  PROVE  /\ pc' \in [P4!Threads -> Producing4 \cup Consuming4]
         /\ pc'[t] = to /\ t \in P4!Threads /\ \A u \in P4!Threads \ {t} : pc'[u] = pc[u]
         /\ \A u \in SomeProducers \ {t} : pc'[u] = pc[u]
         /\ \A u \in SomeProducers : pc'[u] \in Producing4
         /\ \A u \in Consumers : pc'[u] = pc[u]
         /\ SlotsOut' = SlotsOut + In(to, HasSlot4) - In(pc[t], HasSlot4)
         /\ PutsOut' = PutsOut + In(to, HasPut) - In(pc[t], HasPut)
         /\ ItemsOut' = ItemsOut /\ GetsOut' = GetsOut
<1>1. /\ pc \in [P4!Threads -> Producing4 \cup Consuming4]
      /\ \A u \in SomeProducers : pc[u] \in Producing4
  BY Facts4
<1>2. /\ SomeProducers \subseteq P4!Threads /\ Consumers \subseteq P4!Threads
      /\ t \in P4!Threads /\ t \notin Consumers /\ DOMAIN pc = P4!Threads
      /\ IsFiniteSet(SomeProducers) /\ IsFiniteSet(Consumers)
  BY <1>1, ConstantFacts DEF P4!Threads
<1>3. SlotsOut' = SlotsOut + In(to, HasSlot4) - In(pc[t], HasSlot4)
  <2>1. /\ SlotsOut \in Nat
        /\ SlotsOut' = SlotsOut + (IF to \in HasSlot4 THEN 1 ELSE 0) - (IF pc[t] \in HasSlot4 THEN 1 ELSE 0)
    BY <1>2, AtMoves, ZenonT(60) DEF SlotsOut
  <2> QED
    BY <2>1 DEF In
<1>4. PutsOut' = PutsOut + In(to, HasPut) - In(pc[t], HasPut)
  <2>1. /\ PutsOut \in Nat
        /\ PutsOut' = PutsOut + (IF to \in HasPut THEN 1 ELSE 0) - (IF pc[t] \in HasPut THEN 1 ELSE 0)
    BY <1>2, AtMoves, ZenonT(60) DEF PutsOut
  <2> QED
    BY <2>1 DEF In
<1>5. ItemsOut' = ItemsOut
  BY <1>2, AtMoves, ZenonT(60) DEF ItemsOut
<1>6. GetsOut' = GetsOut
  BY <1>2, AtMoves, ZenonT(60) DEF GetsOut
<1>7. pc'[t] = to /\ \A u \in P4!Threads \ {t} : pc'[u] = pc[u]
  BY <1>1, <1>2
<1>8. pc' \in [P4!Threads -> Producing4 \cup Consuming4]
  BY <1>1, <1>2
<1> QED
  BY <1>1, <1>2, <1>3, <1>4, <1>5, <1>6, <1>7, <1>8

LEMMA ConsumerMoves4 ==
  ASSUME Inv4, NEW t \in Consumers, NEW to \in Consuming4, pc' = [pc EXCEPT ![t] = to]
  PROVE  /\ pc' \in [P4!Threads -> Producing4 \cup Consuming4]
         /\ pc'[t] = to /\ t \in P4!Threads /\ \A u \in P4!Threads \ {t} : pc'[u] = pc[u]
         /\ \A u \in Consumers \ {t} : pc'[u] = pc[u]
         /\ \A u \in Consumers : pc'[u] \in Consuming4
         /\ \A u \in SomeProducers : pc'[u] = pc[u]
         /\ ItemsOut' = ItemsOut + In(to, HasItem4) - In(pc[t], HasItem4)
         /\ GetsOut' = GetsOut + In(to, HasPut) - In(pc[t], HasPut)
         /\ SlotsOut' = SlotsOut /\ PutsOut' = PutsOut
<1>1. /\ pc \in [P4!Threads -> Producing4 \cup Consuming4]
      /\ \A u \in Consumers : pc[u] \in Consuming4
  BY Facts4
<1>2. /\ SomeProducers \subseteq P4!Threads /\ Consumers \subseteq P4!Threads
      /\ t \in P4!Threads /\ t \notin SomeProducers /\ DOMAIN pc = P4!Threads
      /\ IsFiniteSet(SomeProducers) /\ IsFiniteSet(Consumers)
  BY <1>1, ConstantFacts DEF P4!Threads
<1>3. ItemsOut' = ItemsOut + In(to, HasItem4) - In(pc[t], HasItem4)
  <2>1. /\ ItemsOut \in Nat
        /\ ItemsOut' = ItemsOut + (IF to \in HasItem4 THEN 1 ELSE 0) - (IF pc[t] \in HasItem4 THEN 1 ELSE 0)
    BY <1>2, AtMoves, ZenonT(60) DEF ItemsOut
  <2> QED
    BY <2>1 DEF In
<1>4. GetsOut' = GetsOut + In(to, HasPut) - In(pc[t], HasPut)
  <2>1. /\ GetsOut \in Nat
        /\ GetsOut' = GetsOut + (IF to \in HasPut THEN 1 ELSE 0) - (IF pc[t] \in HasPut THEN 1 ELSE 0)
    BY <1>2, AtMoves, ZenonT(60) DEF GetsOut
  <2> QED
    BY <2>1 DEF In
<1>5. SlotsOut' = SlotsOut
  BY <1>2, AtMoves, ZenonT(60) DEF SlotsOut
<1>6. PutsOut' = PutsOut
  BY <1>2, AtMoves, ZenonT(60) DEF PutsOut
<1>7. pc'[t] = to /\ \A u \in P4!Threads \ {t} : pc'[u] = pc[u]
  BY <1>1, <1>2
<1>8. pc' \in [P4!Threads -> Producing4 \cup Consuming4]
  BY <1>1, <1>2
<1> QED
  BY <1>1, <1>2, <1>3, <1>4, <1>5, <1>6, <1>7, <1>8

\* A producer goes on, but neither stores nor puts nor posts an item.
LEMMA ProducerGoes4 ==
  ASSUME Inv4, NEW p \in SomeProducers, NEW to \in Producing4 \ {"put"},
         pc' = [pc EXCEPT ![p] = to],
         UNCHANGED <<pbuff, nput, nputval, nget, ngetval, seen, count, taken>>,
         MutexStep(p, to, Inside4), pempty' \in Nat, pstored' \in Nat,
         pempty' = pempty + In(pc[p], HasSlot4) - In(to, HasSlot4),
         In(to, HasPut) = In(pc[p], HasPut),
         nput < nitems => pstored' = pstored,
         to = "store" => nput < nitems,
         to \in Last4 => nput >= nitems
  PROVE  Inv4'
<1>1. /\ pc' \in [P4!Threads -> Producing4 \cup Consuming4]
      /\ pc'[p] = to /\ p \in P4!Threads
      /\ \A u \in SomeProducers \ {p} : pc'[u] = pc[u]
      /\ \A u \in SomeProducers : pc'[u] \in Producing4
      /\ \A u \in Consumers : pc'[u] = pc[u]
      /\ SlotsOut' = SlotsOut + In(to, HasSlot4) - In(pc[p], HasSlot4)
      /\ PutsOut' = PutsOut + In(to, HasPut) - In(pc[p], HasPut)
      /\ ItemsOut' = ItemsOut /\ GetsOut' = GetsOut
  BY ProducerMoves4
<1>2. OneInside(P4!Threads, Inside4)' /\ pmutex' \in {0, 1}
  BY <1>1, Facts4, InsideMoves DEF Inv4
<1>3. Types4'
  BY <1>1, <1>2 DEF Inv4, Types4, SlotTypes
<1>4. Storing(SomeProducers)'
  BY <1>1 DEF Inv4, Storing
<1>5. Getting' /\ Ends4'
  BY <1>1 DEF Inv4, Getting, Ends4
<1>6. In(to, HasSlot4) \in Int /\ In(pc[p], HasSlot4) \in Int /\ In(pc[p], HasPut) \in Int
  BY DEF In
<1>7. /\ pempty \in Nat /\ SlotsOut \in Nat /\ PutsOut \in Nat /\ GetsOut \in Nat
      /\ nput \in Nat /\ nget \in Nat
      /\ pempty + SlotsOut + (nput - nget) + GetsOut = NBUFF
  BY Facts4
<1>8. PutsOut' = PutsOut
  BY <1>1, <1>6, <1>7
<1>9. Slots4'
  <2>1. pempty' + SlotsOut' = pempty + SlotsOut
    BY <1>1, <1>6, <1>7
  <2>2. nput' = nput /\ nget' = nget
    OBVIOUS
  <2>3. pempty' \in Nat /\ SlotsOut' \in Int
    BY <1>1, <1>6, <1>7
  <2>4. (pempty' + SlotsOut') + (nput - nget) + GetsOut = NBUFF
    BY <1>7, <2>1
  <2>5. pempty' + SlotsOut' + (nput' - nget') + GetsOut' = NBUFF
    BY <1>1, <2>2, <2>4
  <2> QED
    BY <2>5 DEF Slots4, SlotsOut, GetsOut
<1>10. Items4'
  BY <1>1, <1>8, Facts4 DEF Items4, PutsOut, ItemsOut
<1>11. Counts4'
  BY <1>1, <1>8 DEF Inv4, Counts4, CountsOf, PutsOut, GetsOut
<1>12. SlotsHold(nget)'
  BY DEF Inv4, SlotsHold
<1> QED
  BY <1>2, <1>3, <1>4, <1>5, <1>9, <1>10, <1>11, <1>12 DEF Inv4

\* A consumer goes on, but neither counts an item nor posts its slot.
LEMMA ConsumerGoes4 ==
  ASSUME Inv4, NEW c \in Consumers, NEW to \in Consuming4,
         pc' = [pc EXCEPT ![c] = to],
         UNCHANGED <<pbuff, nput, nputval, nget, ngetval, count, taken, pempty>>,
         seen' \in [Consumers -> Nat], \A d \in Consumers \ {c} : seen'[d] = seen[d],
         MutexStep(c, to, Inside4), pstored' \in Nat,
         In(to, HasPut) = In(pc[c], HasPut),
         nput < nitems => pstored' = pstored + In(pc[c], HasItem4) - In(to, HasItem4),
         to \in {"fetch", "get"} => nget < nput,
         to = "get" => seen'[c] = nget,
         to \in Last4 => nget >= nitems
  PROVE  Inv4'
<1>1. /\ pc' \in [P4!Threads -> Producing4 \cup Consuming4]
      /\ pc'[c] = to /\ c \in P4!Threads
      /\ \A u \in Consumers \ {c} : pc'[u] = pc[u]
      /\ \A u \in Consumers : pc'[u] \in Consuming4
      /\ \A u \in SomeProducers : pc'[u] = pc[u]
      /\ ItemsOut' = ItemsOut + In(to, HasItem4) - In(pc[c], HasItem4)
      /\ GetsOut' = GetsOut + In(to, HasPut) - In(pc[c], HasPut)
      /\ SlotsOut' = SlotsOut /\ PutsOut' = PutsOut
  BY ConsumerMoves4
<1>2. OneInside(P4!Threads, Inside4)' /\ pmutex' \in {0, 1}
  BY <1>1, Facts4, InsideMoves DEF Inv4
<1>3. Types4'
  BY <1>1, <1>2 DEF Inv4, Types4, SlotTypes
<1>4. Storing(SomeProducers)'
  BY <1>1 DEF Inv4, Storing
<1>5. Getting' /\ Ends4'
  BY <1>1 DEF Inv4, Getting, Ends4
<1>6. In(to, HasItem4) \in Int /\ In(pc[c], HasItem4) \in Int /\ In(pc[c], HasPut) \in Int
  BY DEF In
<1>7. /\ pempty \in Nat /\ pstored \in Nat /\ PutsOut \in Nat /\ ItemsOut \in Nat /\ GetsOut \in Nat
      /\ nput \in Nat /\ nget \in Nat
      /\ nput < nitems => pstored + PutsOut + ItemsOut = nput - nget
  BY Facts4
<1>8. GetsOut' = GetsOut
  BY <1>1, <1>6, <1>7
<1>9. Slots4'
  BY <1>1, <1>8, Facts4 DEF Slots4, SlotsOut, GetsOut
<1>10. Items4'
  <2>1. nput' = nput /\ nget' = nget
    OBVIOUS
  <2>2. ASSUME nput < nitems PROVE pstored' + PutsOut' + ItemsOut' = nput' - nget'
    <3>1. pstored' + ItemsOut' = pstored + ItemsOut
      BY <1>1, <1>6, <1>7, <2>2
    <3>2. PutsOut' = PutsOut /\ pstored' \in Nat /\ ItemsOut' \in Int
      BY <1>1, <1>6, <1>7
    <3>3. (pstored' + ItemsOut') + PutsOut = nput - nget
      BY <1>7, <2>2, <3>1
    <3>4. pstored' + PutsOut + ItemsOut' = nput - nget
      <4>1. \A x \in Nat, y \in Int : (x + y) + PutsOut = nput - nget => x + PutsOut + y = nput - nget
        BY <1>7
      <4> QED
        BY <3>2, <3>3, <4>1, Zenon
    <3> QED
      BY <2>1, <3>2, <3>4, Zenon
  <2> QED
    BY <2>1, <2>2 DEF Items4, PutsOut, ItemsOut
<1>11. Counts4'
  BY <1>1, <1>8 DEF Inv4, Counts4, CountsOf, PutsOut, GetsOut
<1>12. SlotsHold(nget)'
  BY DEF Inv4, SlotsHold
<1> QED
  BY <1>2, <1>3, <1>4, <1>5, <1>9, <1>10, <1>11, <1>12 DEF Inv4


LEMMA ProducerSteps4 ==
  ASSUME Inv4, NEW p \in SomeProducers,
         \/ P4!WaitEmpty(p) \/ P4!WaitMutex(p) \/ P4!TestPut(p) \/ P4!PostMutex(p)
         \/ P4!LastStored(p) \/ P4!LastEmpty(p) \/ P4!LastMutex(p)
  PROVE  Inv4'
<1>0. /\ pmutex \in {0, 1} /\ pempty \in Nat /\ pstored \in Nat /\ nput \in Nat /\ nitems \in Nat
  BY Facts4, ConstantFacts
<1>1. CASE P4!WaitEmpty(p)
  <2>1. /\ pc[p] = "wait_nempty" /\ pc' = [pc EXCEPT ![p] = "wait_mutex"]
        /\ pempty > 0 /\ pempty' = pempty - 1
        /\ UNCHANGED <<pmutex, pstored, pbuff, nput, nputval, nget, ngetval, seen, count, taken>>
    BY <1>0, <1>1 DEF P4!WaitEmpty, P4!Goto, P4!SemWait, P4!shared
  <2>2. MutexStep(p, "wait_mutex", Inside4)
    BY <1>0, <2>1 DEF MutexStep, Inside4
  <2>3. /\ pempty' \in Nat /\ pstored' \in Nat
        /\ pempty' = pempty + In(pc[p], HasSlot4) - In("wait_mutex", HasSlot4)
        /\ In("wait_mutex", HasPut) = In(pc[p], HasPut)
    BY <1>0, <2>1 DEF In, HasSlot4, HasPut
  <2>4. "wait_mutex" \in Producing4 \ {"put"} /\ ("wait_mutex" \in Last4 => nput >= nitems)
    BY <2>1 DEF Producing4, Last4
  <2>5. nput < nitems => pstored' = pstored
    BY <1>0, <2>1
  <2> QED
    BY <2>1, <2>2, <2>3, <2>4, <2>5, ProducerGoes4
<1>2. CASE P4!WaitMutex(p)
  <2>1. /\ pc[p] = "wait_mutex" /\ pc' = [pc EXCEPT ![p] = "test"]
        /\ pmutex > 0 /\ pmutex' = pmutex - 1
        /\ UNCHANGED <<pempty, pstored, pbuff, nput, nputval, nget, ngetval, seen, count, taken>>
    BY <1>0, <1>2 DEF P4!WaitMutex, P4!Goto, P4!TakeMutex, P4!SemWait, P4!shared
  <2>2. MutexStep(p, "test", Inside4)
    BY <1>0, <2>1 DEF MutexStep, Inside4
  <2>3. /\ pempty' \in Nat /\ pstored' \in Nat
        /\ pempty' = pempty + In(pc[p], HasSlot4) - In("test", HasSlot4)
        /\ In("test", HasPut) = In(pc[p], HasPut)
    BY <1>0, <2>1 DEF In, HasSlot4, HasPut
  <2>4. "test" \in Producing4 \ {"put"} /\ ("test" \in Last4 => nput >= nitems)
    BY <2>1 DEF Producing4, Last4
  <2>5. nput < nitems => pstored' = pstored
    BY <1>0, <2>1
  <2> QED
    BY <2>1, <2>2, <2>3, <2>4, <2>5, ProducerGoes4
<1>3. CASE P4!PostMutex(p)
  <2>1. /\ pc[p] = "post_mutex" /\ pc' = [pc EXCEPT ![p] = "post"]
        /\ pmutex' = pmutex + 1
        /\ UNCHANGED <<pempty, pstored, pbuff, nput, nputval, nget, ngetval, seen, count, taken>>
    BY <1>0, <1>3 DEF P4!PostMutex, P4!Goto, P4!SemPost, P4!shared
  <2>2. MutexStep(p, "post", Inside4)
    BY <1>0, <2>1 DEF MutexStep, Inside4
  <2>3. /\ pempty' \in Nat /\ pstored' \in Nat
        /\ pempty' = pempty + In(pc[p], HasSlot4) - In("post", HasSlot4)
        /\ In("post", HasPut) = In(pc[p], HasPut)
    BY <1>0, <2>1 DEF In, HasSlot4, HasPut
  <2>4. "post" \in Producing4 \ {"put"} /\ ("post" \in Last4 => nput >= nitems)
    BY <2>1 DEF Producing4, Last4
  <2>5. nput < nitems => pstored' = pstored
    BY <1>0, <2>1
  <2> QED
    BY <2>1, <2>2, <2>3, <2>4, <2>5, ProducerGoes4
<1>4. CASE P4!LastStored(p)
  <2>1. /\ pc[p] = "last_nstored" /\ pc' = [pc EXCEPT ![p] = "last_nempty"]
        /\ pstored' = pstored + 1
        /\ UNCHANGED <<pmutex, pempty, pbuff, nput, nputval, nget, ngetval, seen, count, taken>>
    BY <1>0, <1>4 DEF P4!LastStored, P4!Goto, P4!PassOn, P4!SemPost, P4!shared
  <2>2. MutexStep(p, "last_nempty", Inside4)
    BY <1>0, <2>1 DEF MutexStep, Inside4
  <2>3. /\ pempty' \in Nat /\ pstored' \in Nat
        /\ pempty' = pempty + In(pc[p], HasSlot4) - In("last_nempty", HasSlot4)
        /\ In("last_nempty", HasPut) = In(pc[p], HasPut)
    BY <1>0, <2>1 DEF In, HasSlot4, HasPut
  <2>4. "last_nempty" \in Producing4 \ {"put"} /\ ("last_nempty" \in Last4 => nput >= nitems)
    BY <2>1 DEF Producing4, Last4, Inv4, Ends4
  <2>5. nput < nitems => pstored' = pstored
    BY <1>0, <2>1 DEF Inv4, Ends4, Last4
  <2> QED
    BY <2>1, <2>2, <2>3, <2>4, <2>5, ProducerGoes4
<1>5. CASE P4!LastEmpty(p)
  <2>1. /\ pc[p] = "last_nempty" /\ pc' = [pc EXCEPT ![p] = "last_mutex"]
        /\ pempty' = pempty + 1
        /\ UNCHANGED <<pmutex, pstored, pbuff, nput, nputval, nget, ngetval, seen, count, taken>>
    BY <1>0, <1>5 DEF P4!LastEmpty, P4!Goto, P4!SemPost, P4!shared
  <2>2. MutexStep(p, "last_mutex", Inside4)
    BY <1>0, <2>1 DEF MutexStep, Inside4
  <2>3. /\ pempty' \in Nat /\ pstored' \in Nat
        /\ pempty' = pempty + In(pc[p], HasSlot4) - In("last_mutex", HasSlot4)
        /\ In("last_mutex", HasPut) = In(pc[p], HasPut)
    BY <1>0, <2>1 DEF In, HasSlot4, HasPut
  <2>4. "last_mutex" \in Producing4 \ {"put"} /\ ("last_mutex" \in Last4 => nput >= nitems)
    BY <2>1 DEF Producing4, Last4, Inv4, Ends4
  <2>5. nput < nitems => pstored' = pstored
    BY <1>0, <2>1 DEF Inv4, Ends4, Last4
  <2> QED
    BY <2>1, <2>2, <2>3, <2>4, <2>5, ProducerGoes4
<1>6. CASE P4!LastMutex(p)
  <2>1. /\ pc[p] = "last_mutex" /\ pc' = [pc EXCEPT ![p] = "end"]
        /\ pmutex' = pmutex + 1
        /\ UNCHANGED <<pempty, pstored, pbuff, nput, nputval, nget, ngetval, seen, count, taken>>
    BY <1>0, <1>6 DEF P4!LastMutex, P4!Goto, P4!SemPost, P4!shared
  <2>2. MutexStep(p, "end", Inside4)
    BY <1>0, <2>1 DEF MutexStep, Inside4
  <2>3. /\ pempty' \in Nat /\ pstored' \in Nat
        /\ pempty' = pempty + In(pc[p], HasSlot4) - In("end", HasSlot4)
        /\ In("end", HasPut) = In(pc[p], HasPut)
    BY <1>0, <2>1 DEF In, HasSlot4, HasPut
  <2>4. "end" \in Producing4 \ {"put"} /\ ("end" \in Last4 => nput >= nitems)
    BY <2>1 DEF Producing4, Last4, Inv4, Ends4
  <2>5. nput < nitems => pstored' = pstored
    BY <1>0, <2>1 DEF Inv4, Ends4, Last4
  <2> QED
    BY <2>1, <2>2, <2>3, <2>4, <2>5, ProducerGoes4
<1>7. CASE P4!TestPut(p)
  <2>1. /\ pc[p] = "test"
        /\ pc' = [pc EXCEPT ![p] = IF nput >= nitems THEN "last_nstored" ELSE "store"]
        /\ UNCHANGED <<pempty, pmutex, pstored, pbuff, nput, nputval, nget, ngetval, seen, count, taken>>
    BY <1>7 DEF P4!TestPut, P4!AllPut, P4!Goto, P4!sems, P4!shared
  <2>2. CASE nput >= nitems
    <3>1. pc' = [pc EXCEPT ![p] = "last_nstored"]
      BY <2>1, <2>2
    <3>2. MutexStep(p, "last_nstored", Inside4)
      BY <2>1 DEF MutexStep, Inside4
    <3>3. /\ pempty' \in Nat /\ pstored' \in Nat
          /\ pempty' = pempty + In(pc[p], HasSlot4) - In("last_nstored", HasSlot4)
          /\ In("last_nstored", HasPut) = In(pc[p], HasPut)
      BY <1>0, <2>1 DEF In, HasSlot4, HasPut
    <3>4. /\ "last_nstored" \in Producing4 \ {"put"}
          /\ "last_nstored" \in Last4 => nput >= nitems
          /\ "last_nstored" = "store" => nput < nitems
      BY <1>0, <2>2 DEF Producing4, Last4
    <3>5. nput < nitems => pstored' = pstored
      BY <2>1
    <3> QED
      BY <2>1, <3>1, <3>2, <3>3, <3>4, <3>5, ProducerGoes4
  <2>3. CASE ~(nput >= nitems)
    <3>1. pc' = [pc EXCEPT ![p] = "store"]
      BY <2>1, <2>3
    <3>2. MutexStep(p, "store", Inside4)
      BY <2>1 DEF MutexStep, Inside4
    <3>3. /\ pempty' \in Nat /\ pstored' \in Nat
          /\ pempty' = pempty + In(pc[p], HasSlot4) - In("store", HasSlot4)
          /\ In("store", HasPut) = In(pc[p], HasPut)
      BY <1>0, <2>1 DEF In, HasSlot4, HasPut
    <3>4. /\ "store" \in Producing4 \ {"put"}
          /\ "store" \in Last4 => nput >= nitems
          /\ "store" = "store" => nput < nitems
      BY <1>0, <2>3 DEF Producing4, Last4
    <3>5. nput < nitems => pstored' = pstored
      BY <2>1
    <3> QED
      BY <2>1, <3>1, <3>2, <3>3, <3>4, <3>5, ProducerGoes4
  <2> QED
    BY <2>2, <2>3
<1> QED
  BY <1>1, <1>2, <1>3, <1>4, <1>5, <1>6, <1>7

LEMMA ConsumerSteps4 ==
  ASSUME Inv4, NEW c \in Consumers,
         \/ P4!WaitStored(c) \/ P4!WaitMutex(c) \/ P4!TestGet(c) \/ P4!Fetch(c) \/ P4!PostMutex(c)
         \/ P4!LastStored(c) \/ P4!LastMutex(c)
  PROVE  Inv4'
<1>0. /\ pmutex \in {0, 1} /\ pempty \in Nat /\ pstored \in Nat /\ nput \in 0..nitems
      /\ nget \in 0..nput /\ nitems \in Nat /\ c \notin SomeProducers
      /\ seen \in [Consumers -> Nat] /\ pbuff \in [0..NBUFF-1 -> Nat]
      /\ pc[c] \in Last4 => nget >= nitems
  BY Facts4, ConstantFacts DEF Inv4, Ends4
<1>1. CASE P4!WaitStored(c)
  <2>1. /\ pc[c] = "wait_nstored" /\ pc' = [pc EXCEPT ![c] = "wait_mutex"]
        /\ pstored > 0 /\ pstored' = pstored - 1
        /\ UNCHANGED <<pmutex, pempty, pbuff, nput, nputval, nget, ngetval, count, taken, seen>>
    BY <1>0, <1>1 DEF P4!WaitStored, P4!Goto, P4!SemWait, P4!shared
  <2>2. MutexStep(c, "wait_mutex", Inside4) /\ "wait_mutex" \in Consuming4
    BY <1>0, <2>1 DEF MutexStep, Inside4, Consuming4
  <2>3. pstored' \in Nat /\ In("wait_mutex", HasPut) = In(pc[c], HasPut)
    BY <1>0, <2>1 DEF In, HasPut
  <2>4. nput < nitems => pstored' = pstored + In(pc[c], HasItem4) - In("wait_mutex", HasItem4)
    BY <1>0, <2>1 DEF In, HasItem4
  <2>5. "wait_mutex" \in {"fetch", "get"} => nget < nput
    OBVIOUS
  <2>6. "wait_mutex" \in Last4 => nget >= nitems
    BY DEF Last4
  <2>7. /\ seen' \in [Consumers -> Nat] /\ \A d \in Consumers \ {c} : seen'[d] = seen[d]
        /\ "wait_mutex" = "get" => seen'[c] = nget
    BY <1>0, <2>1
  <2> QED
    BY <2>1, <2>2, <2>3, <2>4, <2>5, <2>6, <2>7, ConsumerGoes4
<1>2. CASE P4!WaitMutex(c)
  <2>1. /\ pc[c] = "wait_mutex" /\ pc' = [pc EXCEPT ![c] = "test"]
        /\ pmutex > 0 /\ pmutex' = pmutex - 1
        /\ UNCHANGED <<pempty, pstored, pbuff, nput, nputval, nget, ngetval, count, taken, seen>>
    BY <1>0, <1>2 DEF P4!WaitMutex, P4!Goto, P4!TakeMutex, P4!SemWait, P4!shared
  <2>2. MutexStep(c, "test", Inside4) /\ "test" \in Consuming4
    BY <1>0, <2>1 DEF MutexStep, Inside4, Consuming4
  <2>3. pstored' \in Nat /\ In("test", HasPut) = In(pc[c], HasPut)
    BY <1>0, <2>1 DEF In, HasPut
  <2>4. nput < nitems => pstored' = pstored + In(pc[c], HasItem4) - In("test", HasItem4)
    BY <1>0, <2>1 DEF In, HasItem4
  <2>5. "test" \in {"fetch", "get"} => nget < nput
    OBVIOUS
  <2>6. "test" \in Last4 => nget >= nitems
    BY DEF Last4
  <2>7. /\ seen' \in [Consumers -> Nat] /\ \A d \in Consumers \ {c} : seen'[d] = seen[d]
        /\ "test" = "get" => seen'[c] = nget
    BY <1>0, <2>1
  <2> QED
    BY <2>1, <2>2, <2>3, <2>4, <2>5, <2>6, <2>7, ConsumerGoes4
<1>3. CASE P4!PostMutex(c)
  <2>1. /\ pc[c] = "post_mutex" /\ pc' = [pc EXCEPT ![c] = "post"]
        /\ pmutex' = pmutex + 1
        /\ UNCHANGED <<pempty, pstored, pbuff, nput, nputval, nget, ngetval, count, taken, seen>>
    BY <1>0, <1>3 DEF P4!PostMutex, P4!Goto, P4!SemPost, P4!shared
  <2>2. MutexStep(c, "post", Inside4) /\ "post" \in Consuming4
    BY <1>0, <2>1 DEF MutexStep, Inside4, Consuming4
  <2>3. pstored' \in Nat /\ In("post", HasPut) = In(pc[c], HasPut)
    BY <1>0, <2>1 DEF In, HasPut
  <2>4. nput < nitems => pstored' = pstored + In(pc[c], HasItem4) - In("post", HasItem4)
    BY <1>0, <2>1 DEF In, HasItem4
  <2>5. "post" \in {"fetch", "get"} => nget < nput
    OBVIOUS
  <2>6. "post" \in Last4 => nget >= nitems
    BY DEF Last4
  <2>7. /\ seen' \in [Consumers -> Nat] /\ \A d \in Consumers \ {c} : seen'[d] = seen[d]
        /\ "post" = "get" => seen'[c] = nget
    BY <1>0, <2>1
  <2> QED
    BY <2>1, <2>2, <2>3, <2>4, <2>5, <2>6, <2>7, ConsumerGoes4
<1>4. CASE P4!LastStored(c)
  <2>1. /\ pc[c] = "last_nstored" /\ pc' = [pc EXCEPT ![c] = "last_mutex"]
        /\ pstored' = pstored + 1
        /\ UNCHANGED <<pmutex, pempty, pbuff, nput, nputval, nget, ngetval, count, taken, seen>>
    BY <1>0, <1>4 DEF P4!LastStored, P4!Goto, P4!PassOn, P4!SemPost, P4!shared
  <2>2. MutexStep(c, "last_mutex", Inside4) /\ "last_mutex" \in Consuming4
    BY <1>0, <2>1 DEF MutexStep, Inside4, Consuming4
  <2>3. pstored' \in Nat /\ In("last_mutex", HasPut) = In(pc[c], HasPut)
    BY <1>0, <2>1 DEF In, HasPut
  <2>4. nput < nitems => pstored' = pstored + In(pc[c], HasItem4) - In("last_mutex", HasItem4)
    BY <1>0, <2>1 DEF Last4
  <2>5. "last_mutex" \in {"fetch", "get"} => nget < nput
    OBVIOUS
  <2>6. "last_mutex" \in Last4 => nget >= nitems
    BY <1>0, <2>1 DEF Last4
  <2>7. /\ seen' \in [Consumers -> Nat] /\ \A d \in Consumers \ {c} : seen'[d] = seen[d]
        /\ "last_mutex" = "get" => seen'[c] = nget
    BY <1>0, <2>1
  <2> QED
    BY <2>1, <2>2, <2>3, <2>4, <2>5, <2>6, <2>7, ConsumerGoes4
<1>5. CASE P4!LastMutex(c)
  <2>1. /\ pc[c] = "last_mutex" /\ pc' = [pc EXCEPT ![c] = "end"]
        /\ pmutex' = pmutex + 1
        /\ UNCHANGED <<pempty, pstored, pbuff, nput, nputval, nget, ngetval, count, taken, seen>>
    BY <1>0, <1>5 DEF P4!LastMutex, P4!Goto, P4!SemPost, P4!shared
  <2>2. MutexStep(c, "end", Inside4) /\ "end" \in Consuming4
    BY <1>0, <2>1 DEF MutexStep, Inside4, Consuming4
  <2>3. pstored' \in Nat /\ In("end", HasPut) = In(pc[c], HasPut)
    BY <1>0, <2>1 DEF In, HasPut
  <2>4. nput < nitems => pstored' = pstored + In(pc[c], HasItem4) - In("end", HasItem4)
    BY <1>0, <2>1 DEF In, HasItem4
  <2>5. "end" \in {"fetch", "get"} => nget < nput
    OBVIOUS
  <2>6. "end" \in Last4 => nget >= nitems
    BY <1>0, <2>1 DEF Last4
  <2>7. /\ seen' \in [Consumers -> Nat] /\ \A d \in Consumers \ {c} : seen'[d] = seen[d]
        /\ "end" = "get" => seen'[c] = nget
    BY <1>0, <2>1
  <2> QED
    BY <2>1, <2>2, <2>3, <2>4, <2>5, <2>6, <2>7, ConsumerGoes4
<1>6. CASE P4!Fetch(c)
  <2>1. /\ pc[c] = "fetch" /\ pc' = [pc EXCEPT ![c] = "get"]
        /\ seen' = [seen EXCEPT ![c] = pbuff[nget % NBUFF]]
        /\ UNCHANGED <<pmutex, pempty, pstored, pbuff, nput, nputval, nget, ngetval, count, taken>>
    BY <1>0, <1>6 DEF P4!Fetch, P4!Goto, P4!sems, P4!shared
  <2>2. MutexStep(c, "get", Inside4) /\ "get" \in Consuming4
    BY <1>0, <2>1 DEF MutexStep, Inside4, Consuming4
  <2>3. pstored' \in Nat /\ In("get", HasPut) = In(pc[c], HasPut)
    BY <1>0, <2>1 DEF In, HasPut
  <2>4. nput < nitems => pstored' = pstored + In(pc[c], HasItem4) - In("get", HasItem4)
    BY <1>0, <2>1 DEF In, HasItem4
  <2>5. "get" \in {"fetch", "get"} => nget < nput
    BY <2>1 DEF Inv4, Getting
  <2>6. "get" \in Last4 => nget >= nitems
    BY DEF Last4
  <2>7. /\ seen' \in [Consumers -> Nat] /\ \A d \in Consumers \ {c} : seen'[d] = seen[d]
        /\ "get" = "get" => seen'[c] = nget
    <3>1. nget < nput /\ nget \in Nat
      BY <1>0, <2>1 DEF Inv4, Getting
    <3>2. nget \in nget .. nput - 1
      BY <1>0, <3>1
    <3>3. pbuff[nget % NBUFF] = nget
      BY <3>2 DEF Inv4, SlotsHold
    <3> QED
      BY <1>0, <2>1, <3>1, <3>3
  <2> QED
    BY <2>1, <2>2, <2>3, <2>4, <2>5, <2>6, <2>7, ConsumerGoes4
<1>7. CASE P4!TestGet(c)
  <2>1. /\ pc[c] = "test"
        /\ pc' = [pc EXCEPT ![c] = IF nget >= nitems THEN "last_nstored" ELSE "fetch"]
        /\ UNCHANGED <<pempty, pmutex, pstored, pbuff, nput, nputval, nget, ngetval, seen, count, taken>>
    BY <1>7 DEF P4!TestGet, P4!Goto, P4!sems, P4!shared
  <2>2. seen' \in [Consumers -> Nat] /\ \A d \in Consumers \ {c} : seen'[d] = seen[d]
    BY <1>0, <2>1
  <2>3. CASE nget >= nitems
    <3>1. pc' = [pc EXCEPT ![c] = "last_nstored"]
      BY <2>1, <2>3
    <3>2. MutexStep(c, "last_nstored", Inside4) /\ "last_nstored" \in Consuming4
      BY <2>1 DEF MutexStep, Inside4, Consuming4
    <3>3. pstored' \in Nat /\ In("last_nstored", HasPut) = In(pc[c], HasPut)
      BY <1>0, <2>1 DEF In, HasPut
    <3>4. nput < nitems => pstored' = pstored + In(pc[c], HasItem4) - In("last_nstored", HasItem4)
      BY <1>0, <2>1, <2>3 DEF In, HasItem4
    <3>5. "last_nstored" \in {"fetch", "get"} => nget < nput
      OBVIOUS
    <3>6. "last_nstored" \in Last4 => nget >= nitems
      BY <2>3 DEF Last4
    <3> QED
      BY <2>1, <2>2, <3>1, <3>2, <3>3, <3>4, <3>5, <3>6, ConsumerGoes4
  <2>4. CASE ~(nget >= nitems)
    <3>1. pc' = [pc EXCEPT ![c] = "fetch"]
      BY <2>1, <2>4
    <3>2. MutexStep(c, "fetch", Inside4) /\ "fetch" \in Consuming4
      BY <2>1 DEF MutexStep, Inside4, Consuming4
    <3>3. pstored' \in Nat /\ In("fetch", HasPut) = In(pc[c], HasPut)
      BY <1>0, <2>1 DEF In, HasPut
    <3>4. nput < nitems => pstored' = pstored + In(pc[c], HasItem4) - In("fetch", HasItem4)
      BY <1>0, <2>1, <2>4 DEF In, HasItem4
    <3>5. "fetch" \in {"fetch", "get"} => nget < nput
      <4>1. "test" \in HasItem4
        BY DEF HasItem4
      <4>2. ASSUME nput < nitems PROVE nget < nput
        <5>1. ItemsOut # 0 /\ ItemsOut \in Nat
          BY <2>1, <4>1, AtNone, ConstantFacts DEF ItemsOut
        <5> QED
          BY <1>0, <4>2, <5>1, Facts4
      <4> QED
        BY <1>0, <2>4, <4>2
    <3>6. "fetch" \in Last4 => nget >= nitems
      BY <2>4 DEF Last4
    <3> QED
      BY <2>1, <2>2, <3>1, <3>2, <3>3, <3>4, <3>5, <3>6, ConsumerGoes4
  <2> QED
    BY <2>3, <2>4
<1> QED
  BY <1>1, <1>2, <1>3, <1>4, <1>5, <1>6, <1>7

\* Between a producer's look at the count and its post, no slot is overrun.
LEMMA RoomFor4 ==
  ASSUME Inv4, NEW p \in SomeProducers, pc[p] \in HasSlot4
  PROVE  nput < nget + NBUFF
<1>1. SlotsOut # 0
  BY AtNone, ConstantFacts DEF SlotsOut
<1>2. /\ pempty \in Nat /\ SlotsOut \in Nat /\ GetsOut \in Nat /\ nput \in Nat /\ nget \in Nat
      /\ NBUFF \in Nat /\ pempty + SlotsOut + (nput - nget) + GetsOut = NBUFF
  BY Facts4, ConstantFacts
<1> QED
  BY <1>1, <1>2

LEMMA StoreStep4 ==
  ASSUME Inv4, NEW p \in SomeProducers, P4!Store(p)
  PROVE  Inv4'
<1>0. /\ nput \in Nat /\ nputval = nput /\ pbuff \in [0..NBUFF-1 -> Nat] /\ nget \in Nat
  BY Facts4
<1>1. /\ pc[p] = "store" /\ pc' = [pc EXCEPT ![p] = "put"]
      /\ pbuff' = [pbuff EXCEPT ![nput % NBUFF] = nput]
      /\ UNCHANGED <<pmutex, pempty, pstored, nput, nputval, nget, ngetval, seen, count, taken>>
  BY <1>0 DEF P4!Store, P4!Goto, P4!sems
<1>2. "put" \in Producing4
  BY DEF Producing4
<1>3. /\ pc' \in [P4!Threads -> Producing4 \cup Consuming4]
      /\ pc'[p] = "put" /\ p \in P4!Threads
      /\ \A u \in SomeProducers \ {p} : pc'[u] = pc[u]
      /\ \A u \in SomeProducers : pc'[u] \in Producing4
      /\ \A u \in Consumers : pc'[u] = pc[u]
      /\ SlotsOut' = SlotsOut + In("put", HasSlot4) - In(pc[p], HasSlot4)
      /\ PutsOut' = PutsOut + In("put", HasPut) - In(pc[p], HasPut)
      /\ ItemsOut' = ItemsOut /\ GetsOut' = GetsOut
  BY <1>1, <1>2, ProducerMoves4
<1>4. SlotsOut' = SlotsOut /\ PutsOut' = PutsOut
  BY <1>1, <1>3, Facts4 DEF In, HasSlot4, HasPut
<1>5. OneInside(P4!Threads, Inside4)' /\ pmutex' \in {0, 1}
  <2>1. MutexStep(p, "put", Inside4)
    BY <1>1 DEF MutexStep, Inside4
  <2> QED
    BY <1>1, <1>3, <2>1, Facts4, InsideMoves DEF Inv4
<1>6. nput < nget + NBUFF
  BY <1>1, RoomFor4 DEF HasSlot4
<1>7. /\ pbuff'[nput % NBUFF] = nput
      /\ \A k \in nget .. nput - 1 : pbuff'[k % NBUFF] = pbuff[k % NBUFF]
  <2>1. /\ nput % NBUFF \in 0..NBUFF-1
        /\ \A k \in nget .. nput - 1 : k % NBUFF \in 0..NBUFF-1 /\ k % NBUFF # nput % NBUFF
    BY <1>0, <1>6, FreeSlot
  <2>2. \A x \in 0..NBUFF-1 : pbuff'[x] = IF x = nput % NBUFF THEN nput ELSE pbuff[x]
    BY <1>0, <1>1
  <2> QED
    BY <2>1, <2>2, Zenon
<1>8. Types4'
  BY <1>0, <1>1, <1>3, <1>5 DEF Inv4, Types4, SlotTypes
<1>9. Storing(SomeProducers)'
  <2>1. \A q \in SomeProducers \ {p} : pc[q] # "put"
    BY <1>1 DEF Inv4, OneInside, Inside4, P4!Threads
  <2> QED
    BY <1>1, <1>3, <1>7, <2>1 DEF Inv4, Storing
<1>10. Getting'
  BY <1>1, <1>3 DEF Inv4, Getting
<1>11. Ends4'
  BY <1>1, <1>3 DEF Inv4, Ends4, Last4
<1>12. Slots4' /\ Items4'
  BY <1>1, <1>3, <1>4 DEF Inv4, Slots4, Items4, SlotsOut, PutsOut, ItemsOut, GetsOut
<1>13. Counts4'
  BY <1>1, <1>3, <1>4 DEF Inv4, Counts4, CountsOf, PutsOut, GetsOut
<1>14. SlotsHold(nget)'
  BY <1>1, <1>7 DEF Inv4, SlotsHold
<1> QED
  BY <1>5, <1>8, <1>9, <1>10, <1>11, <1>12, <1>13, <1>14 DEF Inv4

LEMMA PutStep4 ==
  ASSUME Inv4, NEW p \in SomeProducers, P4!Put(p)
  PROVE  Inv4'
<1>0. /\ nput \in Nat /\ nputval = nput /\ nitems \in Nat /\ nget \in 0..nput
  BY Facts4, ConstantFacts
<1>1. /\ pc[p] = "put" /\ pc' = [pc EXCEPT ![p] = "post_mutex"]
      /\ nput' = nput + 1 /\ nputval' = nput + 1
      /\ UNCHANGED <<pmutex, pempty, pstored, pbuff, nget, ngetval, seen, count, taken>>
  BY <1>0 DEF P4!Put, P4!Goto, P4!sems
<1>2. "post_mutex" \in Producing4
  BY DEF Producing4
<1>3. /\ pc' \in [P4!Threads -> Producing4 \cup Consuming4]
      /\ pc'[p] = "post_mutex" /\ p \in P4!Threads
      /\ \A u \in SomeProducers \ {p} : pc'[u] = pc[u]
      /\ \A u \in SomeProducers : pc'[u] \in Producing4
      /\ \A u \in Consumers : pc'[u] = pc[u]
      /\ SlotsOut' = SlotsOut + In("post_mutex", HasSlot4) - In(pc[p], HasSlot4)
      /\ PutsOut' = PutsOut + In("post_mutex", HasPut) - In(pc[p], HasPut)
      /\ ItemsOut' = ItemsOut /\ GetsOut' = GetsOut
  BY <1>1, <1>2, ProducerMoves4
<1>4. SlotsOut' = SlotsOut - 1 /\ PutsOut' = PutsOut + 1
  BY <1>1, <1>3, Facts4 DEF In, HasSlot4, HasPut
<1>5. OneInside(P4!Threads, Inside4)' /\ pmutex' \in {0, 1}
  <2>1. MutexStep(p, "post_mutex", Inside4)
    BY <1>1 DEF MutexStep, Inside4
  <2> QED
    BY <1>1, <1>3, <2>1, Facts4, InsideMoves DEF Inv4
<1>6. nput < nitems /\ pbuff[nput % NBUFF] = nput
  BY <1>1 DEF Inv4, Storing
<1>7. nget \in 0..nput'
  BY <1>0, <1>1
<1>8. Types4'
  BY <1>0, <1>1, <1>3, <1>5, <1>6, <1>7 DEF Inv4, Types4, SlotTypes
<1>9. Storing(SomeProducers)'
  <2>1. \A q \in SomeProducers \ {p} : pc[q] \notin {"store", "put"}
    BY <1>1 DEF Inv4, OneInside, Inside4, P4!Threads
  <2> QED
    BY <1>3, <2>1 DEF Storing
<1>10. Getting'
  BY <1>0, <1>1, <1>3 DEF Inv4, Getting
<1>11. Ends4'
  <2>1. "post_mutex" \notin Last4
    BY DEF Last4
  <2> QED
    BY <1>0, <1>1, <1>3, <1>6, <2>1 DEF Inv4, Ends4
<1>12. Slots4'
  <2>1. /\ pempty \in Nat /\ SlotsOut \in Nat /\ GetsOut \in Nat
        /\ pempty + SlotsOut + (nput - nget) + GetsOut = NBUFF
    BY Facts4
  <2>2. pempty + (SlotsOut - 1) + ((nput + 1) - nget) + GetsOut = NBUFF
    BY <1>0, <2>1
  <2> QED
    BY <1>1, <1>3, <1>4, <2>2 DEF Slots4, SlotsOut, GetsOut
<1>13. Items4'
  <2>1. /\ pstored \in Nat /\ PutsOut \in Nat /\ ItemsOut \in Nat
        /\ pstored + PutsOut + ItemsOut = nput - nget
    BY <1>6, Facts4
  <2>2. pstored + (PutsOut + 1) + ItemsOut = (nput + 1) - nget
    BY <1>0, <2>1
  <2> QED
    BY <1>1, <1>3, <1>4, <2>2 DEF Items4, PutsOut, ItemsOut
<1>14. Counts4'
  <2>1. /\ Total(CountsOf(SomeProducers)) \in Nat /\ PutsOut \in Nat
        /\ Total(CountsOf(SomeProducers)) + PutsOut = nput
    BY Facts4, FS_CardinalityType DEF Inv4, Counts4, Total, PutsOut
  <2>2. Total(CountsOf(SomeProducers)) + (PutsOut + 1) = nput + 1
    BY <1>0, <2>1
  <2> QED
    BY <1>1, <1>3, <1>4, <2>2 DEF Inv4, Counts4, CountsOf, PutsOut, GetsOut
<1>15. SlotsHold(nget)'
  BY <1>0, <1>1, <1>6 DEF Inv4, SlotsHold
<1> QED
  BY <1>5, <1>8, <1>9, <1>10, <1>11, <1>12, <1>13, <1>14, <1>15 DEF Inv4

\* Counting by one thread is counting for its side only.
LEMMA CountsMove ==
  ASSUME Inv4, NEW t \in P4!Threads, count' = [count EXCEPT ![t] = @ + 1],
         NEW S, S \subseteq P4!Threads, IsFiniteSet(Units(CountsOf(S)))
  PROVE  /\ count' \in [P4!Threads -> Nat]
         /\ IsFiniteSet(Units(CountsOf(S)))' /\ Total(CountsOf(S)) \in Nat
         /\ t \in S => Total(CountsOf(S))' = Total(CountsOf(S)) + 1
         /\ t \notin S => Total(CountsOf(S))' = Total(CountsOf(S))
<1>1. count \in [P4!Threads -> Nat]
  BY Facts4
<1>2. CountsOf(S) \in [S -> Nat]
  BY <1>1 DEF CountsOf
<1>3. count' \in [P4!Threads -> Nat]
  BY <1>1
<1>4. Total(CountsOf(S)) \in Nat
  BY FS_CardinalityType DEF Total
<1>5. CASE t \in S
  <2>1. /\ CountsOf(S)' \in [S -> Nat] /\ CountsOf(S)'[t] = CountsOf(S)[t] + 1
        /\ \A u \in S \ {t} : CountsOf(S)'[u] = CountsOf(S)[u]
    BY <1>1, <1>5 DEF CountsOf
  <2>2. OneMore(S, CountsOf(S), t, CountsOf(S)')
    BY <1>2, <1>5, <2>1 DEF OneMore
  <2>3. IsFiniteSet(Units(CountsOf(S)')) /\ Total(CountsOf(S)') = Total(CountsOf(S)) + 1
    BY <2>2, TotalPlusOne
  <2> QED
    BY <1>3, <1>4, <1>5, <2>3
<1>6. CASE t \notin S
  <2>1. CountsOf(S)' = CountsOf(S)
    BY <1>1, <1>6 DEF CountsOf
  <2> QED
    BY <1>3, <1>4, <1>6, <2>1
<1> QED
  BY <1>5, <1>6

LEMMA PostStep4 ==
  ASSUME Inv4, NEW p \in SomeProducers, P4!PostStored(p)
  PROVE  Inv4'
<1>1. /\ pc[p] = "post" /\ pc' = [pc EXCEPT ![p] = "wait_nempty"]
      /\ pstored' = pstored + 1 /\ count' = [count EXCEPT ![p] = @ + 1]
      /\ UNCHANGED <<pmutex, pempty, pbuff, nput, nputval, nget, ngetval, seen, taken>>
  BY DEF P4!PostStored, P4!Goto, P4!SemPost, P4!shared
<1>2. "wait_nempty" \in Producing4 /\ "wait_nempty" \notin Last4
  BY DEF Producing4, Last4
<1>3. /\ pc' \in [P4!Threads -> Producing4 \cup Consuming4]
      /\ pc'[p] = "wait_nempty" /\ p \in P4!Threads
      /\ \A u \in SomeProducers \ {p} : pc'[u] = pc[u]
      /\ \A u \in SomeProducers : pc'[u] \in Producing4
      /\ \A u \in Consumers : pc'[u] = pc[u]
      /\ SlotsOut' = SlotsOut + In("wait_nempty", HasSlot4) - In(pc[p], HasSlot4)
      /\ PutsOut' = PutsOut + In("wait_nempty", HasPut) - In(pc[p], HasPut)
      /\ ItemsOut' = ItemsOut /\ GetsOut' = GetsOut
  BY <1>1, <1>2, ProducerMoves4
<1>4. SlotsOut' = SlotsOut /\ PutsOut' = PutsOut - 1
  BY <1>1, <1>3, Facts4 DEF In, HasSlot4, HasPut
<1>5. OneInside(P4!Threads, Inside4)' /\ pmutex' \in {0, 1}
  <2>1. MutexStep(p, "wait_nempty", Inside4)
    BY <1>1 DEF MutexStep, Inside4
  <2> QED
    BY <1>1, <1>3, <2>1, Facts4, InsideMoves DEF Inv4
<1>6. /\ SomeProducers \subseteq P4!Threads /\ Consumers \subseteq P4!Threads
      /\ p \notin Consumers
      /\ IsFiniteSet(Units(CountsOf(SomeProducers))) /\ IsFiniteSet(Units(CountsOf(Consumers)))
  BY ConstantFacts DEF Inv4, Counts4, P4!Threads
<1>7. /\ count' \in [P4!Threads -> Nat]
      /\ IsFiniteSet(Units(CountsOf(SomeProducers)))' /\ Total(CountsOf(SomeProducers)) \in Nat
      /\ Total(CountsOf(SomeProducers))' = Total(CountsOf(SomeProducers)) + 1
  BY <1>1, <1>3, <1>6, CountsMove
<1>8. /\ IsFiniteSet(Units(CountsOf(Consumers)))'
      /\ Total(CountsOf(Consumers))' = Total(CountsOf(Consumers))
  BY <1>1, <1>3, <1>6, CountsMove
<1>9. Types4'
  <2>1. pstored' \in Nat
    BY <1>1, Facts4
  <2> QED
    BY <1>1, <1>3, <1>5, <1>7, <2>1 DEF Inv4, Types4, SlotTypes
<1>10. Storing(SomeProducers)' /\ Getting' /\ Ends4'
  BY <1>1, <1>2, <1>3 DEF Inv4, Storing, Getting, Ends4
<1>11. Slots4'
  BY <1>1, <1>3, <1>4 DEF Inv4, Slots4, SlotsOut, GetsOut
<1>12. Items4'
  <2>1. pstored \in Nat /\ PutsOut \in Nat /\ ItemsOut \in Nat /\ nput \in Nat /\ nget \in Nat
    BY Facts4
  <2>2. nput < nitems => (pstored + 1) + (PutsOut - 1) + ItemsOut = nput - nget
    BY <2>1, Facts4
  <2> QED
    BY <1>1, <1>3, <1>4, <2>2 DEF Items4, PutsOut, ItemsOut
<1>13. Counts4'
  <2>1. /\ PutsOut \in Nat /\ nput \in Nat
        /\ Total(CountsOf(SomeProducers)) + PutsOut = nput
    BY Facts4 DEF Inv4, Counts4, PutsOut
  <2>2. (Total(CountsOf(SomeProducers)) + 1) + (PutsOut - 1) = nput
    BY <1>7, <2>1
  <2>3. Total(CountsOf(Consumers)) + GetsOut = nget
    BY DEF Inv4, Counts4, GetsOut
  <2>4. Total(CountsOf(SomeProducers))' + PutsOut' = nput'
    BY <1>1, <1>4, <1>7, <2>2
  <2>5. Total(CountsOf(Consumers))' + GetsOut' = nget'
    BY <1>1, <1>3, <1>8, <2>3
  <2> QED
    BY <1>7, <1>8, <2>4, <2>5 DEF Counts4, PutsOut, GetsOut
<1>14. SlotsHold(nget)'
  BY <1>1 DEF Inv4, SlotsHold
<1> QED
  BY <1>5, <1>9, <1>10, <1>11, <1>12, <1>13, <1>14 DEF Inv4

LEMMA GetStep4 ==
  ASSUME Inv4, NEW c \in Consumers, P4!Get(c)
  PROVE  Inv4'
<1>0. /\ nput \in 0..nitems /\ nitems \in Nat /\ nget \in 0..nput /\ ngetval = nget
      /\ seen \in [Consumers -> Nat]
  BY Facts4, ConstantFacts
<1>1. /\ pc[c] = "get" /\ pc' = [pc EXCEPT ![c] = "post_mutex"]
      /\ nget' = nget + 1 /\ ngetval' = nget + 1 /\ taken' = seen[c]
      /\ UNCHANGED <<pmutex, pempty, pstored, pbuff, nput, nputval, seen, count>>
  BY <1>0 DEF P4!Get, P4!Goto, P4!sems
<1>2. "post_mutex" \in Consuming4 /\ "post_mutex" \notin Last4
  BY DEF Consuming4, Last4
<1>3. /\ pc' \in [P4!Threads -> Producing4 \cup Consuming4]
      /\ pc'[c] = "post_mutex" /\ c \in P4!Threads
      /\ \A u \in Consumers \ {c} : pc'[u] = pc[u]
      /\ \A u \in Consumers : pc'[u] \in Consuming4
      /\ \A u \in SomeProducers : pc'[u] = pc[u]
      /\ ItemsOut' = ItemsOut + In("post_mutex", HasItem4) - In(pc[c], HasItem4)
      /\ GetsOut' = GetsOut + In("post_mutex", HasPut) - In(pc[c], HasPut)
      /\ SlotsOut' = SlotsOut /\ PutsOut' = PutsOut
  BY <1>1, <1>2, ConsumerMoves4
<1>4. ItemsOut' = ItemsOut - 1 /\ GetsOut' = GetsOut + 1
  BY <1>1, <1>3, Facts4 DEF In, HasItem4, HasPut
<1>5. OneInside(P4!Threads, Inside4)' /\ pmutex' \in {0, 1}
  <2>1. MutexStep(c, "post_mutex", Inside4)
    BY <1>1 DEF MutexStep, Inside4
  <2> QED
    BY <1>1, <1>3, <2>1, Facts4, InsideMoves DEF Inv4
<1>6. nget < nput
  BY <1>1 DEF Inv4, Getting
<1>7. nget' \in 0..nput' /\ taken' \in Nat \cup {-1}
  BY <1>0, <1>1, <1>6
<1>8. Types4'
  BY <1>0, <1>1, <1>3, <1>5, <1>7 DEF Inv4, Types4, SlotTypes
<1>9. Storing(SomeProducers)'
  BY <1>1, <1>3 DEF Inv4, Storing
<1>10. Getting'
  <2>1. \A d \in Consumers \ {c} : pc[d] \notin {"fetch", "get"}
    BY <1>1 DEF Inv4, OneInside, Inside4, P4!Threads
  <2> QED
    BY <1>3, <2>1 DEF Getting
<1>11. Ends4'
  BY <1>0, <1>1, <1>2, <1>3 DEF Inv4, Ends4
<1>12. Slots4'
  <2>1. /\ pempty \in Nat /\ SlotsOut \in Nat /\ GetsOut \in Nat
        /\ pempty + SlotsOut + (nput - nget) + GetsOut = NBUFF
    BY Facts4
  <2>2. pempty + SlotsOut + (nput - (nget + 1)) + (GetsOut + 1) = NBUFF
    BY <1>0, <2>1
  <2> QED
    BY <1>1, <1>3, <1>4, <2>2 DEF Slots4, SlotsOut, GetsOut
<1>13. Items4'
  <2>1. /\ pstored \in Nat /\ PutsOut \in Nat /\ ItemsOut \in Nat
        /\ nput < nitems => pstored + PutsOut + ItemsOut = nput - nget
    BY Facts4
  <2>2. nput < nitems => pstored + PutsOut + (ItemsOut - 1) = nput - (nget + 1)
    BY <1>0, <2>1
  <2> QED
    BY <1>1, <1>3, <1>4, <2>2 DEF Items4, PutsOut, ItemsOut
<1>14. Counts4'
  <2>1. /\ Total(CountsOf(Consumers)) \in Nat /\ GetsOut \in Nat
        /\ Total(CountsOf(Consumers)) + GetsOut = nget
    BY Facts4, FS_CardinalityType DEF Inv4, Counts4, Total, GetsOut
  <2>2. Total(CountsOf(Consumers)) + (GetsOut + 1) = nget + 1
    BY <1>0, <2>1
  <2> QED
    BY <1>1, <1>3, <1>4, <2>2 DEF Inv4, Counts4, CountsOf, PutsOut, GetsOut
<1>15. SlotsHold(nget)'
  BY <1>0, <1>1, <1>6 DEF Inv4, SlotsHold
<1> QED
  BY <1>5, <1>8, <1>9, <1>10, <1>11, <1>12, <1>13, <1>14, <1>15 DEF Inv4

LEMMA EmptyStep4 ==
  ASSUME Inv4, NEW c \in Consumers, P4!PostEmpty(c)
  PROVE  Inv4'
<1>1. /\ pc[c] = "post" /\ pc' = [pc EXCEPT ![c] = "wait_nstored"]
      /\ pempty' = pempty + 1 /\ count' = [count EXCEPT ![c] = @ + 1]
      /\ UNCHANGED <<pmutex, pstored, pbuff, nput, nputval, nget, ngetval, seen, taken>>
  BY DEF P4!PostEmpty, P4!Goto, P4!SemPost, P4!shared
<1>2. "wait_nstored" \in Consuming4 /\ "wait_nstored" \notin Last4
  BY DEF Consuming4, Last4
<1>3. /\ pc' \in [P4!Threads -> Producing4 \cup Consuming4]
      /\ pc'[c] = "wait_nstored" /\ c \in P4!Threads
      /\ \A u \in Consumers \ {c} : pc'[u] = pc[u]
      /\ \A u \in Consumers : pc'[u] \in Consuming4
      /\ \A u \in SomeProducers : pc'[u] = pc[u]
      /\ ItemsOut' = ItemsOut + In("wait_nstored", HasItem4) - In(pc[c], HasItem4)
      /\ GetsOut' = GetsOut + In("wait_nstored", HasPut) - In(pc[c], HasPut)
      /\ SlotsOut' = SlotsOut /\ PutsOut' = PutsOut
  BY <1>1, <1>2, ConsumerMoves4
<1>4. ItemsOut' = ItemsOut /\ GetsOut' = GetsOut - 1
  BY <1>1, <1>3, Facts4, SMTT(30) DEF In, HasItem4, HasPut
<1>5. OneInside(P4!Threads, Inside4)' /\ pmutex' \in {0, 1}
  <2>1. MutexStep(c, "wait_nstored", Inside4)
    BY <1>1 DEF MutexStep, Inside4
  <2> QED
    BY <1>1, <1>3, <2>1, Facts4, InsideMoves DEF Inv4
<1>6. /\ SomeProducers \subseteq P4!Threads /\ Consumers \subseteq P4!Threads
      /\ c \notin SomeProducers
      /\ IsFiniteSet(Units(CountsOf(SomeProducers))) /\ IsFiniteSet(Units(CountsOf(Consumers)))
  BY ConstantFacts DEF Inv4, Counts4, P4!Threads
<1>7. /\ count' \in [P4!Threads -> Nat]
      /\ IsFiniteSet(Units(CountsOf(Consumers)))' /\ Total(CountsOf(Consumers)) \in Nat
      /\ Total(CountsOf(Consumers))' = Total(CountsOf(Consumers)) + 1
  BY <1>1, <1>3, <1>6, CountsMove
<1>8. /\ IsFiniteSet(Units(CountsOf(SomeProducers)))'
      /\ Total(CountsOf(SomeProducers))' = Total(CountsOf(SomeProducers))
  BY <1>1, <1>3, <1>6, CountsMove
<1>9. Types4'
  <2>1. pempty' \in Nat
    BY <1>1, Facts4, SMTT(30)
  <2> QED
    BY <1>1, <1>3, <1>5, <1>7, <2>1 DEF Inv4, Types4, SlotTypes
<1>10. Storing(SomeProducers)' /\ Getting' /\ Ends4'
  BY <1>1, <1>2, <1>3 DEF Inv4, Storing, Getting, Ends4
<1>11. Slots4'
  <2>1. /\ pempty \in Nat /\ SlotsOut \in Nat /\ GetsOut \in Nat /\ nput \in Nat /\ nget \in Nat
        /\ pempty + SlotsOut + (nput - nget) + GetsOut = NBUFF
    BY Facts4
  <2>2. (pempty + 1) + SlotsOut + (nput - nget) + (GetsOut - 1) = NBUFF
    BY <2>1
  <2> QED
    BY <1>1, <1>3, <1>4, <2>2 DEF Slots4, SlotsOut, GetsOut
<1>12. Items4'
  BY <1>1, <1>3, <1>4 DEF Inv4, Items4, PutsOut, ItemsOut
<1>13. Counts4'
  <2>1. /\ GetsOut \in Nat /\ nget \in Nat
        /\ Total(CountsOf(Consumers)) + GetsOut = nget
    BY Facts4 DEF Inv4, Counts4, GetsOut
  <2>2. (Total(CountsOf(Consumers)) + 1) + (GetsOut - 1) = nget
    BY <1>7, <2>1
  <2>3. Total(CountsOf(SomeProducers)) + PutsOut = nput
    BY DEF Inv4, Counts4, PutsOut
  <2>4. Total(CountsOf(Consumers))' + GetsOut' = nget'
    BY <1>1, <1>4, <1>7, <2>2
  <2>5. Total(CountsOf(SomeProducers))' + PutsOut' = nput'
    BY <1>1, <1>3, <1>8, <2>3
  <2> QED
    BY <1>7, <1>8, <2>4, <2>5 DEF Counts4, PutsOut, GetsOut
<1>14. SlotsHold(nget)'
  BY <1>1 DEF Inv4, SlotsHold
<1> QED
  BY <1>5, <1>9, <1>10, <1>11, <1>12, <1>13, <1>14 DEF Inv4

LEMMA Steps4 ==
  ASSUME Inv4, NEW t \in P4!Threads, P4!Step(t)
  PROVE  Inv4'
<1>1. CASE t \in SomeProducers
  <2>1. pc[t] \in Producing4 /\ t \notin Consumers
    BY <1>1, Facts4, ConstantFacts
  <2>2. ~ P4!WaitStored(t) /\ ~ P4!Fetch(t) /\ ~ P4!Get(t)
    BY <2>1 DEF P4!WaitStored, P4!Fetch, P4!Get, P4!Goto, Producing4, Last4
  <2>3. ~ P4!TestGet(t) /\ ~ P4!PostEmpty(t)
    BY <2>1 DEF P4!TestGet, P4!PostEmpty
  <2> QED
    BY <1>1, <2>2, <2>3, ProducerSteps4, StoreStep4, PutStep4, PostStep4 DEF P4!Step
<1>2. CASE t \in Consumers
  <2>1. pc[t] \in Consuming4 /\ t \notin SomeProducers
    BY <1>2, Facts4, ConstantFacts
  <2>2. ~ P4!WaitEmpty(t) /\ ~ P4!Store(t) /\ ~ P4!Put(t) /\ ~ P4!LastEmpty(t)
    BY <2>1 DEF P4!WaitEmpty, P4!Store, P4!Put, P4!LastEmpty, P4!Goto, Consuming4
  <2>3. ~ P4!TestPut(t) /\ ~ P4!PostStored(t)
    BY <2>1 DEF P4!TestPut, P4!PostStored
  <2> QED
    BY <1>2, <2>2, <2>3, ConsumerSteps4, GetStep4, EmptyStep4 DEF P4!Step
<1> QED
  BY <1>1, <1>2 DEF P4!Threads

LEMMA Properties4 ==
  ASSUME Inv4
  PROVE  P4!NeverPrintsError /\ P4!NeverOverruns /\ P4!CountsAddUp
<1>1. /\ nput \in 0..nitems /\ nget \in 0..nput /\ ngetval = nget /\ nitems \in Nat
      /\ NBUFF \in Nat /\ pempty \in Nat /\ SlotsOut \in Nat /\ GetsOut \in Nat
      /\ pempty + SlotsOut + (nput - nget) + GetsOut = NBUFF
  BY Facts4, ConstantFacts
<1>2. P4!NeverPrintsError
  BY <1>1 DEF P4!NeverPrintsError, Inv4, Getting
<1>3. P4!NeverOverruns
  <2>1. nput - nget \in 0..NBUFF
    BY <1>1
  <2>2. ASSUME NEW p \in SomeProducers, pc[p] = "store" PROVE nput - nget < NBUFF
    <3>1. nput < nget + NBUFF
      BY <2>2, RoomFor4 DEF HasSlot4
    <3> QED
      BY <1>1, <3>1
  <2> QED
    BY <2>1, <2>2 DEF P4!NeverOverruns
<1>4. P4!CountsAddUp
  <2> SUFFICES ASSUME P4!AllEnded
               PROVE  /\ P4!Total([p \in SomeProducers |-> count[p]]) = nitems
                      /\ P4!Total([c \in Consumers |-> count[c]]) = nitems
    BY DEF P4!CountsAddUp
  <2>1. /\ \A p \in SomeProducers : pc[p] = "end" /\ pc[p] \in Last4
        /\ \A c \in Consumers : pc[c] = "end" /\ pc[c] \in Last4
    BY DEF P4!AllEnded, P4!Threads, Last4
  <2>2. nput = nitems /\ nget = nitems
    BY <1>1, <2>1, ConstantFacts DEF Inv4, Ends4
  <2>3. PutsOut = 0
    BY <2>1, AtNone, ConstantFacts DEF PutsOut, HasPut
  <2>4. GetsOut = 0
    BY <2>1, AtNone, ConstantFacts DEF GetsOut, HasPut
  <2>5. /\ Total(CountsOf(SomeProducers)) \in Nat
        /\ Total(CountsOf(SomeProducers)) + PutsOut = nput
    BY FS_CardinalityType DEF Inv4, Counts4, Total, PutsOut
  <2>6. /\ Total(CountsOf(Consumers)) \in Nat
        /\ Total(CountsOf(Consumers)) + GetsOut = nget
    BY FS_CardinalityType DEF Inv4, Counts4, Total, GetsOut
  <2>7. Total(CountsOf(SomeProducers)) = nitems /\ Total(CountsOf(Consumers)) = nitems
    BY <2>2, <2>3, <2>4, <2>5, <2>6
  <2> QED
    BY <2>7, SameTotals DEF CountsOf
<1> QED
  BY <1>2, <1>3, <1>4
-----------------------------------------------------------------------------
(* mycat2 *)

\* There is one remainder.
LEMMA OneRemainder ==
  ASSUME NEW n \in Nat \ {0}, NEW q \in Int, NEW r \in 0..n-1, NEW a \in Nat, a = n * q + r
  PROVE  a % n = r
<1> DEFINE p == a \div n
<1>1. p \in Int /\ a % n \in 0..n-1 /\ a = n * p + (a % n)
  OBVIOUS
<1>2. n * (p - q) = r - (a % n)
  BY <1>1
<1>3. CASE p - q <= -1
  <2>1. n * (p - q) <= -n
    BY <1>1, <1>3
  <2> QED
    BY <1>1, <1>2, <2>1
<1>4. CASE p - q >= 1
  <2>1. n * (p - q) >= n
    BY <1>1, <1>4
  <2> QED
    BY <1>1, <1>2, <2>1
<1>5. CASE p = q
  <2>1. n * (p - q) = 0
    BY <1>1, <1>5
  <2> QED
    BY <1>1, <1>2, <2>1
<1> QED
  BY <1>1, <1>3, <1>4, <1>5

\* Going round the ring step by step.
LEMMA AddToSlot ==
  ASSUME NEW n \in Nat \ {0}, NEW a \in Nat, NEW b \in Nat
  PROVE  ((a % n) + b) % n = (a + b) % n
<1> DEFINE p == a \div n
           x == (a % n) + b
           q == x \div n
<1>1. p \in Int /\ a % n \in 0..n-1 /\ a = n * p + (a % n)
  OBVIOUS
<1>2. x \in Nat
  BY <1>1
<1>3. q \in Int /\ x % n \in 0..n-1 /\ x = n * q + (x % n)
  BY <1>2
<1>4. a + b = n * (p + q) + (x % n)
  <2>1. a + b = n * p + x
    BY <1>1
  <2>2. n * (p + q) = n * p + n * q
    BY <1>1, <1>3
  <2> HIDE DEF p, q, x
  <2> QED
    BY <1>1, <1>2, <1>3, <2>1, <2>2
<1>5. p + q \in Int /\ a + b \in Nat
  BY <1>1, <1>3
<1> HIDE DEF p, q, x
<1>6. (a + b) % n = x % n
  <2>1. \A m \in Int : \A r \in 0..n-1 : \A y \in Nat : y = n * m + r => y % n = r
    BY OneRemainder
  <2> QED
    BY <1>3, <1>4, <1>5, <2>1
<1> QED
  BY <1>6 DEF x

LEMMA SmallSlot ==
  ASSUME NEW n \in Nat \ {0}, NEW a \in 0..n-1
  PROVE  a % n = a
OBVIOUS

LEMMA CatInit == Cat!Init => CatInv
<1> SUFFICES ASSUME Cat!Init PROVE CatInv
  OBVIOUS
<1> USE ConstantFacts DEF Cat!Init, Cat!Threads, Cat!Eof, Cat!Failed
<1>1. /\ pc[producer] = "wait" /\ pc[consumer] = "wait"
      /\ count[producer] = 0 /\ count[consumer] = 0
  OBVIOUS
<1>2. CatTypes
  <2>1. /\ pbuff \in [0..NBUFF-1 -> Nat \cup {-1, -2}]
        /\ pc \in [Cat!Threads -> CatPlaces] /\ count \in [Cat!Threads -> 0..NBUFF-1]
    BY DEF CatPlaces
  <2> QED
    BY <1>1, <2>1 DEF CatTypes
<1>3. BuffersCount
  BY <1>1 DEF BuffersCount, ProdHasBuffer, ConsHasBuffer
<1>4. 0 % NBUFF = 0
  BY SmallSlot
<1>5. ChunksInOrder
  BY <1>1, <1>4 DEF ChunksInOrder, NotWritten
<1>6. OnlyFailures
  BY <1>1, <1>4 DEF OnlyFailures, ConsHasBuffer
<1> QED
  BY <1>2, <1>3, <1>5, <1>6 DEF CatInv

LEMMA CatFacts ==
  ASSUME CatInv
  PROVE  /\ pmutex \in Nat /\ pempty \in Nat /\ pstored \in Nat
         /\ pbuff \in [0..NBUFF-1 -> Nat \cup {-1, -2}]
         /\ nputval \in 0..nitems \cup {-2} /\ nput \in Nat /\ taken \in Nat \cup {-1}
         /\ taken + 1 \in Nat
         /\ pc \in [Cat!Threads -> CatPlaces] /\ pc[consumer] # "post_last"
         /\ count \in [Cat!Threads -> 0..NBUFF-1]
         /\ producer \in Cat!Threads /\ consumer \in Cat!Threads /\ producer # consumer
         /\ count[producer] \in 0..NBUFF-1 /\ count[consumer] \in 0..NBUFF-1
         /\ ProdHasBuffer \in 0..1 /\ ConsHasBuffer \in 0..1
         /\ pempty + pstored + ProdHasBuffer + ConsHasBuffer = NBUFF
         /\ NBUFF \in Nat \ {0} /\ nitems \in Nat /\ NotWritten \in Nat
         /\ NotWritten <= pstored + ConsHasBuffer
<1>1. producer \in Cat!Threads /\ consumer \in Cat!Threads /\ producer # consumer
  BY ConstantFacts DEF Cat!Threads
<1>2. CatTypes /\ BuffersCount
  BY DEF CatInv
<1>3. ProdHasBuffer \in 0..1 /\ ConsHasBuffer \in 0..1 /\ pstored \in Nat
  BY <1>2 DEF ProdHasBuffer, ConsHasBuffer, CatTypes
<1>4. NotWritten \in Nat /\ NotWritten <= pstored + ConsHasBuffer
  BY <1>3 DEF NotWritten, ConsHasBuffer
<1> QED
  BY <1>1, <1>2, <1>3, <1>4, ConstantFacts DEF CatTypes, BuffersCount, Cat!Eof, Cat!Failed

\* The promises of the two invariants about the file, in a case that can be read.
LEMMA ReadingFacts ==
  ASSUME CatInv, nputval # -2
  PROVE  /\ nput <= nputval /\ nputval \in 0..nitems
         /\ nput = taken + 1 + NotWritten + (IF pc[producer] = "post" THEN 1 ELSE 0)
                                          - (IF pc[producer] = "end" THEN 1 ELSE 0)
         /\ \A k \in taken + 1 .. nput - 1 : pbuff[k % NBUFF] = k
         /\ count[producer] = (IF pc[producer] = "post" THEN nput - 1 ELSE nput) % NBUFF
         /\ count[consumer] = (IF pc[consumer] = "post" THEN taken ELSE taken + 1) % NBUFF
         /\ pc[consumer] = "post" => taken >= 0
         /\ pc[producer] \in {"post_last", "end"} =>
              nput = nputval /\ pbuff[nput % NBUFF] = -1
         /\ pc[consumer] = "end" => pc[producer] = "end" /\ taken + 1 = nput
BY CatFacts DEF CatInv, ChunksInOrder, Cat!Eof, Cat!Failed

LEMMA FailingFacts ==
  ASSUME CatInv, nputval = -2
  PROVE  /\ taken = -1 /\ nput = 0
         /\ pc[producer] \notin {"post_last", "end"} /\ pc[consumer] # "end"
         /\ count[producer] = (count[consumer] + pstored + ConsHasBuffer) % NBUFF
         /\ \A k \in 0 .. pstored + ConsHasBuffer - 1 + (IF pc[producer] = "post" THEN 1 ELSE 0) :
              pbuff[(count[consumer] + k) % NBUFF] = -2
BY DEF CatInv, OnlyFailures, Cat!Failed

LEMMA CatMoves ==
  ASSUME CatInv, NEW t \in Cat!Threads, NEW to \in CatPlaces, pc' = [pc EXCEPT ![t] = to]
  PROVE  /\ pc' \in [Cat!Threads -> CatPlaces] /\ pc'[t] = to
         /\ t = producer => pc'[consumer] = pc[consumer]
         /\ t = consumer => pc'[producer] = pc[producer]
BY CatFacts

\* Steps of the producer outside its buffer.
LEMMA CatProducerGoes ==
  ASSUME CatInv, NEW to \in {"wait_mutex", "post_mutex", "use"}, pc' = [pc EXCEPT ![producer] = to],
         pc[producer] \in {"wait", "wait_mutex", "post_mutex"},
         UNCHANGED <<pbuff, nput, nputval, taken, count, pstored>>,
         pmutex' \in Nat, pempty' \in Nat, pempty' = pempty + ProdHasBuffer - 1
  PROVE  CatInv'
<1>1. /\ pc' \in [Cat!Threads -> CatPlaces] /\ pc'[producer] = to
      /\ pc'[consumer] = pc[consumer]
  <2>1. to \in CatPlaces /\ producer \in Cat!Threads
    BY CatFacts DEF CatPlaces
  <2> QED
    BY <2>1, CatMoves
<1>2. CatTypes'
  BY <1>1 DEF CatInv, CatTypes
<1>3. ProdHasBuffer' = 1 /\ ConsHasBuffer' = ConsHasBuffer /\ NotWritten' = NotWritten
  BY <1>1 DEF ProdHasBuffer, ConsHasBuffer, NotWritten
<1>4. BuffersCount'
  <2>1. pempty \in Nat /\ pstored \in Nat /\ ProdHasBuffer \in 0..1 /\ ConsHasBuffer \in 0..1
        /\ pempty + pstored + ProdHasBuffer + ConsHasBuffer = NBUFF /\ pstored' = pstored
    BY CatFacts
  <2>2. (pempty' + 1) + pstored + ConsHasBuffer = NBUFF
    BY <2>1
  <2>3. pempty' + pstored' + 1 + ConsHasBuffer = NBUFF
    BY <2>1, <2>2
  <2> QED
    BY <1>3, <2>3 DEF BuffersCount
<1>5. ChunksInOrder'
  BY <1>1, <1>3 DEF CatInv, ChunksInOrder
<1>6. OnlyFailures'
  BY <1>1, <1>3 DEF CatInv, OnlyFailures
<1> QED
  BY <1>2, <1>4, <1>5, <1>6 DEF CatInv

\* Steps of the consumer outside its buffer.
LEMMA CatConsumerGoes ==
  ASSUME CatInv, NEW to \in {"wait_mutex", "post_mutex", "use"}, pc' = [pc EXCEPT ![consumer] = to],
         pc[consumer] \in {"wait", "wait_mutex", "post_mutex"},
         UNCHANGED <<pbuff, nput, nputval, taken, count, pempty>>,
         pmutex' \in Nat, pstored' \in Nat, pstored' = pstored + ConsHasBuffer - 1
  PROVE  CatInv'
<1>1. /\ pc' \in [Cat!Threads -> CatPlaces] /\ pc'[consumer] = to
      /\ pc'[producer] = pc[producer]
  <2>1. to \in CatPlaces /\ consumer \in Cat!Threads
    BY CatFacts DEF CatPlaces
  <2> QED
    BY <2>1, CatMoves
<1>2. CatTypes'
  BY <1>1 DEF CatInv, CatTypes
<1>3. ProdHasBuffer' = ProdHasBuffer /\ ConsHasBuffer' = 1
  BY <1>1 DEF ProdHasBuffer, ConsHasBuffer
<1>4. NotWritten' = NotWritten
  BY <1>1, <1>3, CatFacts, SMTT(30) DEF NotWritten, ConsHasBuffer
<1>5. BuffersCount'
  <2>1. pempty \in Nat /\ pstored \in Nat /\ ProdHasBuffer \in 0..1 /\ ConsHasBuffer \in 0..1
        /\ pempty + pstored + ProdHasBuffer + ConsHasBuffer = NBUFF /\ pempty' = pempty
    BY CatFacts
  <2>2. pempty + (pstored' + 1) + ProdHasBuffer = NBUFF
    BY <2>1
  <2>3. pempty' + pstored' + ProdHasBuffer + 1 = NBUFF
    BY <2>1, <2>2
  <2> QED
    BY <1>3, <2>3 DEF BuffersCount
<1>6. ChunksInOrder'
  BY <1>1, <1>4 DEF CatInv, ChunksInOrder
<1>7. OnlyFailures'
  <2> SUFFICES ASSUME nputval = -2 PROVE OnlyFailures'
    BY DEF OnlyFailures, Cat!Failed
  <2>1. /\ pstored \in Nat /\ ConsHasBuffer \in 0..1 /\ count[consumer] \in Nat /\ ConsHasBuffer' = 1
    BY <1>3, CatFacts
  <2>2. count[consumer] + pstored' + 1 = count[consumer] + pstored + ConsHasBuffer
    BY <2>1
  <2>3. pstored' + 1 - 1 = pstored + ConsHasBuffer - 1
    BY <2>1
  <2> QED
    BY <1>1, <2>1, <2>2, <2>3, FailingFacts DEF OnlyFailures, Cat!Failed
<1> QED
  BY <1>2, <1>5, <1>6, <1>7 DEF CatInv

\* Filling a buffer leaves what is under way alone.
LEMMA FillSlot ==
  ASSUME CatInv, nputval # -2, pc[producer] \in {"use", "post_last"}, NEW v,
         pbuff' = [pbuff EXCEPT ![count[producer]] = v]
  PROVE  /\ count[producer] = nput % NBUFF
         /\ pbuff'[nput % NBUFF] = v
         /\ \A k \in taken + 1 .. nput - 1 : pbuff'[k % NBUFF] = k
<1>1. /\ pempty \in Nat /\ pstored \in Nat /\ ConsHasBuffer \in 0..1 /\ NotWritten \in Nat
      /\ NotWritten <= pstored + ConsHasBuffer /\ taken + 1 \in Nat /\ nput \in Nat
      /\ pempty + pstored + ProdHasBuffer + ConsHasBuffer = NBUFF /\ NBUFF \in Nat
      /\ pbuff \in [0..NBUFF-1 -> Nat \cup {-1, -2}]
  BY CatFacts
<1>2. /\ nput = taken + 1 + NotWritten /\ ProdHasBuffer = 1
      /\ count[producer] = nput % NBUFF
      /\ \A k \in taken + 1 .. nput - 1 : pbuff[k % NBUFF] = k
  BY <1>1, ReadingFacts DEF ProdHasBuffer
<1>3. nput < (taken + 1) + NBUFF
  BY <1>1, <1>2
<1>4. /\ nput % NBUFF \in 0..NBUFF-1
      /\ \A k \in taken + 1 .. nput - 1 : k % NBUFF \in 0..NBUFF-1 /\ k % NBUFF # nput % NBUFF
  BY <1>1, <1>3, FreeSlot
<1>5. \A x \in 0..NBUFF-1 : pbuff'[x] = IF x = nput % NBUFF THEN v ELSE pbuff[x]
  BY <1>1, <1>2
<1>6. \A k \in taken + 1 .. nput - 1 : pbuff'[k % NBUFF] = k
  BY <1>2, <1>4, <1>5, Zenon
<1> QED
  BY <1>2, <1>4, <1>5, <1>6

LEMMA ReadChunkStep ==
  ASSUME CatInv, Cat!ReadChunk
  PROVE  CatInv'
<1>0. /\ nput \in Nat /\ nputval \in 0..nitems \cup {-2} /\ nitems \in Nat
      /\ pbuff \in [0..NBUFF-1 -> Nat \cup {-1, -2}] /\ taken + 1 \in Nat /\ taken \in Int
      /\ NotWritten \in Nat
  BY CatFacts
<1>1. /\ pc[producer] = "use" /\ pc' = [pc EXCEPT ![producer] = "post"] /\ nput < nputval
      /\ pbuff' = [pbuff EXCEPT ![count[producer]] = nput] /\ nput' = nput + 1
      /\ UNCHANGED <<pmutex, pempty, pstored, nputval, count, taken>>
  BY DEF Cat!ReadChunk, Cat!Goto, Cat!Fill, Cat!sems
<1>2. nputval # -2
  BY <1>0, <1>1
<1>3. /\ pc' \in [Cat!Threads -> CatPlaces] /\ pc'[producer] = "post"
      /\ pc'[consumer] = pc[consumer]
  <2>1. "post" \in CatPlaces /\ producer \in Cat!Threads
    BY CatFacts DEF CatPlaces
  <2> QED
    BY <1>1, <2>1, CatMoves
<1>4. /\ count[producer] = nput % NBUFF /\ pbuff'[nput % NBUFF] = nput
      /\ \A k \in taken + 1 .. nput - 1 : pbuff'[k % NBUFF] = k
  BY <1>1, <1>2, FillSlot
<1>5. CatTypes'
  <2>1. pbuff' \in [0..NBUFF-1 -> Nat \cup {-1, -2}]
    BY <1>0, <1>1
  <2> QED
    BY <1>0, <1>1, <1>3, <2>1 DEF CatInv, CatTypes, Cat!Eof, Cat!Failed
<1>6. BuffersCount' /\ NotWritten' = NotWritten
  BY <1>1, <1>3 DEF CatInv, BuffersCount, ProdHasBuffer, ConsHasBuffer, NotWritten
<1>7. ChunksInOrder'
  <2>1. /\ nput = taken + 1 + NotWritten /\ nput <= nputval
        /\ count[consumer] = (IF pc[consumer] = "post" THEN taken ELSE taken + 1) % NBUFF
        /\ pc[consumer] = "post" => taken >= 0
        /\ pc[consumer] # "end"
    BY <1>0, <1>1, <1>2, ReadingFacts
  <2>2. /\ nput' <= nputval' /\ nput' = taken' + 1 + NotWritten' + 1 - 0 /\ nput' - 1 = nput
    BY <1>0, <1>1, <1>6, <2>1
  <2>3. \A k \in taken + 1 .. nput : pbuff'[k % NBUFF] = k
    BY <1>0, <1>4
  <2>4. \A k \in taken' + 1 .. nput' - 1 : pbuff'[k % NBUFF] = k
    BY <1>1, <2>2, <2>3
  <2> QED
    BY <1>1, <1>3, <1>4, <2>1, <2>2, <2>4 DEF ChunksInOrder
<1>8. OnlyFailures'
  BY <1>1, <1>2 DEF OnlyFailures, Cat!Failed
<1> QED
  BY <1>5, <1>6, <1>7, <1>8 DEF CatInv

LEMMA ReadEndStep ==
  ASSUME CatInv, Cat!ReadEnd
  PROVE  CatInv'
<1>0. /\ nput \in Nat /\ nputval \in 0..nitems \cup {-2} /\ nitems \in Nat
      /\ pbuff \in [0..NBUFF-1 -> Nat \cup {-1, -2}] /\ taken + 1 \in Nat /\ taken \in Int
      /\ NotWritten \in Nat
  BY CatFacts
<1>1. /\ pc[producer] = "use" /\ pc' = [pc EXCEPT ![producer] = "post_last"] /\ nput = nputval
      /\ pbuff' = [pbuff EXCEPT ![count[producer]] = -1]
      /\ UNCHANGED <<pmutex, pempty, pstored, nput, nputval, count, taken>>
  BY DEF Cat!ReadEnd, Cat!Goto, Cat!Fill, Cat!sems, Cat!Eof
<1>2. nputval # -2
  BY <1>0, <1>1
<1>3. /\ pc' \in [Cat!Threads -> CatPlaces] /\ pc'[producer] = "post_last"
      /\ pc'[consumer] = pc[consumer]
  <2>1. "post_last" \in CatPlaces /\ producer \in Cat!Threads
    BY CatFacts DEF CatPlaces
  <2> QED
    BY <1>1, <2>1, CatMoves
<1>4. /\ count[producer] = nput % NBUFF /\ pbuff'[nput % NBUFF] = -1
      /\ \A k \in taken + 1 .. nput - 1 : pbuff'[k % NBUFF] = k
  BY <1>1, <1>2, FillSlot
<1>5. CatTypes'
  <2>1. pbuff' \in [0..NBUFF-1 -> Nat \cup {-1, -2}]
    BY <1>0, <1>1
  <2> QED
    BY <1>0, <1>1, <1>3, <2>1 DEF CatInv, CatTypes, Cat!Eof, Cat!Failed
<1>6. BuffersCount' /\ NotWritten' = NotWritten
  BY <1>1, <1>3 DEF CatInv, BuffersCount, ProdHasBuffer, ConsHasBuffer, NotWritten
<1>7. ChunksInOrder'
  <2>1. /\ nput = taken + 1 + NotWritten /\ nput <= nputval
        /\ count[consumer] = (IF pc[consumer] = "post" THEN taken ELSE taken + 1) % NBUFF
        /\ pc[consumer] = "post" => taken >= 0
        /\ pc[consumer] # "end"
    BY <1>0, <1>1, <1>2, ReadingFacts
  <2>2. nput = taken + 1 + NotWritten + 0 - 0
    BY <1>0, <2>1
  <2> QED
    BY <1>1, <1>3, <1>4, <1>6, <2>1, <2>2 DEF ChunksInOrder, Cat!Eof
<1>8. OnlyFailures'
  BY <1>1, <1>2 DEF OnlyFailures, Cat!Failed
<1> QED
  BY <1>5, <1>6, <1>7, <1>8 DEF CatInv

LEMMA ReadFailsStep ==
  ASSUME CatInv, Cat!ReadFails
  PROVE  CatInv'
<1>0. /\ pbuff \in [0..NBUFF-1 -> Nat \cup {-1, -2}] /\ pstored \in Nat /\ ConsHasBuffer \in 0..1
      /\ count[consumer] \in 0..NBUFF-1 /\ NBUFF \in Nat \ {0} /\ pempty \in Nat
      /\ count[producer] \in 0..NBUFF-1
      /\ pempty + pstored + ProdHasBuffer + ConsHasBuffer = NBUFF
  BY CatFacts
<1>1. /\ pc[producer] = "use" /\ pc' = [pc EXCEPT ![producer] = "post"] /\ nputval = -2
      /\ pbuff' = [pbuff EXCEPT ![count[producer]] = -2]
      /\ UNCHANGED <<pmutex, pempty, pstored, nput, nputval, count, taken>>
  BY DEF Cat!ReadFails, Cat!Goto, Cat!Fill, Cat!sems, Cat!Failed
<1>2. /\ taken = -1 /\ nput = 0 /\ pc[consumer] # "end"
      /\ count[producer] = (count[consumer] + pstored + ConsHasBuffer) % NBUFF
      /\ \A k \in 0 .. pstored + ConsHasBuffer - 1 :
           pbuff[(count[consumer] + k) % NBUFF] = -2
  <2>1. /\ taken = -1 /\ nput = 0 /\ pc[consumer] # "end"
        /\ count[producer] = (count[consumer] + pstored + ConsHasBuffer) % NBUFF
        /\ \A k \in 0 .. pstored + ConsHasBuffer - 1 + 0 :
             pbuff[(count[consumer] + k) % NBUFF] = -2
    BY <1>1, FailingFacts
  <2> QED
    BY <1>0, <2>1
<1>3. /\ pc' \in [Cat!Threads -> CatPlaces] /\ pc'[producer] = "post"
      /\ pc'[consumer] = pc[consumer]
  <2>1. "post" \in CatPlaces /\ producer \in Cat!Threads
    BY CatFacts DEF CatPlaces
  <2> QED
    BY <1>1, <2>1, CatMoves
<1>4. CatTypes'
  <2>1. pbuff' \in [0..NBUFF-1 -> Nat \cup {-1, -2}]
    BY <1>0, <1>1
  <2> QED
    BY <1>1, <1>3, <2>1 DEF CatInv, CatTypes, Cat!Eof, Cat!Failed
<1>5. BuffersCount' /\ ConsHasBuffer' = ConsHasBuffer
  BY <1>1, <1>3 DEF CatInv, BuffersCount, ProdHasBuffer, ConsHasBuffer
<1>6. ChunksInOrder'
  BY <1>1 DEF ChunksInOrder, Cat!Failed
<1>7. OnlyFailures'
  <2>1. \A x \in 0..NBUFF-1 : pbuff'[x] = IF x = count[producer] THEN -2 ELSE pbuff[x]
    BY <1>0, <1>1
  <2>2. ASSUME NEW k \in 0 .. pstored + ConsHasBuffer
        PROVE  pbuff'[(count[consumer] + k) % NBUFF] = -2
    <3>1. (count[consumer] + k) % NBUFF \in 0..NBUFF-1
      <4>1. \A a \in Nat : a % NBUFF \in 0..NBUFF-1
        BY <1>0, SlotExists
      <4>2. count[consumer] + k \in Nat
        BY <1>0
      <4> QED
        BY <4>1, <4>2
    <3>2. CASE k = pstored + ConsHasBuffer
      <4>1. count[consumer] + k = count[consumer] + pstored + ConsHasBuffer
        BY <1>0, <3>2
      <4> QED
        BY <1>2, <2>1, <3>1, <4>1
    <3>3. CASE k \in 0 .. pstored + ConsHasBuffer - 1
      BY <1>2, <2>1, <3>1, <3>3
    <3> QED
      BY <1>0, <3>2, <3>3
  <2>3. pstored + ConsHasBuffer - 1 + 1 = pstored + ConsHasBuffer
    BY <1>0
  <2> QED
    BY <1>1, <1>2, <1>3, <1>5, <2>2, <2>3 DEF OnlyFailures, Cat!Failed
<1> QED
  BY <1>4, <1>5, <1>6, <1>7 DEF CatInv

LEMMA CatPostStep ==
  ASSUME CatInv, Cat!PostStored
  PROVE  CatInv'
<1>0. /\ pempty \in Nat /\ pstored \in Nat /\ ConsHasBuffer \in 0..1 /\ NBUFF \in Nat \ {0}
      /\ pempty + pstored + ProdHasBuffer + ConsHasBuffer = NBUFF
      /\ count \in [Cat!Threads -> 0..NBUFF-1] /\ producer \in Cat!Threads
      /\ consumer \in Cat!Threads /\ producer # consumer
      /\ count[producer] \in 0..NBUFF-1 /\ count[consumer] \in 0..NBUFF-1
      /\ nput \in Nat /\ taken + 1 \in Nat /\ taken \in Int /\ NotWritten \in Nat
  BY CatFacts
<1>1. /\ pc[producer] = "post" /\ pc' = [pc EXCEPT ![producer] = "wait"]
      /\ count' = [count EXCEPT ![producer] = (count[producer] + 1) % NBUFF]
      /\ pstored' = pstored + 1
      /\ UNCHANGED <<pmutex, pempty, pbuff, nput, nputval, taken>>
  BY DEF Cat!PostStored, Cat!Goto, Cat!NextBuffer, Cat!SemPost
<1>2. /\ pc' \in [Cat!Threads -> CatPlaces] /\ pc'[producer] = "wait"
      /\ pc'[consumer] = pc[consumer]
  <2>1. "wait" \in CatPlaces
    BY DEF CatPlaces
  <2> QED
    BY <1>0, <1>1, <2>1, CatMoves
<1>3. /\ count' \in [Cat!Threads -> 0..NBUFF-1] /\ count'[consumer] = count[consumer]
      /\ count'[producer] = (count[producer] + 1) % NBUFF
  <2>1. (count[producer] + 1) % NBUFF \in 0..NBUFF-1
    BY <1>0, SlotExists
  <2> QED
    BY <1>0, <1>1, <2>1
<1>4. CatTypes'
  <2>1. pstored' \in Nat
    BY <1>0, <1>1
  <2> QED
    BY <1>1, <1>2, <1>3, <2>1 DEF CatInv, CatTypes
<1>5. /\ ProdHasBuffer = 1 /\ ProdHasBuffer' = 0 /\ ConsHasBuffer' = ConsHasBuffer
      /\ NotWritten' = NotWritten + 1
  BY <1>0, <1>1, <1>2 DEF ProdHasBuffer, ConsHasBuffer, NotWritten
<1>6. BuffersCount'
  <2>1. pempty + (pstored + 1) + 0 + ConsHasBuffer = NBUFF
    BY <1>0, <1>5
  <2> QED
    BY <1>1, <1>5, <2>1 DEF BuffersCount
<1>7. ChunksInOrder'
  <2> SUFFICES ASSUME nputval # -2 PROVE ChunksInOrder'
    BY <1>1 DEF ChunksInOrder, Cat!Failed
  <2>1. /\ nput <= nputval /\ nput = taken + 1 + NotWritten + 1 - 0
        /\ \A k \in taken + 1 .. nput - 1 : pbuff[k % NBUFF] = k
        /\ count[producer] = (nput - 1) % NBUFF
        /\ count[consumer] = (IF pc[consumer] = "post" THEN taken ELSE taken + 1) % NBUFF
        /\ pc[consumer] = "post" => taken >= 0
        /\ pc[consumer] # "end"
    BY <1>1, ReadingFacts
  <2>2. nput - 1 \in Nat /\ nput = taken + 1 + (NotWritten + 1) + 0 - 0
    BY <1>0, <2>1
  <2>3. (((nput - 1) % NBUFF) + 1) % NBUFF = ((nput - 1) + 1) % NBUFF
    <3>1. \A a \in Nat : ((a % NBUFF) + 1) % NBUFF = (a + 1) % NBUFF
      BY <1>0, AddToSlot
    <3> QED
      BY <2>2, <3>1
  <2>4. (nput - 1) + 1 = nput
    BY <1>0
  <2>5. count'[producer] = nput % NBUFF
    BY <1>3, <2>1, <2>3, <2>4
  <2> QED
    BY <1>1, <1>2, <1>3, <1>5, <2>1, <2>2, <2>5 DEF ChunksInOrder
<1>8. OnlyFailures'
  <2> SUFFICES ASSUME nputval = -2 PROVE OnlyFailures'
    BY <1>1 DEF OnlyFailures, Cat!Failed
  <2>1. /\ taken = -1 /\ nput = 0 /\ pc[consumer] # "end"
        /\ count[producer] = (count[consumer] + pstored + ConsHasBuffer) % NBUFF
        /\ \A k \in 0 .. pstored + ConsHasBuffer - 1 + 1 :
             pbuff[(count[consumer] + k) % NBUFF] = -2
    BY <1>1, FailingFacts
  <2>2. /\ pstored + 1 + ConsHasBuffer - 1 + 0 = pstored + ConsHasBuffer - 1 + 1
        /\ count[consumer] + pstored + ConsHasBuffer \in Nat
        /\ (count[consumer] + pstored + ConsHasBuffer) + 1
             = count[consumer] + (pstored + 1) + ConsHasBuffer
    BY <1>0
  <2>3. (((count[consumer] + pstored + ConsHasBuffer) % NBUFF) + 1) % NBUFF
          = ((count[consumer] + pstored + ConsHasBuffer) + 1) % NBUFF
    <3>1. \A a \in Nat : ((a % NBUFF) + 1) % NBUFF = (a + 1) % NBUFF
      BY <1>0, AddToSlot
    <3> QED
      BY <2>2, <3>1
  <2>4. count'[producer] = (count'[consumer] + pstored' + ConsHasBuffer') % NBUFF
    BY <1>1, <1>3, <1>5, <2>1, <2>2, <2>3
  <2> QED
    BY <1>1, <1>2, <1>3, <1>5, <2>1, <2>2, <2>4 DEF OnlyFailures, Cat!Failed
<1> QED
  BY <1>4, <1>6, <1>7, <1>8 DEF CatInv

LEMMA CatLastStep ==
  ASSUME CatInv, Cat!LastStored
  PROVE  CatInv'
<1>0. /\ pempty \in Nat /\ pstored \in Nat /\ ConsHasBuffer \in 0..1 /\ NBUFF \in Nat \ {0}
      /\ pempty + pstored + ProdHasBuffer + ConsHasBuffer = NBUFF
      /\ nput \in Nat /\ taken + 1 \in Nat /\ taken \in Int /\ NotWritten \in Nat
  BY CatFacts
<1>1. /\ pc[producer] = "post_last" /\ pc' = [pc EXCEPT ![producer] = "end"]
      /\ pstored' = pstored + 1
      /\ UNCHANGED <<pmutex, pempty, pbuff, nput, nputval, count, taken>>
  BY DEF Cat!LastStored, Cat!Goto, Cat!SemPost
<1>2. /\ pc' \in [Cat!Threads -> CatPlaces] /\ pc'[producer] = "end"
      /\ pc'[consumer] = pc[consumer]
  <2>1. "end" \in CatPlaces /\ producer \in Cat!Threads
    BY CatFacts DEF CatPlaces
  <2> QED
    BY <1>1, <2>1, CatMoves
<1>3. nputval # -2
  BY <1>1, FailingFacts
<1>4. CatTypes'
  <2>1. pstored' \in Nat
    BY <1>0, <1>1
  <2> QED
    BY <1>1, <1>2, <2>1 DEF CatInv, CatTypes
<1>5. /\ ProdHasBuffer = 1 /\ ProdHasBuffer' = 0 /\ ConsHasBuffer' = ConsHasBuffer
      /\ NotWritten' = NotWritten + 1
  BY <1>0, <1>1, <1>2 DEF ProdHasBuffer, ConsHasBuffer, NotWritten
<1>6. BuffersCount'
  <2>1. pempty + (pstored + 1) + 0 + ConsHasBuffer = NBUFF
    BY <1>0, <1>5
  <2> QED
    BY <1>1, <1>5, <2>1 DEF BuffersCount
<1>7. ChunksInOrder'
  <2>1. /\ nput <= nputval /\ nput = taken + 1 + NotWritten + 0 - 0
        /\ \A k \in taken + 1 .. nput - 1 : pbuff[k % NBUFF] = k
        /\ count[producer] = nput % NBUFF
        /\ count[consumer] = (IF pc[consumer] = "post" THEN taken ELSE taken + 1) % NBUFF
        /\ pc[consumer] = "post" => taken >= 0
        /\ pc[consumer] # "end"
        /\ nput = nputval /\ pbuff[nput % NBUFF] = -1
    BY <1>1, <1>3, ReadingFacts
  <2>2. nput = taken + 1 + (NotWritten + 1) + 0 - 1
    BY <1>0, <2>1
  <2> QED
    BY <1>1, <1>2, <1>5, <2>1, <2>2 DEF ChunksInOrder, Cat!Eof
<1>8. OnlyFailures'
  BY <1>1, <1>3 DEF OnlyFailures, Cat!Failed
<1> QED
  BY <1>4, <1>6, <1>7, <1>8 DEF CatInv

\* What the consumer finds in its buffer.
LEMMA BufferFound ==
  ASSUME CatInv, pc[consumer] = "use"
  PROVE  /\ nputval = -2 => pbuff[count[consumer]] = -2
         /\ nputval # -2 => /\ count[consumer] = (taken + 1) % NBUFF
                            /\ \/ /\ taken + 1 < nput /\ pbuff[count[consumer]] = taken + 1
                               \/ /\ taken + 1 = nput /\ pc[producer] = "end" /\ nput = nputval
                                  /\ pbuff[count[consumer]] = -1
<1>0. /\ pstored \in Nat /\ NBUFF \in Nat \ {0} /\ count[consumer] \in 0..NBUFF-1
      /\ nput \in Nat /\ taken + 1 \in Nat /\ taken \in Int
  BY CatFacts
<1>1. ConsHasBuffer = 1 /\ NotWritten = pstored + 1
  BY DEF ConsHasBuffer, NotWritten
<1>2. ASSUME nputval = -2 PROVE pbuff[count[consumer]] = -2
  <2>1. 0 \in 0 .. pstored + ConsHasBuffer - 1 + (IF pc[producer] = "post" THEN 1 ELSE 0)
    BY <1>0, <1>1
  <2>2. pbuff[(count[consumer] + 0) % NBUFF] = -2
    BY <1>2, <2>1, FailingFacts
  <2>3. (count[consumer] + 0) % NBUFF = count[consumer]
    BY <1>0, SmallSlot
  <2> QED
    BY <2>2, <2>3
<1>3. ASSUME nputval # -2
      PROVE  /\ count[consumer] = (taken + 1) % NBUFF
             /\ \/ /\ taken + 1 < nput /\ pbuff[count[consumer]] = taken + 1
                \/ /\ taken + 1 = nput /\ pc[producer] = "end" /\ nput = nputval
                   /\ pbuff[count[consumer]] = -1
  <2>1. /\ nput = taken + 1 + NotWritten + (IF pc[producer] = "post" THEN 1 ELSE 0)
                                         - (IF pc[producer] = "end" THEN 1 ELSE 0)
        /\ \A k \in taken + 1 .. nput - 1 : pbuff[k % NBUFF] = k
        /\ count[consumer] = (taken + 1) % NBUFF
        /\ pc[producer] = "end" => nput = nputval /\ pbuff[nput % NBUFF] = -1
    BY <1>3, ReadingFacts
  <2>2. CASE taken + 1 < nput
    <3>1. taken + 1 \in taken + 1 .. nput - 1
      BY <1>0, <2>2
    <3> QED
      BY <2>1, <2>2, <3>1
  <2>3. CASE ~(taken + 1 < nput)
    <3>1. taken + 1 = nput /\ pc[producer] = "end"
      BY <1>0, <1>1, <2>1, <2>3
    <3> QED
      BY <2>1, <3>1
  <2> QED
    BY <2>2, <2>3
<1> QED
  BY <1>2, <1>3

LEMMA CatReturnStep ==
  ASSUME CatInv, Cat!ConsumerReturns
  PROVE  CatInv'
<1>1. /\ pc[consumer] = "use" /\ pc' = [pc EXCEPT ![consumer] = "end"]
      /\ pbuff[count[consumer]] = -1
      /\ UNCHANGED <<pmutex, pempty, pstored, pbuff, nput, nputval, count, taken>>
  BY DEF Cat!ConsumerReturns, Cat!Goto, Cat!sems, Cat!Eof
<1>2. /\ pc' \in [Cat!Threads -> CatPlaces] /\ pc'[consumer] = "end"
      /\ pc'[producer] = pc[producer]
  <2>1. "end" \in CatPlaces /\ consumer \in Cat!Threads
    BY CatFacts DEF CatPlaces
  <2> QED
    BY <1>1, <2>1, CatMoves
<1>3. nputval # -2 /\ taken + 1 = nput /\ pc[producer] = "end"
  <2>1. taken + 1 # -1
    BY CatFacts
  <2> QED
    BY <1>1, <2>1, BufferFound
<1>4. CatTypes'
  BY <1>1, <1>2 DEF CatInv, CatTypes
<1>5. /\ ProdHasBuffer' = ProdHasBuffer /\ ConsHasBuffer' = ConsHasBuffer
      /\ NotWritten' = NotWritten
  BY <1>1, <1>2 DEF ProdHasBuffer, ConsHasBuffer, NotWritten
<1>6. BuffersCount'
  BY <1>1, <1>5 DEF CatInv, BuffersCount
<1>7. ChunksInOrder'
  BY <1>1, <1>2, <1>3, <1>5 DEF CatInv, ChunksInOrder
<1>8. OnlyFailures'
  BY <1>1, <1>3 DEF OnlyFailures, Cat!Failed
<1> QED
  BY <1>4, <1>6, <1>7, <1>8 DEF CatInv

LEMMA WriteStep ==
  ASSUME CatInv, Cat!Write
  PROVE  CatInv'
<1>0. /\ pstored \in Nat /\ nput \in Nat /\ taken + 1 \in Nat /\ taken \in Nat \cup {-1}
      /\ NotWritten \in Nat
  BY CatFacts
<1>1. /\ pc[consumer] = "use" /\ pc' = [pc EXCEPT ![consumer] = "post"]
      /\ pbuff[count[consumer]] # -1
      /\ taken' = IF pbuff[count[consumer]] = -2 THEN taken ELSE pbuff[count[consumer]]
      /\ UNCHANGED <<pmutex, pempty, pstored, pbuff, nput, nputval, count>>
  BY DEF Cat!Write, Cat!Goto, Cat!sems, Cat!Eof, Cat!Failed
<1>2. /\ pc' \in [Cat!Threads -> CatPlaces] /\ pc'[consumer] = "post"
      /\ pc'[producer] = pc[producer]
  <2>1. "post" \in CatPlaces /\ consumer \in Cat!Threads
    BY CatFacts DEF CatPlaces
  <2> QED
    BY <1>1, <2>1, CatMoves
<1>3. /\ nputval = -2 => taken' = taken
      /\ nputval # -2 => /\ count[consumer] = (taken + 1) % NBUFF
                         /\ taken + 1 < nput /\ taken' = taken + 1
  <2>1. taken + 1 # -2 /\ -2 # -1
    BY <1>0
  <2> QED
    BY <1>1, <2>1, BufferFound
<1>4. CatTypes'
  <2>1. taken' \in Nat \cup {-1}
    BY <1>0, <1>3
  <2> QED
    BY <1>1, <1>2, <2>1 DEF CatInv, CatTypes
<1>5. /\ ProdHasBuffer' = ProdHasBuffer /\ ConsHasBuffer' = ConsHasBuffer
      /\ NotWritten' = NotWritten - 1
  BY <1>0, <1>1, <1>2 DEF ProdHasBuffer, ConsHasBuffer, NotWritten
<1>6. BuffersCount'
  BY <1>1, <1>5 DEF CatInv, BuffersCount
<1>7. ChunksInOrder'
  <2> SUFFICES ASSUME nputval # -2 PROVE ChunksInOrder'
    BY <1>1 DEF ChunksInOrder, Cat!Failed
  <2>1. /\ nput <= nputval
        /\ nput = taken + 1 + NotWritten + (IF pc[producer] = "post" THEN 1 ELSE 0)
                                         - (IF pc[producer] = "end" THEN 1 ELSE 0)
        /\ \A k \in taken + 1 .. nput - 1 : pbuff[k % NBUFF] = k
        /\ count[producer] = (IF pc[producer] = "post" THEN nput - 1 ELSE nput) % NBUFF
        /\ pc[producer] \in {"post_last", "end"} => nput = nputval /\ pbuff[nput % NBUFF] = -1
    BY ReadingFacts
  <2>2. nput = (taken + 1) + 1 + (NotWritten - 1) + (IF pc[producer] = "post" THEN 1 ELSE 0)
                                                 - (IF pc[producer] = "end" THEN 1 ELSE 0)
    BY <1>0, <2>1
  <2>3. /\ \A k \in (taken + 1) + 1 .. nput - 1 : pbuff[k % NBUFF] = k
        /\ taken + 1 >= 0
    BY <1>0, <2>1
  <2> QED
    BY <1>1, <1>2, <1>3, <1>5, <2>1, <2>2, <2>3 DEF ChunksInOrder, Cat!Eof
<1>8. OnlyFailures'
  BY <1>1, <1>2, <1>3, <1>5 DEF CatInv, OnlyFailures, Cat!Failed
<1> QED
  BY <1>4, <1>6, <1>7, <1>8 DEF CatInv

LEMMA CatEmptyStep ==
  ASSUME CatInv, Cat!PostEmpty
  PROVE  CatInv'
<1>0. /\ pempty \in Nat /\ pstored \in Nat /\ ProdHasBuffer \in 0..1 /\ NBUFF \in Nat \ {0}
      /\ pempty + pstored + ProdHasBuffer + ConsHasBuffer = NBUFF
      /\ count \in [Cat!Threads -> 0..NBUFF-1] /\ producer \in Cat!Threads
      /\ consumer \in Cat!Threads /\ producer # consumer
      /\ count[producer] \in 0..NBUFF-1 /\ count[consumer] \in 0..NBUFF-1
      /\ nput \in Nat /\ taken + 1 \in Nat /\ taken \in Int /\ NotWritten \in Nat
  BY CatFacts
<1>1. /\ pc[consumer] = "post" /\ pc' = [pc EXCEPT ![consumer] = "wait"]
      /\ count' = [count EXCEPT ![consumer] = (count[consumer] + 1) % NBUFF]
      /\ pempty' = pempty + 1
      /\ UNCHANGED <<pmutex, pstored, pbuff, nput, nputval, taken>>
  BY DEF Cat!PostEmpty, Cat!Goto, Cat!NextBuffer, Cat!SemPost
<1>2. /\ pc' \in [Cat!Threads -> CatPlaces] /\ pc'[consumer] = "wait"
      /\ pc'[producer] = pc[producer]
  <2>1. "wait" \in CatPlaces
    BY DEF CatPlaces
  <2> QED
    BY <1>0, <1>1, <2>1, CatMoves
<1>3. /\ count' \in [Cat!Threads -> 0..NBUFF-1] /\ count'[producer] = count[producer]
      /\ count'[consumer] = (count[consumer] + 1) % NBUFF
      /\ count'[consumer] \in 0..NBUFF-1
  <2>1. (count[consumer] + 1) % NBUFF \in 0..NBUFF-1
    BY <1>0, SlotExists
  <2> QED
    BY <1>0, <1>1, <2>1
<1>4. CatTypes'
  <2>1. pempty' \in Nat
    BY <1>0, <1>1
  <2> QED
    BY <1>1, <1>2, <1>3, <2>1 DEF CatInv, CatTypes
<1>5. /\ ProdHasBuffer' = ProdHasBuffer /\ ConsHasBuffer = 1 /\ ConsHasBuffer' = 0
      /\ NotWritten' = NotWritten
  BY <1>1, <1>2 DEF ProdHasBuffer, ConsHasBuffer, NotWritten
<1>6. BuffersCount'
  <2>1. (pempty + 1) + pstored + ProdHasBuffer + 0 = NBUFF
    BY <1>0, <1>5
  <2> QED
    BY <1>1, <1>5, <2>1 DEF BuffersCount
<1>7. ChunksInOrder'
  <2> SUFFICES ASSUME nputval # -2 PROVE ChunksInOrder'
    BY <1>1 DEF ChunksInOrder, Cat!Failed
  <2>1. count[consumer] = taken % NBUFF /\ taken \in Nat
    BY <1>0, <1>1, ReadingFacts
  <2>2. ((taken % NBUFF) + 1) % NBUFF = (taken + 1) % NBUFF
    BY <1>0, <2>1, AddToSlot
  <2>3. count'[consumer] = (taken + 1) % NBUFF
    BY <1>3, <2>1, <2>2
  <2> QED
    BY <1>1, <1>2, <1>3, <1>5, <2>3 DEF CatInv, ChunksInOrder
<1>8. OnlyFailures'
  <2> SUFFICES ASSUME nputval = -2 PROVE OnlyFailures'
    BY <1>1 DEF OnlyFailures, Cat!Failed
  <2>1. /\ taken = -1 /\ nput = 0 /\ pc[producer] \notin {"post_last", "end"}
        /\ count[producer] = (count[consumer] + pstored + ConsHasBuffer) % NBUFF
        /\ \A k \in 0 .. pstored + ConsHasBuffer - 1 + (IF pc[producer] = "post" THEN 1 ELSE 0) :
             pbuff[(count[consumer] + k) % NBUFF] = -2
    BY FailingFacts
  <2>2. \A b \in Nat : (((count[consumer] + 1) % NBUFF) + b) % NBUFF
                         = ((count[consumer] + 1) + b) % NBUFF
    <3>1. \A a, b \in Nat : ((a % NBUFF) + b) % NBUFF = (a + b) % NBUFF
      BY <1>0, AddToSlot
    <3>2. count[consumer] + 1 \in Nat
      BY <1>0
    <3> QED
      BY <3>1, <3>2
  <2>3. count'[producer] = (count'[consumer] + pstored' + ConsHasBuffer') % NBUFF
    <3>1. /\ count'[consumer] + pstored + 0 = ((count[consumer] + 1) % NBUFF) + pstored
          /\ (count[consumer] + 1) + pstored = count[consumer] + pstored + ConsHasBuffer
      BY <1>0, <1>3, <1>5
    <3> QED
      BY <1>0, <1>1, <1>3, <1>5, <2>1, <2>2, <3>1
  <2>4. ASSUME NEW k \in 0 .. pstored + 0 - 1 + (IF pc[producer] = "post" THEN 1 ELSE 0)
        PROVE  pbuff[(count'[consumer] + k) % NBUFF] = -2
    <3>1. /\ k \in Nat /\ (count[consumer] + 1) + k = count[consumer] + (k + 1)
          /\ k + 1 \in 0 .. pstored + ConsHasBuffer - 1 + (IF pc[producer] = "post" THEN 1 ELSE 0)
      BY <1>0, <1>5
    <3>2. (count'[consumer] + k) % NBUFF = (count[consumer] + (k + 1)) % NBUFF
      BY <1>3, <2>2, <3>1
    <3> QED
      BY <2>1, <3>1, <3>2
  <2> QED
    BY <1>1, <1>2, <1>5, <2>1, <2>3, <2>4 DEF OnlyFailures, Cat!Failed
<1> QED
  BY <1>4, <1>6, <1>7, <1>8 DEF CatInv

\* Steps between the two buffers.
LEMMA CatQuiet ==
  ASSUME CatInv, Cat!WaitEmpty \/ Cat!WaitStored
                   \/ \E t \in Cat!Threads : Cat!WaitMutex(t) \/ Cat!PostMutex(t)
  PROVE  CatInv'
<1>0. /\ pmutex \in Nat /\ pempty \in Nat /\ pstored \in Nat
      /\ Cat!Threads = {producer, consumer}
  BY CatFacts DEF Cat!Threads
<1>1. CASE Cat!WaitEmpty
  <2>1. /\ pc[producer] = "wait" /\ pc' = [pc EXCEPT ![producer] = "wait_mutex"]
        /\ pempty > 0 /\ pempty' = pempty - 1
        /\ UNCHANGED <<pmutex, pstored, pbuff, nput, nputval, count, taken>>
    BY <1>1 DEF Cat!WaitEmpty, Cat!Goto, Cat!SemWait
  <2>2. ProdHasBuffer = 0 /\ pmutex' \in Nat /\ pempty' \in Nat
    BY <1>0, <2>1 DEF ProdHasBuffer
  <2>3. pempty' = pempty + ProdHasBuffer - 1
    BY <1>0, <2>1, <2>2
  <2>4. UNCHANGED <<pbuff, nput, nputval, taken, count, pstored>>
    BY <2>1
  <2>5. "wait_mutex" \in {"wait_mutex", "post_mutex", "use"}
        /\ pc[producer] \in {"wait", "wait_mutex", "post_mutex"}
    BY <2>1
  <2> QED
    BY <2>1, <2>2, <2>3, <2>4, <2>5, CatProducerGoes
<1>2. CASE Cat!WaitStored
  <2>1. /\ pc[consumer] = "wait" /\ pc' = [pc EXCEPT ![consumer] = "wait_mutex"]
        /\ pstored > 0 /\ pstored' = pstored - 1
        /\ UNCHANGED <<pmutex, pempty, pbuff, nput, nputval, count, taken>>
    BY <1>2 DEF Cat!WaitStored, Cat!Goto, Cat!SemWait
  <2>2. ConsHasBuffer = 0 /\ pmutex' \in Nat /\ pstored' \in Nat
    BY <1>0, <2>1 DEF ConsHasBuffer
  <2>3. pstored' = pstored + ConsHasBuffer - 1
    BY <1>0, <2>1, <2>2
  <2>4. UNCHANGED <<pbuff, nput, nputval, taken, count, pempty>>
    BY <2>1
  <2>5. "wait_mutex" \in {"wait_mutex", "post_mutex", "use"}
        /\ pc[consumer] \in {"wait", "wait_mutex", "post_mutex"}
    BY <2>1
  <2> QED
    BY <2>1, <2>2, <2>3, <2>4, <2>5, CatConsumerGoes
<1>3. CASE \E t \in Cat!Threads : Cat!WaitMutex(t) \/ Cat!PostMutex(t)
  <2>1. PICK t \in Cat!Threads : Cat!WaitMutex(t) \/ Cat!PostMutex(t)
    BY <1>3
  <2>2. PICK to \in {"post_mutex", "use"} :
          /\ pc[t] \in {"wait_mutex", "post_mutex"} /\ pc' = [pc EXCEPT ![t] = to]
          /\ pmutex' \in Nat
          /\ UNCHANGED <<pempty, pstored, pbuff, nput, nputval, count, taken>>
    <3>1. CASE Cat!WaitMutex(t)
      BY <1>0, <3>1 DEF Cat!WaitMutex, Cat!Goto, Cat!SemWait
    <3>2. CASE Cat!PostMutex(t)
      BY <1>0, <3>2 DEF Cat!PostMutex, Cat!Goto, Cat!SemPost
    <3> QED
      BY <2>1, <3>1, <3>2
  <2>3. CASE t = producer
    <3>1. ProdHasBuffer = 1 /\ pempty' = pempty /\ pempty' \in Nat
      BY <1>0, <2>2, <2>3 DEF ProdHasBuffer
    <3>2. pempty' = pempty + ProdHasBuffer - 1
      BY <1>0, <3>1
    <3>3. UNCHANGED <<pbuff, nput, nputval, taken, count, pstored>>
      BY <2>2
    <3>4. /\ to \in {"wait_mutex", "post_mutex", "use"} /\ pc' = [pc EXCEPT ![producer] = to]
          /\ pc[producer] \in {"wait", "wait_mutex", "post_mutex"}
      BY <2>2, <2>3
    <3> QED
      BY <2>2, <3>1, <3>2, <3>3, <3>4, CatProducerGoes
  <2>4. CASE t = consumer
    <3>1. ConsHasBuffer = 1 /\ pstored' = pstored /\ pstored' \in Nat
      BY <1>0, <2>2, <2>4 DEF ConsHasBuffer
    <3>2. pstored' = pstored + ConsHasBuffer - 1
      BY <1>0, <3>1
    <3>3. UNCHANGED <<pbuff, nput, nputval, taken, count, pempty>>
      BY <2>2
    <3>4. /\ to \in {"wait_mutex", "post_mutex", "use"} /\ pc' = [pc EXCEPT ![consumer] = to]
          /\ pc[consumer] \in {"wait", "wait_mutex", "post_mutex"}
      BY <2>2, <2>4
    <3> QED
      BY <2>2, <3>1, <3>2, <3>3, <3>4, CatConsumerGoes
  <2> QED
    BY <1>0, <2>3, <2>4
<1> QED
  BY <1>1, <1>2, <1>3

LEMMA CatSteps ==
  ASSUME CatInv, NEW t, Cat!Step(t)
  PROVE  CatInv'
<1>1. producer \in Cat!Threads /\ consumer \in Cat!Threads
  BY CatFacts
<1>2. CASE Cat!Produce
  BY <1>1, <1>2, CatQuiet, ReadChunkStep, ReadEndStep, ReadFailsStep, CatPostStep, CatLastStep
     DEF Cat!Produce
<1>3. CASE Cat!Consume
  BY <1>1, <1>3, CatQuiet, CatReturnStep, WriteStep, CatEmptyStep DEF Cat!Consume
<1> QED
  BY <1>2, <1>3 DEF Cat!Step

\* Two buffers fewer than NBUFF apart are different ones, wherever the first is.
LEMMA ApartInRing ==
  ASSUME NEW n \in Nat \ {0}, NEW a \in 0..n-1, NEW d \in 1..n-1
  PROVE  (a + d) % n # a
<1>1. a \in Nat /\ a + d \in Nat /\ a < a + d /\ a + d < a + n
  OBVIOUS
<1>2. a % n = a
  BY SmallSlot
<1> QED
  BY <1>1, <1>2, DifferentSlots

LEMMA CatProperties == CatInv => Cat!CopiesInOrder /\ Cat!BuffersApart
<1> SUFFICES ASSUME CatInv PROVE Cat!CopiesInOrder /\ Cat!BuffersApart
  OBVIOUS
<1>0. /\ pempty \in Nat /\ pstored \in Nat /\ NBUFF \in Nat \ {0}
      /\ pempty + pstored + ProdHasBuffer + ConsHasBuffer = NBUFF
      /\ count[producer] \in 0..NBUFF-1 /\ count[consumer] \in 0..NBUFF-1
      /\ nput \in Nat /\ taken + 1 \in Nat /\ taken \in Nat \cup {-1}
      /\ nputval \in 0..nitems \cup {-2} /\ nitems \in Nat
  BY CatFacts
<1>1. ASSUME pc[consumer] = "use"
      PROVE  pbuff[count[consumer]] = IF nputval = -2 THEN -2
                                      ELSE IF taken + 1 = nputval THEN -1 ELSE taken + 1
  <2>1. CASE nputval = -2
    BY <1>1, <2>1, BufferFound
  <2>2. CASE ~(nputval = -2)
    <3>1. nput <= nputval
      BY <2>2, ReadingFacts
    <3>2. \/ taken + 1 < nput /\ pbuff[count[consumer]] = taken + 1
          \/ taken + 1 = nput /\ nput = nputval /\ pbuff[count[consumer]] = -1
      BY <1>1, <2>2, BufferFound
    <3>3. taken + 1 < nput => taken + 1 # nputval
      BY <1>0, <2>2, <3>1
    <3> QED
      BY <2>2, <3>2, <3>3
  <2> QED
    BY <2>1, <2>2
<1>2. ASSUME pc[consumer] = "end" PROVE nputval # -2 /\ taken + 1 = nputval
  <2>1. nputval # -2
    BY <1>2, FailingFacts
  <2> QED
    BY <1>2, <2>1, ReadingFacts
<1>3. ASSUME pc[producer] = "use", pc[consumer] = "use"
      PROVE  count[producer] # count[consumer]
  <2>1. ProdHasBuffer = 1 /\ ConsHasBuffer = 1 /\ NotWritten = pstored + 1
    BY <1>3 DEF ProdHasBuffer, ConsHasBuffer, NotWritten
  <2>2. pstored + 1 < NBUFF
    BY <1>0, <2>1
  <2>3. CASE nputval = -2
    <3>1. count[producer] = (count[consumer] + pstored + 1) % NBUFF
      BY <2>1, <2>3, FailingFacts
    <3>2. \A d \in 1..NBUFF-1 : (count[consumer] + d) % NBUFF # count[consumer]
      BY <1>0, ApartInRing
    <3>3. /\ pstored + 1 \in 1..NBUFF-1
          /\ count[consumer] + (pstored + 1) = count[consumer] + pstored + 1
      BY <1>0, <2>2
    <3> QED
      BY <3>1, <3>2, <3>3
  <2>4. CASE ~(nputval = -2)
    <3>1. /\ nput = taken + 1 + NotWritten + 0 - 0 /\ count[producer] = nput % NBUFF
          /\ count[consumer] = (taken + 1) % NBUFF
      BY <1>3, <2>4, ReadingFacts
    <3>2. taken + 1 < nput /\ nput < (taken + 1) + NBUFF
      BY <1>0, <2>1, <2>2, <3>1
    <3>3. \A a, b \in Nat : a < b /\ b < a + NBUFF => a % NBUFF # b % NBUFF
      BY <1>0, DifferentSlots
    <3> QED
      BY <1>0, <3>1, <3>2, <3>3
  <2> QED
    BY <2>3, <2>4
<1> QED
  BY <1>1, <1>2, <1>3 DEF Cat!CopiesInOrder, Cat!BuffersApart, Cat!Failed, Cat!Eof

\* No chunk is written before it has been read.
LEMMA NotAhead ==
  ASSUME CatInv, taken < nput, NEW t, Cat!Step(t)
  PROVE  taken' < nput'
<1>0. /\ nput \in Nat /\ taken \in Int /\ taken + 1 # -1 /\ taken + 1 # -2 /\ taken + 1 \in Nat
  BY CatFacts, SMTT(30)
<1>1. CASE Cat!Write
  <2>1. /\ pc[consumer] = "use" /\ pbuff[count[consumer]] # -1 /\ nput' = nput
        /\ taken' = IF pbuff[count[consumer]] = -2 THEN taken ELSE pbuff[count[consumer]]
    BY <1>1 DEF Cat!Write, Cat!Goto, Cat!Eof, Cat!Failed
  <2>2. taken' = taken \/ (taken + 1 < nput /\ taken' = taken + 1)
    BY <1>0, <2>1, BufferFound
  <2> QED
    BY <1>0, <2>1, <2>2
<1>2. CASE Cat!ReadChunk
  <2>1. nput' = nput + 1 /\ taken' = taken
    BY <1>2 DEF Cat!ReadChunk
  <2> QED
    BY <1>0, <2>1
<1>3. CASE ~ Cat!Write /\ ~ Cat!ReadChunk
  <2>1. nput' = nput /\ taken' = taken
    BY <1>3 DEF Cat!Step, Cat!Produce, Cat!Consume, Cat!WaitEmpty, Cat!WaitStored, Cat!WaitMutex,
       Cat!PostMutex, Cat!ReadEnd, Cat!ReadFails, Cat!PostStored, Cat!LastStored,
       Cat!ConsumerReturns, Cat!PostEmpty
  <2> QED
    BY <2>1
<1> QED
  BY <1>1, <1>2, <1>3

-----------------------------------------------------------------------------
(* prodcons2 *)

ProdInside == IF prod \in {"store", "post_mutex"} THEN 1 ELSE 0
ConsInside == IF cons \in {"fetch", "post_mutex"} THEN 1 ELSE 0

\* What each variable ranges over, without the bounds on the semaphores.
Shape2 ==
  /\ mutex \in Nat /\ nempty \in Nat /\ nstored \in Nat
  /\ buff \in [0..NBUFF-1 -> Nat]
  /\ prod \in {"loop", "wait_mutex", "store", "post_mutex", "post_nstored", "end"}
  /\ cons \in {"loop", "wait_mutex", "fetch", "post_mutex", "post_nempty", "end"}
  /\ iprod \in Nat /\ icons \in Nat
  /\ iprod <= nitems /\ (prod \notin {"loop", "end"} => iprod < nitems)
  /\ icons <= nitems /\ (cons \notin {"loop", "end"} => icons < nitems)
  /\ out \in Nat \cup {-1}

\* The mutex is taken by whoever is inside.
MutexCounts2 == mutex + ProdInside + ConsInside = 1

\* Every slot is empty, stored, or in the hands of one of the two threads.
SlotsCount2 == /\ nempty + nstored + ProdHasSlot + ConsHasItem = NBUFF
               /\ nstored + ConsHasItem = iprod - icons

Inv2 == Shape2 /\ MutexCounts2 /\ SlotsCount2 /\ FindsItsItem /\ NeverOverwrites

\* Storing into one slot leaves the others alone.
LEMMA OtherSlots ==
  ASSUME NEW f, NEW s, NEW v, NEW m \in DOMAIN f, m # s
  PROVE  [f EXCEPT ![s] = v][m] = f[m]
OBVIOUS

LEMMA Init2 == Init => Inv2
<1> SUFFICES ASSUME Init PROVE Inv2
  OBVIOUS
<1>1. Shape2
  BY BufferAssumption DEF Init, Shape2
<1>2. MutexCounts2 /\ SlotsCount2 /\ FindsItsItem
  BY BufferAssumption
  DEF Init, MutexCounts2, ProdInside, ConsInside, SlotsCount2, ProdHasSlot, ConsHasItem,
      FindsItsItem
<1>3. NeverOverwrites
  BY DEF Init, NeverOverwrites, Stored, Fetched
<1> QED
  BY <1>1, <1>2, <1>3 DEF Inv2

\* A step that leaves the buffer and what is stored and fetched alone.
LEMMA KeepBuffer ==
  ASSUME Inv2, UNCHANGED buff, Stored' = Stored, Fetched' = Fetched
  PROVE  NeverOverwrites'
BY DEF Inv2, NeverOverwrites

\* The semaphore calls and the return of the producer.
LEMMA ProducerSteps2 ==
  ASSUME Inv2,
         ProdWaitEmpty \/ ProdWaitMutex \/ ProdPostMutex \/ ProdPostStored \/ ProdReturn
  PROVE  Inv2'
<1> USE BufferAssumption DEF Inv2, Shape2, ProdWaitEmpty, ProdWaitMutex, ProdPostMutex,
        ProdPostStored, ProdReturn, SemWait, SemPost, sems, consume
<1>1. Shape2'
  BY SMTT(30)
<1>2. MutexCounts2'
  BY DEF MutexCounts2, ProdInside, ConsInside
<1>3. SlotsCount2'
  <2> USE DEF SlotsCount2, ProdHasSlot, ConsHasItem
  <2>1. CASE ProdWaitEmpty
    BY <2>1
  <2>2. CASE ProdWaitMutex
    BY <2>2
  <2>3. CASE ProdPostMutex
    BY <2>3
  <2>4. CASE ProdPostStored
    BY <2>4
  <2>5. CASE ProdReturn
    BY <2>5
  <2> QED
    BY <2>1, <2>2, <2>3, <2>4, <2>5
<1>4. FindsItsItem'
  BY DEF FindsItsItem
<1>5. Stored' = Stored /\ Fetched' = Fetched /\ UNCHANGED buff
  BY DEF Stored, Fetched
<1>6. NeverOverwrites'
  BY <1>5, KeepBuffer
<1> QED
  BY <1>1, <1>2, <1>3, <1>4, <1>6

LEMMA StoreStep2 ==
  ASSUME Inv2, ProdStore
  PROVE  Inv2'
<1> USE BufferAssumption DEF Inv2, Shape2, ProdStore, sems, consume
<1>1. iprod % NBUFF \in 0..NBUFF-1
  BY SlotExists
<1>2. Shape2'
  BY <1>1
<1>3. MutexCounts2' /\ SlotsCount2' /\ FindsItsItem'
  BY DEF MutexCounts2, ProdInside, ConsInside, SlotsCount2, ProdHasSlot, ConsHasItem,
         FindsItsItem
<1>4. Stored = iprod /\ Stored' = iprod + 1 /\ Fetched' = Fetched
  BY DEF Stored, Fetched
<1>5. Fetched \in Nat /\ iprod < Fetched + NBUFF
  BY DEF Fetched, SlotsCount2, ProdHasSlot, ConsHasItem
<1>6. NeverOverwrites'
  <2>1. /\ \A k \in Fetched .. iprod - 1 : buff[k % NBUFF] = k
        /\ buff' = [buff EXCEPT ![iprod % NBUFF] = iprod]
        /\ DOMAIN buff = 0..NBUFF-1
    BY <1>4 DEF NeverOverwrites
  <2> HIDE DEF Inv2, ProdStore
  <2>2. ASSUME NEW k \in Fetched .. iprod PROVE buff'[k % NBUFF] = k
    <3>1. k \in Nat /\ iprod \in Nat /\ k % NBUFF \in 0..NBUFF-1
      BY <1>5, SlotExists DEF Inv2
    <3>2. CASE k = iprod
      BY <1>1, <2>1, <3>2
    <3>3. CASE k < iprod
      <4>0. iprod < k + NBUFF /\ NBUFF \in Nat \ {0}
        BY <1>5, <3>1
      <4>1. k % NBUFF # iprod % NBUFF
        BY <4>0, <3>1, <3>3, DifferentSlots, Zenon
      <4>2. k \in Fetched .. iprod - 1
        BY <1>5, <3>1, <3>3
      <4>3. buff[k % NBUFF] = k
        BY <2>1, <4>2
      <4>4. k % NBUFF \in DOMAIN buff
        BY <2>1, <3>1
      <4>5. [buff EXCEPT ![iprod % NBUFF] = iprod][k % NBUFF] = buff[k % NBUFF]
        BY <4>1, <4>4, OtherSlots
      <4> QED
        BY <2>1, <4>3, <4>5, Zenon
    <3> QED
      BY <1>5, <3>1, <3>2, <3>3
  <2>3. Fetched' .. Stored' - 1 = Fetched .. iprod
    BY <1>4, <1>5 DEF Inv2
  <2> QED
    BY <2>2, <2>3 DEF NeverOverwrites
<1> QED
  BY <1>2, <1>3, <1>6

\* The semaphore calls and the return of the consumer.
LEMMA ConsumerSteps2 ==
  ASSUME Inv2,
         ConsWaitStored \/ ConsWaitMutex \/ ConsPostMutex \/ ConsPostEmpty \/ ConsReturn
  PROVE  Inv2'
<1> USE BufferAssumption DEF Inv2, Shape2, ConsWaitStored, ConsWaitMutex, ConsPostMutex,
        ConsPostEmpty, ConsReturn, SemWait, SemPost, sems, produce
<1>1. Shape2'
  BY SMTT(30)
<1>2. MutexCounts2'
  BY DEF MutexCounts2, ProdInside, ConsInside
<1>3. SlotsCount2'
  <2> USE DEF SlotsCount2, ProdHasSlot, ConsHasItem
  <2>1. CASE ConsWaitStored
    BY <2>1
  <2>2. CASE ConsWaitMutex
    BY <2>2
  <2>3. CASE ConsPostMutex
    BY <2>3
  <2>4. CASE ConsPostEmpty
    BY <2>4
  <2>5. CASE ConsReturn
    BY <2>5
  <2> QED
    BY <2>1, <2>2, <2>3, <2>4, <2>5
<1>4. FindsItsItem'
  BY DEF FindsItsItem
<1>5. Stored' = Stored /\ Fetched' = Fetched /\ UNCHANGED buff
  BY SMTT(30) DEF Stored, Fetched
<1>6. NeverOverwrites'
  BY <1>5, KeepBuffer
<1> QED
  BY <1>1, <1>2, <1>3, <1>4, <1>6

LEMMA FetchStep2 ==
  ASSUME Inv2, ConsFetch
  PROVE  Inv2'
<1> USE BufferAssumption DEF Inv2, Shape2, ConsFetch, sems, produce
<1>1. icons % NBUFF \in 0..NBUFF-1
  BY SlotExists
<1>2. Fetched = icons /\ Fetched' = icons + 1 /\ Stored' = Stored /\ Stored \in Nat
  BY DEF Fetched, Stored
<1>3. buff[icons % NBUFF] = icons
  <2>1. icons <= Stored - 1
    \* An item taken from nstored was counted in iprod or is being posted.
    BY DEF Stored, SlotsCount2, ProdHasSlot, ConsHasItem
  <2> QED
    BY <1>2, <2>1 DEF NeverOverwrites
<1>4. Shape2' /\ FindsItsItem'
  BY <1>1, <1>3 DEF FindsItsItem
<1>5. MutexCounts2' /\ SlotsCount2'
  BY DEF MutexCounts2, ProdInside, ConsInside, SlotsCount2, ProdHasSlot, ConsHasItem
<1>6. NeverOverwrites'
  <2>1. Fetched' .. Stored' - 1 \subseteq Fetched .. Stored - 1 /\ UNCHANGED buff
    BY <1>2
  <2>2. \A k \in Fetched .. Stored - 1 : buff[k % NBUFF] = k
    BY DEF NeverOverwrites
  <2> QED
    BY <2>1, <2>2, Zenon DEF NeverOverwrites
<1> QED
  BY <1>4, <1>5, <1>6

LEMMA Next2 == Inv2 /\ [Next]_vars => Inv2'
<1> SUFFICES ASSUME Inv2, [Next]_vars PROVE Inv2'
  OBVIOUS
<1>1. CASE Produce
  BY <1>1, ProducerSteps2, StoreStep2 DEF Produce
<1>2. CASE Consume
  BY <1>2, ConsumerSteps2, FetchStep2 DEF Consume
<1>3. CASE UNCHANGED vars
  BY <1>3 DEF Inv2, Shape2, MutexCounts2, SlotsCount2, FindsItsItem, NeverOverwrites,
     ProdInside, ConsInside, ProdHasSlot, ConsHasItem, Stored, Fetched, vars, sems,
     produce, consume
<1> QED
  BY <1>1, <1>2, <1>3 DEF Next

\* The other programs leave the variables of prodcons2 alone.
LEMMA StepsOfProdCons2 == [ProgramsNext]_pvars => [Next]_vars
<1> SUFFICES ASSUME [ProgramsNext]_pvars PROVE Next \/ UNCHANGED vars
  OBVIOUS
<1>1. ASSUME NEW t, ThreadStep(t) PROVE Next \/ UNCHANGED vars
  BY <1>1 DEF ThreadStep, Next
<1>2. Wakeup \/ Kill \/ Finished \/ UNCHANGED pvars => UNCHANGED vars
  BY DEF Wakeup, Kill, Finished, pvars
<1> QED
  BY <1>1, <1>2 DEF ProgramsNext

LEMMA Invariance2 == ProgramsSpec => []Inv2
<1>1. ProgramsInit => Inv2
  BY Init2 DEF ProgramsInit
<1>2. Inv2 /\ [ProgramsNext]_pvars => Inv2'
  BY Next2, StepsOfProdCons2
<1> QED
  BY <1>1, <1>2, PTL DEF ProgramsSpec

(***************************************************************************)
(* The variables of prodcons2 keep their types; in particular its mutex    *)
(* never exceeds 1 and neither nempty nor nstored ever exceeds NBUFF       *)
(* (prodcons2.c:33-35).                                                    *)
(***************************************************************************)
THEOREM TypeCorrect == ProgramsSpec => []TypeOK
<1>1. Inv2 => TypeOK
  BY BufferAssumption
  DEF Inv2, Shape2, MutexCounts2, SlotsCount2, ProdInside, ConsInside, ProdHasSlot,
      ConsHasItem, TypeOK
<1> QED
  BY <1>1, Invariance2, PTL

(***************************************************************************)
(* The consumer of prodcons2 always finds the item it expects              *)
(* (prodcons2.c:74-77): the message of line 75 is never printed.           *)
(***************************************************************************)
THEOREM RightItem == ProgramsSpec => []FindsItsItem
<1>1. Inv2 => FindsItsItem
  BY DEF Inv2
<1> QED
  BY <1>1, Invariance2, PTL

(***************************************************************************)
(* No slot of prodcons2 is stored into before its item has been fetched    *)
(* (prodcons2.c:58, 74).                                                   *)
(***************************************************************************)
THEOREM NoOverwrite == ProgramsSpec => []NeverOverwrites
<1>1. Inv2 => NeverOverwrites
  BY DEF Inv2
<1> QED
  BY <1>1, Invariance2, PTL

-----------------------------------------------------------------------------
(* The refinement of Fifo. *)

\* The queue that holds the items from f on, n of them.
Items(f, n) == [k \in 1..n |-> f + k - 1]

LEMMA ItemsIsSeq ==
  ASSUME NEW f \in Int, NEW n \in Nat
  PROVE  Items(f, n) \in Seq(Int) /\ Len(Items(f, n)) = n
BY DEF Items

LEMMA ItemsAppend ==
  ASSUME NEW f \in Int, NEW n \in Nat
  PROVE  Items(f, n + 1) = Append(Items(f, n), f + n)
<1>1. /\ Len(Items(f, n + 1)) = n + 1 /\ Len(Append(Items(f, n), f + n)) = n + 1
      /\ Items(f, n + 1) \in Seq(Int) /\ Append(Items(f, n), f + n) \in Seq(Int)
  BY ItemsIsSeq
<1>2. ASSUME NEW k \in 1 .. n + 1
      PROVE  Items(f, n + 1)[k] = Append(Items(f, n), f + n)[k]
  BY ItemsIsSeq DEF Items
<1> QED
  BY <1>1, <1>2

LEMMA ItemsTail ==
  ASSUME NEW f \in Int, NEW n \in Nat \ {0}
  PROVE  /\ Head(Items(f, n)) = f
         /\ Tail(Items(f, n)) = Items(f + 1, n - 1)
<1>1. Items(f, n) \in Seq(Int) /\ Len(Items(f, n)) = n /\ Items(f, n) # << >>
  BY ItemsIsSeq
<1>2. Head(Items(f, n)) = f
  BY <1>1 DEF Items
<1>3. /\ Len(Tail(Items(f, n))) = n - 1 /\ Len(Items(f + 1, n - 1)) = n - 1
      /\ Tail(Items(f, n)) \in Seq(Int) /\ Items(f + 1, n - 1) \in Seq(Int)
  <2>1. f + 1 \in Int /\ n - 1 \in Nat
    OBVIOUS
  <2>2. Len(Items(f + 1, n - 1)) = n - 1 /\ Items(f + 1, n - 1) \in Seq(Int)
    BY <2>1, ItemsIsSeq
  <2> QED
    BY <1>1, <2>2
<1>4. ASSUME NEW k \in 1 .. n - 1
      PROVE  Tail(Items(f, n))[k] = Items(f + 1, n - 1)[k]
  BY <1>1 DEF Items
<1> QED
  BY <1>2, <1>3, <1>4, SMTT(30)

LEMMA Counts2 ==
  ASSUME Inv2
  PROVE  /\ Stored \in Nat /\ Fetched \in Nat /\ Stored - Fetched \in 0..NBUFF
         /\ prod = "store" => Stored = iprod /\ Stored - Fetched < NBUFF /\ Stored < nitems
         /\ cons = "fetch" => Fetched = icons /\ Fetched < Stored
<1> USE BufferAssumption DEF Inv2, Shape2, SlotsCount2, Stored, Fetched, ProdHasSlot, ConsHasItem
<1>1. Stored \in Nat /\ Fetched \in Nat
  OBVIOUS
<1>2. Stored - Fetched \in 0..NBUFF
  OBVIOUS
<1>3. prod = "store" => Stored = iprod /\ Stored - Fetched < NBUFF /\ Stored < nitems
  OBVIOUS
<1>4. cons = "fetch" => Fetched = icons /\ Fetched < Stored
  OBVIOUS
<1> QED
  BY <1>1, <1>2, <1>3, <1>4

\* The buffer between the two counts, read as a queue.
Queue == [k \in 1..(Stored - Fetched) |-> buff[(Fetched + k - 1) % NBUFF]]

LEMMA QueueIsItems == Inv2 => Queue = Items(Fetched, Stored - Fetched)
<1> SUFFICES ASSUME Inv2 PROVE Queue = Items(Fetched, Stored - Fetched)
  OBVIOUS
<1>1. Stored \in Nat /\ Fetched \in Nat
  BY Counts2
<1>2. \A j \in Fetched .. Stored - 1 : buff[j % NBUFF] = j
  BY DEF Inv2, NeverOverwrites
<1>3. ASSUME NEW k \in 1..(Stored - Fetched)
      PROVE  buff[(Fetched + k - 1) % NBUFF] = Fetched + k - 1
  <2>1. Fetched + k - 1 \in Fetched .. Stored - 1
    BY <1>1
  <2> QED
    BY <1>2, <2>1, Zenon
<1> QED
  BY <1>3, Zenon DEF Queue, Items

LEMMA FifoInit == Init => AbsFifo!Init
<1> SUFFICES ASSUME Init PROVE AbsFifo!Init
  OBVIOUS
<1>1. Stored = 0 /\ Fetched = 0 /\ out = -1
  BY DEF Init, Stored, Fetched
<1>2. Queue = Items(0, 0) /\ Items(0, 0) = << >>
  BY <1>1, Init2, QueueIsItems, ItemsIsSeq
<1> QED
  BY <1>1, <1>2 DEF AbsFifo!Init, Queue

\* Steps that change neither count nor the buffer.
LEMMA FifoStutter ==
  ASSUME UNCHANGED <<buff, out>>, Stored' = Stored, Fetched' = Fetched
  PROVE  UNCHANGED <<Stored, Queue, out>>
BY DEF Queue

LEMMA FifoPut ==
  ASSUME Inv2, Inv2', ProdStore
  PROVE  AbsFifo!Put
<1>1. /\ Stored' = Stored + 1 /\ Fetched' = Fetched /\ UNCHANGED out
      /\ prod = "store" /\ Stored \in Nat /\ Fetched \in Nat
  BY Counts2 DEF ProdStore, consume, Stored, Fetched, Inv2, Shape2
<1>2. /\ Stored < nitems /\ Stored - Fetched < NBUFF /\ Stored - Fetched \in Nat
  BY <1>1, Counts2
<1>3. Queue = Items(Fetched, Stored - Fetched) /\ Queue' = Items(Fetched, Stored - Fetched + 1)
  <2>1. (Queue = Items(Fetched, Stored - Fetched))'
    BY QueueIsItems, PTL
  <2> QED
    BY <1>1, <2>1, QueueIsItems
<1>4. Queue' = Append(Queue, Stored) /\ Len(Queue) < NBUFF
  <2>1. Fetched + (Stored - Fetched) = Stored
    BY <1>1
  <2>0. Fetched \in Int /\ Stored - Fetched \in Nat
    BY <1>1, <1>2
  <2>2. Len(Queue) = Stored - Fetched
    BY <2>0, <1>3, ItemsIsSeq, Zenon
  <2>3. Queue' = Append(Queue, Fetched + (Stored - Fetched))
    BY <2>0, <1>3, ItemsAppend, Zenon
  <2> QED
    BY <1>2, <2>1, <2>2, <2>3
<1> QED
  BY <1>1, <1>2, <1>4 DEF AbsFifo!Put, Queue

LEMMA FifoGet ==
  ASSUME Inv2, Inv2', ConsFetch
  PROVE  AbsFifo!Get
<1>1. /\ Stored' = Stored /\ Fetched' = Fetched + 1
      /\ cons = "fetch" /\ Stored \in Nat /\ Fetched \in Nat
  BY Counts2 DEF ConsFetch, produce, Stored, Fetched, Inv2, Shape2
<1>2. Fetched = icons /\ Stored - Fetched \in Nat \ {0}
  BY <1>1, Counts2
<1>3. Queue = Items(Fetched, Stored - Fetched) /\ Queue' = Items(Fetched + 1, Stored - Fetched - 1)
  <2>1. (Queue = Items(Fetched, Stored - Fetched))'
    BY QueueIsItems, PTL
  <2>2. Stored - (Fetched + 1) = Stored - Fetched - 1
    BY <1>1
  <2> QED
    BY <1>1, <2>1, <2>2, QueueIsItems
<1>4. Head(Queue) = Fetched /\ Queue' = Tail(Queue) /\ Queue # << >>
  <2>1. Len(Queue) # 0
    BY <1>1, <1>2, <1>3, ItemsIsSeq
  <2>2. Head(Queue) = Fetched /\ Queue' = Tail(Queue)
    BY <1>1, <1>2, <1>3, ItemsTail
  <2> QED
    BY <2>1, <2>2
<1>5. out' = Fetched
  <2>1. (FindsItsItem)'
    BY DEF Inv2
  <2> QED
    BY <1>2, <2>1 DEF ConsFetch, FindsItsItem
<1> QED
  BY <1>1, <1>4, <1>5 DEF AbsFifo!Get, Queue

(***************************************************************************)
(* The circular buffer of prodcons2 under its three semaphores is the      *)
(* bounded queue of Fifo: items pass from the producer to the consumer in  *)
(* order, each once, at most NBUFF at a time (prodcons2.c:50-82).          *)
(***************************************************************************)
THEOREM Refinement == ProgramsSpec => ImplementsFifo
<1>1. Inv2 /\ Inv2' /\ [Next]_vars => [AbsFifo!Next]_<<Stored, Queue, out>>
  <2> SUFFICES ASSUME Inv2, Inv2', [Next]_vars
               PROVE  AbsFifo!Next \/ UNCHANGED <<Stored, Queue, out>>
    OBVIOUS
  <2>1. CASE ProdStore
    BY <2>1, FifoPut DEF AbsFifo!Next
  <2>2. CASE ConsFetch
    BY <2>2, FifoGet DEF AbsFifo!Next
  <2>3. CASE ProdWaitEmpty \/ ProdWaitMutex \/ ProdPostMutex \/ ProdPostStored \/ ProdReturn
    <3> SUFFICES Stored' = Stored /\ Fetched' = Fetched /\ UNCHANGED <<buff, out>>
      BY FifoStutter
    <3> USE DEF Stored, Fetched, consume, Inv2, Shape2
    <3>1. CASE ProdWaitEmpty
      BY <3>1 DEF ProdWaitEmpty
    <3>2. CASE ProdWaitMutex
      BY <3>2 DEF ProdWaitMutex
    <3>3. CASE ProdPostMutex
      BY <3>3 DEF ProdPostMutex
    <3>4. CASE ProdPostStored
      BY <3>4 DEF ProdPostStored
    <3>5. CASE ProdReturn
      BY <3>5 DEF ProdReturn
    <3> QED
      BY <2>3, <3>1, <3>2, <3>3, <3>4, <3>5
  <2>4. CASE ConsWaitStored \/ ConsWaitMutex \/ ConsPostMutex \/ ConsPostEmpty \/ ConsReturn
    <3> SUFFICES Stored' = Stored /\ Fetched' = Fetched /\ UNCHANGED <<buff, out>>
      BY FifoStutter
    <3> USE DEF Stored, Fetched, produce, Inv2, Shape2
    <3>1. CASE ConsWaitStored
      BY <3>1 DEF ConsWaitStored
    <3>2. CASE ConsWaitMutex
      BY <3>2 DEF ConsWaitMutex
    <3>3. CASE ConsPostMutex
      BY <3>3 DEF ConsPostMutex
    <3>4. CASE ConsPostEmpty
      BY <3>4 DEF ConsPostEmpty
    <3>5. CASE ConsReturn
      BY <3>5 DEF ConsReturn
    <3> QED
      BY <2>4, <3>1, <3>2, <3>3, <3>4, <3>5
  <2>5. CASE UNCHANGED vars
    BY <2>5, FifoStutter DEF vars, produce, consume, Stored, Fetched
  <2> QED
    BY <2>1, <2>2, <2>3, <2>4, <2>5 DEF Next, Produce, Consume
<1>2. ProgramsInit => AbsFifo!Init
  BY FifoInit DEF ProgramsInit
<1> QED
  BY <1>1, <1>2, StepsOfProdCons2, Invariance2, PTL
  DEF ProgramsSpec, ImplementsFifo, AbsFifo!Spec, Queue

-----------------------------------------------------------------------------
(* All programs *)

\* Apart from prodcons2, whose invariant is below, each program keeps its own.
IInv == /\ prog \in Programs
        /\ prog = "prodcons1" => RunsInv
        /\ prog = "prodcons6" => CondInv
        /\ IsArray => ArrayInv
        /\ prog = "prodcons3" => Inv3
        /\ prog = "prodcons4" => Inv4
        /\ prog = "mycat2" => CatInv /\ taken < nput

LEMMA InitInvariant == ProgramsInit => IInv
<1> SUFFICES ASSUME ProgramsInit PROVE IInv
  OBVIOUS
<1>1. prog \in Programs
  BY DEF ProgramsInit
<1>2. /\ prog = "prodcons1" => P1!Init
      /\ prog = "prodcons6" => C6!Init
      /\ IsArray => Arr!Init
      /\ prog = "prodcons3" => P3!Init
      /\ prog = "prodcons4" => P4!Init
      /\ prog = "mycat2" => Cat!Init
  BY DEF ProgramsInit, IsArray
<1>3. Cat!Init => taken < nput
  BY DEF Cat!Init
<1> QED
  BY <1>1, <1>2, <1>3, RunsInit, CondInit, ArrayInit, Init3, Init4, CatInit DEF IInv

\* What a step of a thread is in each of the programs.
LEMMA StepOfProgram ==
  ASSUME NEW t, ThreadStep(t)
  PROVE  /\ prog' = prog
         /\ prog = "prodcons1" => t \in Producers /\ P1!Step(t)
         /\ prog = "prodcons6" => C6!Step(t)
         /\ IsArray => Arr!Step(t)
         /\ prog = "prodcons3" => P3!Step(t)
         /\ prog = "prodcons4" => t \in P4!Threads /\ P4!Step(t)
         /\ prog = "mycat2" => Cat!Step(t)
BY DEF ThreadStep, IsArray

LEMMA NothingMoves ==
  ASSUME UNCHANGED pvars
  PROVE  /\ RunsInv => RunsInv'
         /\ CondInv => CondInv'
         /\ ArrayInv => ArrayInv'
         /\ Inv3 => Inv3'
         /\ Inv4 => Inv4'
         /\ CatInv => CatInv'
<1>1. /\ prog' = prog /\ pc' = pc /\ count' = count /\ nput' = nput /\ nputval' = nputval
      /\ pbuff' = pbuff /\ pmutex' = pmutex /\ pempty' = pempty /\ pstored' = pstored
      /\ seen' = seen /\ i' = i /\ nget' = nget /\ ngetval' = ngetval /\ taken' = taken
      /\ put_mutex' = put_mutex /\ nready_mutex' = nready_mutex /\ nready' = nready
      /\ asleep' = asleep
  BY DEF pvars, many, bounded, getters, condvar
<1>2. RunsInv => RunsInv'
  BY <1>1 DEF RunsInv, RunTypes, OwnOrNone, RunPlaces, NamesKept, P1!HasAll, P1!Names
<1>3. CondInv => CondInv'
  BY <1>1 DEF CondInv, CondTypes, CondOwners, ArrayFilled, PutEnds, CondAccounted, CondCounts,
     Sleeps, At
<1>4. ArrayInv => ArrayInv'
  BY <1>1 DEF ArrayInv, ArrayTypes, ArrayOwner, ArrayFilled, ArrayPut, PutEnds, Created,
     Compared, ArrayCounts, At
<1>5. Inv3 => Inv3'
  BY <1>1 DEF Inv3, Types3, SlotTypes, OneInside, Storing, Ends3, Slots3, Items3, SlotsHold,
     P3!Fetched, P3!NeverPrintsError, Counts3, ConsHas3, At
<1>6. Inv4 => Inv4'
  BY <1>1 DEF Inv4, Types4, SlotTypes, OneInside, Storing, Getting, Ends4, Slots4, Items4,
     SlotsHold, Counts4, CountsOf, At
<1>7. CatInv => CatInv'
  BY <1>1 DEF CatInv, CatTypes, BuffersCount, ChunksInOrder, OnlyFailures, ProdHasBuffer,
     ConsHasBuffer, NotWritten
<1> QED
  BY <1>2, <1>3, <1>4, <1>5, <1>6, <1>7

LEMMA NextInvariant == IInv /\ [ProgramsNext]_pvars => IInv'
<1> SUFFICES ASSUME IInv, [ProgramsNext]_pvars PROVE IInv'
  OBVIOUS
<1>1. CASE \E t \in All : ThreadStep(t)
  <2>1. PICK t \in All : ThreadStep(t)
    BY <1>1
  <2>2. prog' = prog /\ (IsArray' <=> IsArray)
    BY <2>1, StepOfProgram DEF IsArray
  <2>3. prog = "prodcons1" => RunsInv'
    BY <2>1, StepOfProgram, RunSteps DEF IInv
  <2>4. prog = "prodcons6" => CondInv'
    BY <2>1, StepOfProgram, CondSteps DEF IInv
  <2>5. IsArray => ArrayInv'
    BY <2>1, <2>2, StepOfProgram, ArraySteps DEF IInv
  <2>6. prog = "prodcons3" => Inv3'
    BY <2>1, StepOfProgram, Steps3 DEF IInv
  <2>7. prog = "prodcons4" => Inv4'
    BY <2>1, StepOfProgram, Steps4 DEF IInv
  <2>8. prog = "mycat2" => CatInv' /\ taken' < nput'
    BY <2>1, StepOfProgram, CatSteps, NotAhead DEF IInv
  <2> QED
    BY <2>2, <2>3, <2>4, <2>5, <2>6, <2>7, <2>8 DEF IInv
<1>2. CASE Wakeup
  <2>1. prog = "prodcons6" /\ prog' = prog /\ C6!SpuriousWakeup
    BY <1>2 DEF Wakeup
  <2>2. CondInv'
    BY <2>1, CondSteps DEF IInv
  <2> QED
    BY <2>1, <2>2 DEF IInv, IsArray
<1>3. CASE Kill
  <2>1. prog = "prodcons1" /\ prog' = prog
    BY <1>3 DEF Kill
  <2>2. PICK r \in Producers : P1!Kill(r)
    BY <1>3 DEF Kill
  <2>3. RunsInv'
    BY <2>1, <2>2, RunSteps DEF IInv
  <2> QED
    BY <2>1, <2>3 DEF IInv, IsArray
<1>4. CASE UNCHANGED pvars
  <2>1. prog' = prog /\ taken' = taken /\ nput' = nput
    BY <1>4 DEF pvars, many
  <2> QED
    BY <1>4, <2>1, NothingMoves DEF IInv, IsArray
<1> QED
  BY <1>1, <1>2, <1>3, <1>4 DEF ProgramsNext, Finished

LEMMA Invariance == ProgramsSpec => []IInv
BY InitInvariant, NextInvariant, PTL DEF ProgramsSpec

(***************************************************************************)
(* The consumer of every program finds the item that is next, and mycat2   *)
(* copies its file in order (prodcons3.c:105, prodcons4.c:124,             *)
(* prodcons6.c:103, mycat2.c:97-99), for any number of threads, slots and  *)
(* items.                                                                  *)
(***************************************************************************)
THEOREM InOrder == ProgramsSpec => []ItemsInOrder
<1>1. IInv => ItemsInOrder
  BY Properties3, Properties4, CondProperties, ArrayProperties, CatProperties
     DEF IInv, ItemsInOrder
<1> QED
  BY <1>1, Invariance, PTL

(***************************************************************************)
(* Slots, items and counts add up in every state, and the two threads of   *)
(* mycat2 are at different buffers (prodcons3.c:73-110, prodcons4.c:76-129,*)
(* prodcons6.c:63-109, mycat2.c:65-107).                                   *)
(***************************************************************************)
THEOREM NothingLost == ProgramsSpec => []Accounted
<1>1. IInv => Accounted
  BY Properties3, Properties4, CondProperties, ArrayProperties, CatProperties
     DEF IInv, Accounted
<1> QED
  BY <1>1, Invariance, PTL

(***************************************************************************)
(* The consumer of prodcons6 sleeps only while nothing is ready, although  *)
(* the signal of prodcons6.c:81-83 is sent only when the counter was 0.    *)
(***************************************************************************)
THEOREM SignalSuffices == ProgramsSpec => []SleepsOnlyOnNothing
<1>1. IInv => SleepsOnlyOnNothing
  BY CondProperties DEF IInv, SleepsOnlyOnNothing
<1> QED
  BY <1>1, Invariance, PTL

(***************************************************************************)
(* Runs of prodcons1 share no semaphore and remove no name of another, and *)
(* a name that a dead run has left keeps all later runs from working       *)
(* (prodcons1.c:43-48, 60-62), however many runs there are.                *)
(***************************************************************************)
THEOREM RunsKeepApart == ProgramsSpec => NamesApart
<1>1. IInv /\ [ProgramsNext]_pvars =>
        [prog = "prodcons1" => P1!NoneShared /\ P1!RemovesOwn /\ P1!LeftForGood]_pvars
  <2> SUFFICES ASSUME IInv, ProgramsNext, ~ UNCHANGED pvars, prog = "prodcons1"
               PROVE  P1!NoneShared /\ P1!RemovesOwn /\ P1!LeftForGood
    OBVIOUS
  <2>1. (\E t \in All : ThreadStep(t)) \/ Kill
    BY DEF ProgramsNext, Wakeup, Finished
  <2>2. PICK r \in Producers : P1!Step(r) \/ P1!Kill(r)
    BY <2>1, StepOfProgram DEF Kill
  <2> QED
    BY <2>2, RunsApart DEF IInv
<1> QED
  BY <1>1, Invariance, PTL DEF ProgramsSpec, NamesApart

-----------------------------------------------------------------------------
(* The refinement of Fifo by prodcons3, prodcons4 and mycat2. *)

\* The item that is taken next.
QueueFrom == CASE prog = "prodcons3" -> P3!Fetched [] prog = "prodcons4" -> nget
               [] prog = "mycat2" -> taken + 1 [] OTHER -> 0

\* From n items put, the last of the f taken being o: a put, a get or neither.
QueueStep(n, f, o, n1, f1, o1) ==
  \/ n < nitems /\ n < f + NBUFF /\ n1 = n + 1 /\ f1 = f /\ o1 = o
  \/ f < n /\ n1 = n /\ f1 = f + 1 /\ o1 = f
  \/ n1 = n /\ f1 = f /\ o1 = o

\* The slots from that of item f on, up to that of item n.
SlotsOf(b, f, n) == [k \in 1..(n - f) |-> b[(f + k - 1) % NBUFF]]

LEMMA SlotsAreItems ==
  ASSUME NEW b, NEW f \in Nat, NEW n \in Nat, \A k \in f .. n - 1 : b[k % NBUFF] = k
  PROVE  SlotsOf(b, f, n) = Items(f, n - f)
<1>1. ASSUME NEW k \in 1..(n - f)
      PROVE  b[(f + k - 1) % NBUFF] = f + k - 1
  <2>1. f + k - 1 \in f .. n - 1
    OBVIOUS
  <2> QED
    BY <2>1, Zenon
<1> QED
  BY <1>1, Zenon DEF Items, SlotsOf

\* What the queue of each program holds.
LEMMA QueueHolds ==
  ASSUME IInv
  PROVE  /\ QueueNext \in Nat /\ QueueFrom \in Nat /\ QueueFrom <= QueueNext
         /\ QueueItems = Items(QueueFrom, QueueNext - QueueFrom)
<1>1. CASE prog = "prodcons3"
  <2>1. Inv3 /\ QueueNext = P3!NextItem /\ QueueFrom = P3!Fetched /\ QueueItems = P3!OnTheWay
    BY <1>1 DEF IInv, QueueNext, QueueFrom, QueueItems
  <2>2. /\ P3!NextItem = nput /\ nput \in Nat
        /\ P3!Fetched \in Nat /\ P3!Fetched <= nput
    BY <2>1, Facts3, FetchedFacts3, ConstantFacts DEF P3!NextItem
  <2>3. \A k \in P3!Fetched .. nput - 1 : pbuff[k % NBUFF] = k
    BY <2>1 DEF Inv3, SlotsHold
  <2>4. P3!OnTheWay = Items(P3!Fetched, nput - P3!Fetched)
    BY <2>2, <2>3, SlotsAreItems, ZenonT(60) DEF P3!OnTheWay, SlotsOf
  <2> QED
    BY <2>1, <2>2, <2>4
<1>2. CASE prog = "prodcons4"
  <2>1. Inv4 /\ QueueNext = P4!NextItem /\ QueueFrom = nget /\ QueueItems = P4!OnTheWay
    BY <1>2 DEF IInv, QueueNext, QueueFrom, QueueItems
  <2>2. /\ P4!NextItem = nput /\ nput \in Nat /\ nget \in Nat /\ nget <= nput
    BY <2>1, Facts4, ConstantFacts DEF P4!NextItem
  <2>3. \A k \in nget .. nput - 1 : pbuff[k % NBUFF] = k
    BY <2>1 DEF Inv4, SlotsHold
  <2>4. P4!OnTheWay = Items(nget, nput - nget)
    BY <2>2, <2>3, SlotsAreItems, ZenonT(60) DEF P4!OnTheWay, SlotsOf
  <2> QED
    BY <2>1, <2>2, <2>4
<1>3. CASE prog = "mycat2"
  <2>1. /\ CatInv /\ taken < nput
        /\ QueueNext = nput /\ QueueFrom = taken + 1 /\ QueueItems = Cat!OnTheWay
    BY <1>3 DEF IInv, QueueNext, QueueFrom, QueueItems
  <2>2. /\ nput \in Nat /\ taken \in Int /\ taken + 1 \in Nat /\ taken + 1 <= nput
    BY <2>1, CatFacts
  <2>3. \A k \in taken + 1 .. nput - 1 : pbuff[k % NBUFF] = k
    <3>1. CASE nputval = -2
      BY <2>1, <2>2, <3>1, FailingFacts
    <3>2. CASE ~(nputval = -2)
      BY <2>1, <3>2, ReadingFacts
    <3> QED
      BY <3>1, <3>2
  <2>4. SlotsOf(pbuff, taken + 1, nput) = Items(taken + 1, nput - (taken + 1))
    BY <2>2, <2>3, SlotsAreItems
  <2>5. \A k \in 1..(nput - (taken + 1)) : taken + 1 + k - 1 = taken + k
    BY <2>2
  <2>6. Cat!OnTheWay = Items(taken + 1, nput - (taken + 1))
    BY <2>4, <2>5 DEF Cat!OnTheWay, SlotsOf
  <2> QED
    BY <2>1, <2>2, <2>6
<1>4. CASE prog \notin {"prodcons3", "prodcons4", "mycat2"}
  <2>1. QueueNext = 0 /\ QueueFrom = 0 /\ QueueItems = << >>
    BY <1>4 DEF QueueNext, QueueFrom, QueueItems
  <2>2. Items(0, 0) = << >>
    BY ItemsIsSeq
  <2> QED
    BY <2>1, <2>2
<1> QED
  BY <1>1, <1>2, <1>3, <1>4

\* Storing an item does not put it on its way yet, and seeing it does not take
\* it from its place: the counts do.
LEMMA QueueSteps3 ==
  ASSUME Inv3, Inv3', NEW t, P3!Step(t)
  PROVE  QueueStep(nput, P3!Fetched, P3!LastOut, nput', P3!Fetched', P3!LastOut')
<1>0. /\ nput \in 0..nitems /\ nitems \in Nat /\ i \in 0..nitems
      /\ pc \in [P3!Threads -> Producing \cup Consuming]
      /\ consumer \in P3!Threads /\ consumer \notin Producers /\ Producers \subseteq P3!Threads
      /\ pstored \in Nat /\ Unposted \in Nat /\ pstored + Unposted + ConsHas3 = nput - i
  BY Facts3, ConstantFacts DEF P3!Threads
<1>1. ASSUME t \in Producers, P3!Produce(t), ~ P3!Put(t)
      PROVE  nput' = nput /\ P3!Fetched' = P3!Fetched /\ P3!LastOut' = P3!LastOut
  <2>1. /\ nput' = nput /\ i' = i /\ seen' = seen
        /\ \E to : pc' = [pc EXCEPT ![t] = to]
    BY <1>1, <1>0 DEF P3!Produce, P3!WaitEmpty, P3!WaitMutex, P3!TestPut, P3!Store, P3!PostMutex,
       P3!PostStored, P3!LastEmpty, P3!LastMutex, P3!Goto, P3!shared
  <2>2. pc'[consumer] = pc[consumer]
    BY <1>0, <1>1, <2>1
  <2> QED
    BY <2>1, <2>2 DEF P3!Fetched, P3!LastOut
<1>2. CASE t \in Producers /\ P3!Put(t)
  <2>1. /\ pc[t] = "put" /\ nput' = nput + 1 /\ i' = i /\ seen' = seen
        /\ pc' = [pc EXCEPT ![t] = "post_mutex"]
    BY <1>2 DEF P3!Put, P3!Goto
  <2>2. pc'[consumer] = pc[consumer]
    BY <1>0, <1>2, <2>1
  <2>3. nput < nitems /\ nput < P3!Fetched + NBUFF
    BY <1>2, <2>1, RoomFor3 DEF Inv3, Storing, HasSlot3
  <2>4. P3!Fetched' = P3!Fetched /\ P3!LastOut' = P3!LastOut
    BY <2>1, <2>2 DEF P3!Fetched, P3!LastOut
  <2> QED
    BY <2>1, <2>3, <2>4 DEF QueueStep
<1>3. CASE P3!Fetch
  <2>1. /\ pc[consumer] = "fetch" /\ pc'[consumer] = "post_mutex" /\ i' = i /\ nput' = nput
    BY <1>0, <1>3 DEF P3!Fetch, P3!Goto, P3!shared
  <2>2. P3!Fetched = i /\ P3!Fetched' = i + 1
    BY <1>0, <2>1 DEF P3!Fetched
  <2>3. seen' = i
    BY <2>1 DEF Inv3, P3!NeverPrintsError
  <2>4. P3!LastOut' = i
    BY <1>0, <2>2, <2>3 DEF P3!LastOut
  <2>5. i < nput
    BY <1>0, <2>1 DEF ConsHas3
  <2> QED
    BY <2>1, <2>2, <2>4, <2>5 DEF QueueStep
<1>4. ASSUME P3!Consume, ~ P3!Fetch
      PROVE  nput' = nput /\ P3!Fetched' = P3!Fetched /\ P3!LastOut' = P3!LastOut
  <2>1. nput' = nput /\ seen' = seen
    BY <1>4 DEF P3!Consume, P3!WaitStored, P3!WaitMutex, P3!PostMutex, P3!PostEmpty,
       P3!EndConsume, P3!shared
  <2>2. P3!Fetched' = P3!Fetched
    BY <1>0, <1>4 DEF P3!Consume, P3!WaitStored, P3!WaitMutex, P3!PostMutex, P3!PostEmpty,
       P3!EndConsume, P3!Goto, P3!Fetched
  <2> QED
    BY <2>1, <2>2 DEF P3!LastOut
<1> QED
  BY <1>1, <1>2, <1>3, <1>4 DEF P3!Step, QueueStep

LEMMA QueueSteps4 ==
  ASSUME Inv4, NEW t \in P4!Threads, P4!Step(t)
  PROVE  QueueStep(nput, nget, taken, nput', nget', taken')
<1>0. /\ \A p \in SomeProducers : pc[p] \in Producing4
      /\ \A c \in Consumers : pc[c] \in Consuming4
      /\ t \in SomeProducers \/ t \in Consumers
  BY Facts4 DEF P4!Threads
<1>1. CASE P4!Put(t)
  <2>1. pc[t] = "put" /\ nput' = nput + 1 /\ nget' = nget /\ taken' = taken
    BY <1>1 DEF P4!Put, P4!Goto
  <2>2. t \in SomeProducers
    BY <1>0, <2>1 DEF Consuming4
  <2>3. nput < nitems /\ nput < nget + NBUFF
    BY <2>1, <2>2, RoomFor4 DEF Inv4, Storing, HasSlot4
  <2> QED
    BY <2>1, <2>3 DEF QueueStep
<1>2. CASE P4!Get(t)
  <2>1. pc[t] = "get" /\ nput' = nput /\ nget' = nget + 1 /\ taken' = seen[t]
    BY <1>2 DEF P4!Get, P4!Goto
  <2>2. t \in Consumers
    BY <1>0, <2>1 DEF Producing4, Last4
  <2>3. nget < nput /\ seen[t] = nget
    BY <2>1, <2>2 DEF Inv4, Getting
  <2> QED
    BY <2>1, <2>3 DEF QueueStep
<1>3. CASE ~ P4!Put(t) /\ ~ P4!Get(t)
  <2>1. nput' = nput /\ nget' = nget /\ taken' = taken
    BY <1>3 DEF P4!Step, P4!WaitEmpty, P4!WaitStored, P4!WaitMutex, P4!TestPut, P4!Store,
       P4!PostStored, P4!TestGet, P4!Fetch, P4!PostEmpty, P4!PostMutex, P4!LastStored,
       P4!LastEmpty, P4!LastMutex, P4!shared
  <2> QED
    BY <2>1 DEF QueueStep
<1> QED
  BY <1>1, <1>2, <1>3

LEMMA QueueStepsOfCat ==
  ASSUME CatInv, NEW t, Cat!Step(t)
  PROVE  QueueStep(nput, taken + 1, taken, nput', taken' + 1, taken')
<1>0. /\ nput \in Nat /\ taken \in Int /\ taken + 1 # -1 /\ taken + 1 # -2 /\ taken + 1 \in Nat
      /\ NBUFF \in Nat /\ nitems \in Nat /\ pempty \in Nat /\ pstored \in Nat
      /\ ConsHasBuffer \in 0..1 /\ NotWritten \in Nat /\ NotWritten <= pstored + ConsHasBuffer
      /\ pempty + pstored + ProdHasBuffer + ConsHasBuffer = NBUFF
      /\ nputval \in 0..nitems \cup {-2}
  BY CatFacts, SMTT(30)
<1>1. CASE Cat!Write
  <2>1. /\ pc[consumer] = "use" /\ pbuff[count[consumer]] # -1 /\ nput' = nput
        /\ taken' = IF pbuff[count[consumer]] = -2 THEN taken ELSE pbuff[count[consumer]]
    BY <1>1 DEF Cat!Write, Cat!Goto, Cat!Eof, Cat!Failed
  <2>2. taken' = taken \/ (taken + 1 < nput /\ taken' = taken + 1)
    BY <1>0, <2>1, BufferFound
  <2>3. CASE taken' = taken
    BY <2>1, <2>3 DEF QueueStep
  <2>4. CASE taken + 1 < nput /\ taken' = taken + 1
    BY <2>1, <2>4 DEF QueueStep
  <2> QED
    BY <2>2, <2>3, <2>4
<1>2. CASE Cat!ReadChunk
  <2>1. pc[producer] = "use" /\ nput < nputval /\ nput' = nput + 1 /\ taken' = taken
    BY <1>2 DEF Cat!ReadChunk, Cat!Goto
  <2>2. nputval # -2 /\ nput < nitems
    BY <1>0, <2>1
  <2>3. nput = taken + 1 + NotWritten /\ ProdHasBuffer = 1
    BY <1>0, <2>1, <2>2, ReadingFacts DEF ProdHasBuffer
  <2>4. nput < (taken + 1) + NBUFF
    BY <1>0, <2>3
  <2> QED
    BY <2>1, <2>2, <2>4 DEF QueueStep
<1>3. CASE ~ Cat!Write /\ ~ Cat!ReadChunk
  <2>1. nput' = nput /\ taken' = taken
    BY <1>3 DEF Cat!Step, Cat!Produce, Cat!Consume, Cat!WaitEmpty, Cat!WaitStored, Cat!WaitMutex,
       Cat!PostMutex, Cat!ReadEnd, Cat!ReadFails, Cat!PostStored, Cat!LastStored,
       Cat!ConsumerReturns, Cat!PostEmpty
  <2> QED
    BY <2>1 DEF QueueStep
<1> QED
  BY <1>1, <1>2, <1>3

LEMMA QueueSteps ==
  ASSUME IInv, IInv', [ProgramsNext]_pvars
  PROVE  QueueStep(QueueNext, QueueFrom, QueueOut, QueueNext', QueueFrom', QueueOut')
<1>1. CASE \E t \in All : ThreadStep(t)
  <2>1. PICK t \in All : ThreadStep(t)
    BY <1>1
  <2>2. prog' = prog
    BY <2>1, StepOfProgram
  <2>3. CASE prog = "prodcons3"
    <3>1. Inv3 /\ Inv3' /\ P3!Step(t)
      BY <2>1, <2>2, <2>3, StepOfProgram DEF IInv
    <3>2. /\ QueueNext = nput /\ QueueFrom = P3!Fetched /\ QueueOut = P3!LastOut
          /\ QueueNext' = nput' /\ QueueFrom' = P3!Fetched' /\ QueueOut' = P3!LastOut'
      BY <2>2, <2>3, <3>1 DEF QueueNext, QueueFrom, QueueOut, P3!NextItem, Inv3, Types3, SlotTypes
    <3> QED
      BY <3>1, <3>2, QueueSteps3
  <2>4. CASE prog = "prodcons4"
    <3>1. Inv4 /\ Inv4' /\ t \in P4!Threads /\ P4!Step(t)
      BY <2>1, <2>2, <2>4, StepOfProgram DEF IInv
    <3>2. /\ QueueNext = nput /\ QueueFrom = nget /\ QueueOut = taken
          /\ QueueNext' = nput' /\ QueueFrom' = nget' /\ QueueOut' = taken'
      BY <2>2, <2>4, <3>1 DEF QueueNext, QueueFrom, QueueOut, P4!NextItem, P4!LastOut, Inv4,
         Types4, SlotTypes
    <3> QED
      BY <3>1, <3>2, QueueSteps4
  <2>5. CASE prog = "mycat2"
    <3>1. CatInv /\ Cat!Step(t)
      BY <2>1, <2>5, StepOfProgram DEF IInv
    <3>2. /\ QueueNext = nput /\ QueueFrom = taken + 1 /\ QueueOut = taken
          /\ QueueNext' = nput' /\ QueueFrom' = taken' + 1 /\ QueueOut' = taken'
      BY <2>2, <2>5 DEF QueueNext, QueueFrom, QueueOut
    <3> QED
      BY <3>1, <3>2, QueueStepsOfCat
  <2>6. CASE prog \notin {"prodcons3", "prodcons4", "mycat2"}
    BY <2>2, <2>6 DEF QueueNext, QueueFrom, QueueOut, QueueStep
  <2> QED
    BY <2>3, <2>4, <2>5, <2>6
<1>2. CASE Wakeup \/ Kill
  <2>1. prog' = prog /\ prog \in {"prodcons6", "prodcons1"}
    BY <1>2 DEF Wakeup, Kill
  <2> QED
    BY <2>1 DEF QueueNext, QueueFrom, QueueOut, QueueStep
<1>3. CASE UNCHANGED pvars
  <2>1. /\ prog' = prog /\ nput' = nput /\ nputval' = nputval /\ nget' = nget /\ taken' = taken
        /\ i' = i /\ pc' = pc /\ seen' = seen
    BY <1>3 DEF pvars, many, getters
  <2>2. P3!Fetched' = P3!Fetched /\ P3!LastOut' = P3!LastOut
    BY <2>1 DEF P3!Fetched, P3!LastOut
  <2>3. QueueNext' = QueueNext /\ QueueFrom' = QueueFrom /\ QueueOut' = QueueOut
    BY <2>1, <2>2 DEF QueueNext, QueueFrom, QueueOut, P3!NextItem, P4!NextItem, P4!LastOut
  <2> QED
    BY <2>3 DEF QueueStep
<1> QED
  BY <1>1, <1>2, <1>3 DEF ProgramsNext, Finished

\* A step of the counts is one of the queue.
LEMMA ManyFifoStep ==
  ASSUME IInv, IInv', [ProgramsNext]_pvars
  PROVE  ManyFifo!Next \/ UNCHANGED <<QueueNext, QueueItems, QueueOut>>
<1> DEFINE n == QueueNext
           f == QueueFrom
<1>1. n \in Nat /\ f \in Nat /\ f <= n /\ QueueItems = Items(f, n - f)
  BY QueueHolds
<1>2. QueueItems' = Items(f', n' - f')
  <2>1. (QueueItems = Items(QueueFrom, QueueNext - QueueFrom))'
    BY QueueHolds, PTL
  <2> QED
    BY <2>1
<1>3. QueueStep(n, f, QueueOut, n', f', QueueOut')
  BY QueueSteps
<1>4. CASE n < nitems /\ n < f + NBUFF /\ n' = n + 1 /\ f' = f /\ QueueOut' = QueueOut
  <2>1. n - f \in Nat /\ f \in Int /\ n - f < NBUFF /\ f + (n - f) = n /\ n + 1 - f = (n - f) + 1
    BY <1>1, <1>4, ConstantFacts
  <2>2. Len(QueueItems) = n - f
    BY <1>1, <2>1, ItemsIsSeq
  <2>3. QueueItems' = Append(QueueItems, n)
    <3>1. Items(f, (n - f) + 1) = Append(Items(f, n - f), f + (n - f))
      <4> HIDE DEF n, f
      <4> QED
        BY <2>1, ItemsAppend
    <3> QED
      BY <1>1, <1>2, <1>4, <2>1, <3>1
  <2> QED
    BY <1>4, <2>1, <2>2, <2>3 DEF ManyFifo!Next, ManyFifo!Put
<1>5. CASE f < n /\ n' = n /\ f' = f + 1 /\ QueueOut' = f
  <2>1. n - f \in Nat \ {0} /\ f \in Int /\ n - (f + 1) = n - f - 1
    BY <1>1, <1>5
  <2>2. Head(Items(f, n - f)) = f /\ Tail(Items(f, n - f)) = Items(f + 1, n - f - 1)
    <3> HIDE DEF n, f
    <3> QED
      BY <2>1, ItemsTail
  <2>3. QueueItems # << >>
    BY <1>1, <2>1, ItemsIsSeq
  <2> QED
    BY <1>1, <1>2, <1>5, <2>1, <2>2, <2>3 DEF ManyFifo!Next, ManyFifo!Get
<1>6. CASE n' = n /\ f' = f /\ QueueOut' = QueueOut
  BY <1>1, <1>2, <1>6
<1> QED
  BY <1>3, <1>4, <1>5, <1>6 DEF QueueStep

LEMMA ManyFifoInit == ProgramsInit => ManyFifo!Init
<1> SUFFICES ASSUME ProgramsInit PROVE ManyFifo!Init
  OBVIOUS
<1>1. QueueItems = Items(QueueFrom, QueueNext - QueueFrom)
  BY InitInvariant, QueueHolds
<1>2. QueueNext = 0 /\ QueueFrom = 0 /\ QueueOut = -1
  <2>1. /\ prog = "prodcons3" => P3!Init
        /\ prog = "prodcons4" => P4!Init
        /\ prog = "mycat2" => Cat!Init
    BY DEF ProgramsInit, IsArray
  <2>2. CASE prog = "prodcons3"
    <3>1. nputval = 0 /\ i = 0 /\ pc[consumer] = "loop"
      BY <2>1, <2>2 DEF P3!Init, P3!Threads
    <3> QED
      BY <2>2, <3>1 DEF P3!Fetched, P3!LastOut, P3!NextItem, QueueNext, QueueFrom, QueueOut
  <2>3. CASE prog = "prodcons4"
    BY <2>1, <2>3 DEF P4!Init, P4!LastOut, P4!NextItem, QueueNext, QueueFrom, QueueOut
  <2>4. CASE prog = "mycat2"
    BY <2>1, <2>4 DEF Cat!Init, QueueNext, QueueFrom, QueueOut
  <2>5. CASE prog \notin {"prodcons3", "prodcons4", "mycat2"}
    BY <2>5 DEF QueueNext, QueueFrom, QueueOut
  <2> QED
    BY <2>2, <2>3, <2>4, <2>5
<1>3. Items(0, 0) = << >>
  BY ItemsIsSeq
<1> QED
  BY <1>1, <1>2, <1>3 DEF ManyFifo!Init

(***************************************************************************)
(* The buffers of prodcons3, prodcons4 and mycat2 are the same bounded     *)
(* queue, with any number of threads on either side (prodcons3.c:70-113,   *)
(* prodcons4.c:78-132, mycat2.c:65-107).                                   *)
(***************************************************************************)
THEOREM ManyRefinement == ProgramsSpec => ManyImplementFifo
<1>1. IInv /\ IInv' /\ [ProgramsNext]_pvars =>
        [ManyFifo!Next]_<<QueueNext, QueueItems, QueueOut>>
  BY ManyFifoStep
<1> QED
  BY <1>1, ManyFifoInit, Invariance, PTL
  DEF ProgramsSpec, ManyImplementFifo, ManyFifo!Spec
=============================================================================
