------------------------ MODULE OverflowBufferProofs ------------------------
(***************************************************************************)
(* The messages of OverflowBuffer add up, for any number of clients,       *)
(* messages and slots, and whenever the clients start.  The invariant says *)
(* who is inside noverflowmutex, that the count there is not stale, and    *)
(* where every slot is.  Then: a client that is alone has its messages     *)
(* printed in order, as OrderInv says which message is in which slot.      *)
(***************************************************************************)
EXTENDS OverflowBuffer, TotalsProofs

Starting == {"shm_open", "ftruncate", "init_mutex", "init_nempty", "init_nstored",
             "init_noverflowmutex"}
NoSlots  == {"shm_open", "ftruncate", "init_mutex", "init_nempty"}
Loop     == {"wait_nstored", "wait_mutex", "print", "post_mutex", "post_nempty",
             "wait_overflow", "post_overflow"}

SemTypes   == /\ mutex \in Nat /\ nempty \in Nat /\ nstored \in Nat
              /\ noverflowmutex \in {0, 1}
              /\ noverflow \in Nat /\ lost \in Nat /\ printed \in Nat
              /\ server \in Starting \cup Loop
ClientTypes == /\ DOMAIN pc = Clients
               /\ i \in [Clients -> Nat] /\ IsFiniteSet(Units(i))
               /\ temp \in [Clients -> Nat]

\* Between sem_wait and sem_post of noverflowmutex.
Counting(c) == pc[c] \in {"read_overflow", "add_overflow", "post_overflow"}

OverflowMutex ==
  /\ \A c \in Clients : Counting(c) => noverflowmutex = 0 /\ server # "post_overflow"
                                       /\ server \notin Starting
  /\ \A c, d \in Clients : Counting(c) /\ Counting(d) => c = d
  /\ server \in Starting \cup {"post_overflow"} => noverflowmutex = 0

CountIsCurrent == \A c \in Clients : pc[c] = "add_overflow" => temp[c] = noverflow

At(Places) == Cardinality({c \in Clients : pc[c] \in Places})

\* A slot is empty, stored, in the hands of a client or of the server, or lost.
HasSlot == {"wait_mutex", "reserve", "post_mutex", "copy", "post_nstored"}
ServerHasSlot == IF server \in {"wait_mutex", "print", "post_mutex", "post_nempty"}
                 THEN 1 ELSE 0
SlotsConserved ==
  /\ nempty + nstored + lost + At(HasSlot) + ServerHasSlot
       = IF server \in NoSlots THEN 0 ELSE NMESG
  /\ server \in NoSlots \cup {"init_nstored"} => lost = 0

\* Sent, but not counted in i yet or not printed yet.
Accounts ==
  Total(i) = (noverflow - At({"post_overflow"})) + (nstored + lost) + printed
             + IF server \in {"wait_mutex", "print"} THEN 1 ELSE 0

IInv == SemTypes /\ ClientTypes /\ OverflowMutex /\ CountIsCurrent /\ SlotsConserved /\ Accounts

-----------------------------------------------------------------------------
LEMMA AtIsNat == ASSUME NEW Places PROVE At(Places) \in Nat
<1>1. IsFiniteSet(Clients)
  BY OverflowAssumption
<1> QED
  BY <1>1, CountAt DEF At

LEMMA NobodyAt == ASSUME NEW Places, \A c \in Clients : pc[c] \notin Places PROVE At(Places) = 0
<1>1. IsFiniteSet(Clients)
  BY OverflowAssumption
<1> QED
  BY <1>1, CountAt DEF At

LEMMA ClientMoves ==
  ASSUME DOMAIN pc = Clients, NEW c \in Clients, NEW to, pc' = [pc EXCEPT ![c] = to]
  PROVE  /\ At(HasSlot) \in Nat /\ At({"post_overflow"}) \in Nat
         /\ At(HasSlot)' = At(HasSlot) + (IF to \in HasSlot THEN 1 ELSE 0)
                                       - (IF pc[c] \in HasSlot THEN 1 ELSE 0)
         /\ At({"post_overflow"})' = At({"post_overflow"}) + (IF to = "post_overflow" THEN 1 ELSE 0)
                                       - (IF pc[c] = "post_overflow" THEN 1 ELSE 0)
<1>1. IsFiniteSet(Clients) /\ Clients \subseteq Clients
  BY OverflowAssumption
<1>2. ASSUME NEW Places
      PROVE  Cardinality({d \in Clients : (pc')[d] \in Places}) =
               Cardinality({d \in Clients : pc[d] \in Places})
                 + (IF to \in Places THEN 1 ELSE 0) - (IF pc[c] \in Places THEN 1 ELSE 0)
  BY <1>1, CountMoves
<1>3. At(HasSlot)' = At(HasSlot) + (IF to \in HasSlot THEN 1 ELSE 0)
                                 - (IF pc[c] \in HasSlot THEN 1 ELSE 0)
  BY <1>2 DEF At, HasSlot
<1>4. At({"post_overflow"})' = At({"post_overflow"})
        + (IF to \in {"post_overflow"} THEN 1 ELSE 0)
        - (IF pc[c] \in {"post_overflow"} THEN 1 ELSE 0)
  BY <1>2 DEF At
<1> QED
  BY <1>3, <1>4, AtIsNat

LEMMA OneMoreSent ==
  ASSUME ClientTypes, NEW c \in Clients, i' = [i EXCEPT ![c] = i[c] + 1]
  PROVE  /\ i' \in [Clients -> Nat] /\ IsFiniteSet(Units(i'))
         /\ Total(i) \in Nat /\ Total(i') = Total(i) + 1
<1>1. i \in [Clients -> Nat] /\ IsFiniteSet(Units(i))
  BY DEF ClientTypes
<1>2. i' \in [Clients -> Nat] /\ OneMore(Clients, i, c, i')
  BY <1>1 DEF OneMore
<1> QED
  BY <1>1, <1>2, TotalPlusOne

LEMMA InitInvariant == Init => IInv
<1> SUFFICES ASSUME Init PROVE IInv
  OBVIOUS
<1> USE DEF Init
<1>0. \A c \in Clients : pc[c] = "open"
  OBVIOUS
<1>1. SemTypes
  BY DEF SemTypes, Starting, Loop
<1>2. ClientTypes /\ Total(i) = 0
  <2>1. i \in [Clients -> Nat] /\ \A c \in Clients : i[c] = 0
    OBVIOUS
  <2>2. IsFiniteSet(Units(i)) /\ Total(i) = 0
    BY <2>1, TotalOfNothing
  <2> QED
    BY <2>1, <2>2 DEF ClientTypes
<1>3. OverflowMutex /\ CountIsCurrent
  BY <1>0 DEF OverflowMutex, CountIsCurrent, Counting, Starting
<1>4. At(HasSlot) = 0 /\ At({"post_overflow"}) = 0
  <2>2. ASSUME NEW Places, "open" \notin Places PROVE At(Places) = 0
    <3>1. \A t \in Clients : pc[t] \notin Places
      BY <1>0, <2>2
    <3> QED
      BY <3>1, NobodyAt
  <2>3. "open" \notin HasSlot /\ "open" \notin {"post_overflow"}
    BY DEF HasSlot
  <2> QED
    BY <2>2, <2>3, Zenon
<1>5. SlotsConserved /\ Accounts
  BY <1>2, <1>4 DEF SlotsConserved, Accounts, ServerHasSlot, NoSlots
<1> QED
  BY <1>1, <1>2, <1>3, <1>5 DEF IInv

-----------------------------------------------------------------------------
(* The steps of a client *)

\* Up to the slot, and in it: neither count changes, nor who counts.
LEMMA QuietClientStep ==
  ASSUME IInv, NEW c \in Clients,
         Open(c) \/ BusError(c) \/ TrywaitFails(c) \/ WaitMutex(c) \/ Reserve(c)
           \/ PostMutex(c) \/ Copy(c)
  PROVE  IInv'
<1> USE DEF IInv
<1>1. /\ UNCHANGED <<nempty, nstored, noverflowmutex, noverflow, i, temp, server, lost, printed>>
      /\ mutex' \in Nat
  BY DEF Open, BusError, TrywaitFails, WaitMutex, Reserve, PostMutex, Copy, sems, output,
         SemWait, SemPost, SemTypes
<1>2. PICK to \in {"dead", "loop", "wait_overflow", "reserve", "post_mutex", "copy",
                   "post_nstored"} :
        pc' = [pc EXCEPT ![c] = to] /\ (pc[c] \in HasSlot <=> to \in HasSlot)
        /\ ~Counting(c)
  BY DEF Open, BusError, TrywaitFails, WaitMutex, Reserve, PostMutex, Copy, Goto, HasSlot, Counting
<1>3. SemTypes' /\ ClientTypes'
  BY <1>1, <1>2 DEF SemTypes, ClientTypes
<1>4. At(HasSlot)' = At(HasSlot) /\ At({"post_overflow"})' = At({"post_overflow"})
  <2>1. /\ At(HasSlot) \in Nat /\ At({"post_overflow"}) \in Nat
        /\ At(HasSlot)' = At(HasSlot) + (IF to \in HasSlot THEN 1 ELSE 0)
                                      - (IF pc[c] \in HasSlot THEN 1 ELSE 0)
        /\ At({"post_overflow"})' = At({"post_overflow"}) + (IF to = "post_overflow" THEN 1 ELSE 0)
                                      - (IF pc[c] = "post_overflow" THEN 1 ELSE 0)
    BY <1>2, ClientMoves, Zenon DEF ClientTypes
  <2> QED
    BY <1>2, <2>1 DEF Counting
<1>5. \A d \in Clients : Counting(d)' = Counting(d)
  BY <1>2 DEF ClientTypes, Counting
<1>6. OverflowMutex'
  BY <1>1, <1>5 DEF OverflowMutex
<1>7. CountIsCurrent'
  BY <1>1, <1>2 DEF ClientTypes, CountIsCurrent
<1>8. SlotsConserved' /\ Accounts'
  BY <1>1, <1>4 DEF SlotsConserved, Accounts, ServerHasSlot
<1> QED
  BY <1>3, <1>6, <1>7, <1>8

LEMMA TakesSlot == ASSUME IInv, NEW c \in Clients, TrywaitSlot(c) PROVE IInv'
<1> USE DEF IInv
<1>1. /\ UNCHANGED <<mutex, nstored, noverflowmutex, noverflow, i, temp, server, lost, printed>>
      /\ pc[c] = "loop" /\ pc' = [pc EXCEPT ![c] = "wait_mutex"]
      /\ nempty > 0 /\ nempty' = nempty - 1
  BY DEF TrywaitSlot, Goto, output, SemWait
<1>2. SemTypes' /\ ClientTypes'
  BY <1>1 DEF SemTypes, ClientTypes
<1>3. \A d \in Clients : Counting(d)' = Counting(d)
  BY <1>1 DEF ClientTypes, Counting
<1>4. OverflowMutex' /\ CountIsCurrent'
  BY <1>1, <1>3 DEF OverflowMutex, ClientTypes, CountIsCurrent
<1>5. /\ At(HasSlot) \in Nat /\ At({"post_overflow"}) \in Nat
      /\ At(HasSlot)' = At(HasSlot) + (IF "wait_mutex" \in HasSlot THEN 1 ELSE 0)
                                    - (IF pc[c] \in HasSlot THEN 1 ELSE 0)
      /\ At({"post_overflow"})' = At({"post_overflow"})
           + (IF "wait_mutex" = "post_overflow" THEN 1 ELSE 0)
           - (IF pc[c] = "post_overflow" THEN 1 ELSE 0)
  BY <1>1, ClientMoves, Zenon DEF ClientTypes
<1>6. At(HasSlot)' = At(HasSlot) + 1 /\ At({"post_overflow"})' = At({"post_overflow"})
  BY <1>1, <1>5 DEF HasSlot
<1>7. SlotsConserved' /\ Accounts'
  BY <1>1, <1>5, <1>6 DEF SemTypes, SlotsConserved, Accounts, ServerHasSlot
<1> QED
  BY <1>2, <1>4, <1>7

\* A client is done with a message: it has put it, or it has counted it.
LEMMA PostsMessage == ASSUME IInv, NEW c \in Clients, PostStored(c) PROVE IInv'
<1> USE DEF IInv
<1>1. /\ UNCHANGED <<mutex, nempty, noverflowmutex, noverflow, temp, server, lost, printed>>
      /\ pc[c] = "post_nstored" /\ pc' = [pc EXCEPT ![c] = "loop"]
      /\ nstored' = nstored + 1 /\ i' = [i EXCEPT ![c] = i[c] + 1]
  BY DEF PostStored, Goto, output, SemPost
<1>2. /\ i' \in [Clients -> Nat] /\ IsFiniteSet(Units(i'))
      /\ Total(i) \in Nat /\ Total(i') = Total(i) + 1
  BY <1>1, OneMoreSent
<1>3. SemTypes' /\ ClientTypes'
  BY <1>1, <1>2 DEF SemTypes, ClientTypes
<1>4. \A d \in Clients : Counting(d)' = Counting(d)
  BY <1>1 DEF ClientTypes, Counting
<1>5. OverflowMutex' /\ CountIsCurrent'
  BY <1>1, <1>4 DEF OverflowMutex, ClientTypes, CountIsCurrent
<1>6. /\ At(HasSlot) \in Nat /\ At({"post_overflow"}) \in Nat
      /\ At(HasSlot)' = At(HasSlot) + (IF "loop" \in HasSlot THEN 1 ELSE 0)
                                    - (IF pc[c] \in HasSlot THEN 1 ELSE 0)
      /\ At({"post_overflow"})' = At({"post_overflow"})
           + (IF "loop" = "post_overflow" THEN 1 ELSE 0)
           - (IF pc[c] = "post_overflow" THEN 1 ELSE 0)
  BY <1>1, ClientMoves, Zenon DEF ClientTypes
<1>7. At(HasSlot)' = At(HasSlot) - 1 /\ At({"post_overflow"})' = At({"post_overflow"})
  BY <1>1, <1>6 DEF HasSlot
<1>8. SlotsConserved' /\ Accounts'
  BY <1>1, <1>2, <1>6, <1>7 DEF SemTypes, SlotsConserved, Accounts, ServerHasSlot
<1> QED
  BY <1>3, <1>5, <1>8

\* Into, through and out of noverflowmutex.
LEMMA CountsOverflow ==
  ASSUME IInv, NEW c \in Clients, WaitOverflow(c) \/ ReadOverflow(c) \/ AddOverflow(c)
  PROVE  IInv'
<1> USE DEF IInv
<1>1. UNCHANGED <<mutex, nempty, nstored, i, server, lost, printed>>
  BY DEF WaitOverflow, ReadOverflow, AddOverflow, sems, output
<1>2. PICK from \in {"wait_overflow", "read_overflow", "add_overflow"},
           to \in {"read_overflow", "add_overflow", "post_overflow"} :
        /\ pc[c] = from /\ pc' = [pc EXCEPT ![c] = to]
        /\ to = "read_overflow" <=> from = "wait_overflow"
        /\ to = "post_overflow" <=> from = "add_overflow"
        /\ to = "add_overflow" <=> from = "read_overflow"
        /\ from = "wait_overflow" => /\ noverflowmutex > 0 /\ noverflowmutex' = noverflowmutex - 1
                                     /\ UNCHANGED <<noverflow, temp>>
        /\ from = "read_overflow" => /\ temp' = [temp EXCEPT ![c] = noverflow]
                                     /\ UNCHANGED <<noverflow, noverflowmutex>>
        /\ from = "add_overflow" => /\ noverflow' = temp[c] + 1
                                    /\ UNCHANGED <<noverflowmutex, temp>>
  BY DEF WaitOverflow, ReadOverflow, AddOverflow, Goto, TakeOverflowMutex, SemWait, sems
<1>3. SemTypes'
  BY <1>1, <1>2 DEF SemTypes, ClientTypes
<1>4. ClientTypes'
  BY <1>1, <1>2 DEF SemTypes, ClientTypes
<1>5. /\ \A d \in Clients \ {c} : (pc')[d] = pc[d] /\ (temp')[d] = temp[d]
      /\ (pc')[c] = to
  BY <1>2 DEF ClientTypes
<1>6. /\ \A d \in Clients : Counting(d) /\ d # c => pc[c] = "wait_overflow" /\ noverflowmutex = 0
      /\ noverflowmutex' = 0 /\ server' \notin Starting \cup {"post_overflow"}
      /\ \A d \in Clients \ {c} : ~Counting(d)
  BY <1>1, <1>2 DEF OverflowMutex, Counting, SemTypes
<1>7. OverflowMutex'
  BY <1>5, <1>6 DEF OverflowMutex, Counting
<1>8. CountIsCurrent'
  <2>1. (pc')[c] = "add_overflow" => (temp')[c] = noverflow'
    BY <1>2, <1>5 DEF ClientTypes
  <2> QED
    BY <1>5, <1>6, <2>1 DEF CountIsCurrent, Counting
<1>9. /\ At(HasSlot) \in Nat /\ At({"post_overflow"}) \in Nat
      /\ At(HasSlot)' = At(HasSlot) + (IF to \in HasSlot THEN 1 ELSE 0)
                                    - (IF pc[c] \in HasSlot THEN 1 ELSE 0)
      /\ At({"post_overflow"})' = At({"post_overflow"})
           + (IF to = "post_overflow" THEN 1 ELSE 0)
           - (IF pc[c] = "post_overflow" THEN 1 ELSE 0)
  BY <1>2, ClientMoves, Zenon DEF ClientTypes
<1>10. /\ At(HasSlot)' = At(HasSlot)
       /\ At({"post_overflow"})' =
            At({"post_overflow"}) + IF pc[c] = "add_overflow" THEN 1 ELSE 0
  BY <1>2, <1>9 DEF HasSlot
<1>11. noverflow \in Nat /\ noverflow' = noverflow + IF pc[c] = "add_overflow" THEN 1 ELSE 0
  <2>1. pc[c] = "add_overflow" => temp[c] = noverflow
    BY DEF CountIsCurrent
  <2> QED
    BY <1>2, <2>1 DEF SemTypes
<1>12. SlotsConserved'
  BY <1>1, <1>10 DEF SlotsConserved, ServerHasSlot
<1>13. Accounts'
  <2>1. noverflow' - At({"post_overflow"})' = noverflow - At({"post_overflow"})
    BY <1>9, <1>10, <1>11
  <2> QED
    BY <1>1, <2>1 DEF Accounts
<1> QED
  BY <1>3, <1>4, <1>7, <1>8, <1>12, <1>13

LEMMA CountedOverflow == ASSUME IInv, NEW c \in Clients, PostOverflow(c) PROVE IInv'
<1> USE DEF IInv
<1>1. /\ UNCHANGED <<mutex, nempty, nstored, noverflow, temp, server, lost, printed>>
      /\ pc[c] = "post_overflow" /\ pc' = [pc EXCEPT ![c] = "loop"]
      /\ noverflowmutex' = noverflowmutex + 1 /\ i' = [i EXCEPT ![c] = i[c] + 1]
  BY DEF PostOverflow, Goto, output, SemPost
<1>2. /\ i' \in [Clients -> Nat] /\ IsFiniteSet(Units(i'))
      /\ Total(i) \in Nat /\ Total(i') = Total(i) + 1
  BY <1>1, OneMoreSent
<1>3. Counting(c) /\ noverflowmutex = 0 /\ server \notin Starting \cup {"post_overflow"}
  BY <1>1 DEF Counting, OverflowMutex
<1>4. SemTypes' /\ ClientTypes'
  BY <1>1, <1>2, <1>3 DEF SemTypes, ClientTypes
<1>5. \A d \in Clients : ~Counting(d)'
  BY <1>1, <1>3 DEF ClientTypes, Counting, OverflowMutex
<1>6. OverflowMutex' /\ CountIsCurrent'
  BY <1>1, <1>3, <1>5 DEF OverflowMutex, CountIsCurrent, Counting
<1>7. /\ At(HasSlot) \in Nat /\ At({"post_overflow"}) \in Nat
      /\ At(HasSlot)' = At(HasSlot) + (IF "loop" \in HasSlot THEN 1 ELSE 0)
                                    - (IF pc[c] \in HasSlot THEN 1 ELSE 0)
      /\ At({"post_overflow"})' = At({"post_overflow"})
           + (IF "loop" = "post_overflow" THEN 1 ELSE 0)
           - (IF pc[c] = "post_overflow" THEN 1 ELSE 0)
  BY <1>1, ClientMoves, Zenon DEF ClientTypes
<1>8. At(HasSlot)' = At(HasSlot) /\ At({"post_overflow"})' = At({"post_overflow"}) - 1
  BY <1>1, <1>7 DEF HasSlot
<1>9. SlotsConserved' /\ Accounts'
  BY <1>1, <1>2, <1>7, <1>8 DEF SemTypes, SlotsConserved, Accounts, ServerHasSlot
<1> QED
  BY <1>4, <1>6, <1>9

LEMMA ClientStep == ASSUME IInv, NEW c \in Clients, Client(c) PROVE IInv'
BY QuietClientStep, TakesSlot, PostsMessage, CountsOverflow, CountedOverflow, Zenon DEF Client

-----------------------------------------------------------------------------
(* The steps of the server *)

\* What the clients and the counts have of a step of the server that leaves the
\* clients alone.
LEMMA ServerFrame ==
  ASSUME IInv, UNCHANGED clients
  PROVE  /\ ClientTypes' /\ CountIsCurrent' /\ noverflow' = noverflow /\ Total(i)' = Total(i)
         /\ \A c \in Clients : Counting(c)' = Counting(c)
         /\ At(HasSlot) \in Nat /\ At({"post_overflow"}) \in Nat
         /\ At(HasSlot)' = At(HasSlot) /\ At({"post_overflow"})' = At({"post_overflow"})
<1>1. UNCHANGED <<pc, i, temp, noverflow>>
  BY DEF clients
<1> QED
  BY <1>1, AtIsNat DEF IInv, ClientTypes, CountIsCurrent, Counting, At

LEMMA ServerStarts ==
  ASSUME IInv, MakeObject \/ InitMutex \/ InitEmpty \/ InitStored
  PROVE  IInv'
<1> USE DEF IInv
<1>1. UNCHANGED clients /\ UNCHANGED <<noverflowmutex, printed>>
  BY DEF MakeObject, InitMutex, InitEmpty, InitStored, sems, output
<1>0. /\ ClientTypes' /\ CountIsCurrent' /\ noverflow' = noverflow /\ Total(i)' = Total(i)
      /\ \A c \in Clients : Counting(c)' = Counting(c)
      /\ At(HasSlot) \in Nat /\ At({"post_overflow"}) \in Nat
      /\ At(HasSlot)' = At(HasSlot) /\ At({"post_overflow"})' = At({"post_overflow"})
  BY <1>1, ServerFrame
<1> USE <1>0
<1>2. server \in Starting /\ server' \in Starting
  BY DEF MakeObject, InitMutex, InitEmpty, InitStored, ServerGoto, Starting
<1>3. SemTypes'
  BY <1>1, <1>2, OverflowAssumption
     DEF SemTypes, MakeObject, InitMutex, InitEmpty, InitStored, sems, output
<1>4. OverflowMutex'
  BY <1>1, <1>2 DEF OverflowMutex
<1>5. SlotsConserved'
  <2>1. CASE MakeObject \/ InitMutex
    <3>1. /\ server \in NoSlots /\ server' \in NoSlots
          /\ UNCHANGED <<nempty, nstored, lost>>
      BY <2>1 DEF MakeObject, InitMutex, ServerGoto, sems, output, NoSlots
    <3>2. At(HasSlot)' = At(HasSlot)
      BY <1>1
    <3> QED
      BY <3>1, <3>2 DEF SlotsConserved, ServerHasSlot, NoSlots
  <2>2. CASE InitEmpty
    <3>1. /\ server = "init_nempty" /\ server' = "init_nstored" /\ nempty' = NMESG
          /\ UNCHANGED <<nstored, lost>>
      BY <2>2 DEF InitEmpty, ServerGoto, output
    <3>2. /\ nempty \in Nat /\ nstored \in Nat /\ lost \in Nat /\ At(HasSlot) \in Nat
          /\ At(HasSlot)' = At(HasSlot)
      BY <1>1 DEF SemTypes
    <3>3. nempty + nstored + lost + At(HasSlot) = 0 /\ lost = 0
      BY <3>1, <3>2 DEF SlotsConserved, ServerHasSlot, NoSlots
    <3>4. nstored = 0 /\ At(HasSlot) = 0
      BY <3>2, <3>3
    <3> QED
      BY <3>1, <3>2, <3>3, <3>4, OverflowAssumption DEF SlotsConserved, ServerHasSlot, NoSlots
  <2>3. CASE InitStored
    BY <1>1, <2>3, OverflowAssumption
       DEF InitStored, ServerGoto, SemTypes, SlotsConserved, ServerHasSlot, NoSlots
  <2> QED
    BY <2>1, <2>2, <2>3
<1>6. nstored' + lost' = nstored + lost
  BY <1>5 DEF MakeObject, InitMutex, InitEmpty, InitStored, ServerGoto, sems, output, SemTypes,
              SlotsConserved, NoSlots
<1>7. Accounts'
  <2>1. server \notin {"wait_mutex", "print"} /\ server' \notin {"wait_mutex", "print"}
    BY <1>2 DEF Starting
  <2>2. nstored' + lost' \in Nat /\ noverflow \in Nat /\ printed \in Nat
    BY <1>6 DEF SemTypes
  <2>3. nstored \in Nat /\ lost \in Nat /\ nstored' \in Nat /\ lost' \in Nat
    BY <1>3 DEF SemTypes
  <2>4. /\ noverflow' = noverflow /\ printed' = printed /\ Total(i)' = Total(i)
        /\ At({"post_overflow"}) \in Nat /\ At({"post_overflow"})' = At({"post_overflow"})
    BY <1>1
  <2> QED
    BY <1>6, <2>1, <2>2, <2>3, <2>4 DEF Accounts
<1> QED
  BY <1>1, <1>3, <1>4, <1>5, <1>7

LEMMA ServerOpensCount == ASSUME IInv, InitOverflowMutex PROVE IInv'
<1> USE DEF IInv
<1>1. /\ UNCHANGED clients /\ UNCHANGED <<mutex, nempty, nstored, printed, lost>>
      /\ server = "init_noverflowmutex" /\ server' = "wait_nstored" /\ noverflowmutex' = 1
  BY DEF InitOverflowMutex, ServerGoto
<1> USE ServerFrame
<1>2. SemTypes'
  BY <1>1 DEF SemTypes, clients, Loop
<1>3. OverflowMutex'
  BY <1>1 DEF OverflowMutex, Starting
<1>4. SlotsConserved' /\ Accounts'
  BY <1>1 DEF SemTypes, SlotsConserved, Accounts, ServerHasSlot, NoSlots
<1> QED
  BY <1>1, <1>2, <1>3, <1>4

LEMMA ServerTakesMessage ==
  ASSUME IInv, ServerWaitStored \/ ServerWaitMutex \/ PrintMessage \/ ServerPostMutex
               \/ ServerPostEmpty
  PROVE  IInv'
<1> USE DEF IInv
<1>1. UNCHANGED clients /\ UNCHANGED <<noverflowmutex, lost>>
  BY DEF ServerWaitStored, ServerWaitMutex, PrintMessage, ServerPostMutex, ServerPostEmpty,
         sems, output
<1> USE ServerFrame
<1>2. server \notin Starting \cup {"post_overflow"} /\ server' \in Loop \ {"post_overflow"}
  BY DEF ServerWaitStored, ServerWaitMutex, PrintMessage, ServerPostMutex, ServerPostEmpty,
         ServerGoto, Starting, Loop
<1>3. SemTypes'
  BY <1>1, <1>2 DEF SemTypes, ServerWaitStored, ServerWaitMutex, PrintMessage, ServerPostMutex,
                    ServerPostEmpty, sems, output, SemWait, SemPost
<1>4. server' \notin Starting \cup {"post_overflow"}
  BY <1>2 DEF Starting, Loop
<1>5. OverflowMutex'
  BY <1>1, <1>4 DEF OverflowMutex
<1>6. SlotsConserved' /\ Accounts'
  <2>1. CASE ServerWaitStored
    BY <1>1, <2>1 DEF ServerWaitStored, ServerGoto, SemWait, output, SemTypes, SlotsConserved,
                      Accounts, ServerHasSlot, NoSlots
  <2>2. CASE ServerWaitMutex \/ ServerPostMutex
    BY <1>1, <2>2 DEF ServerWaitMutex, ServerPostMutex, ServerGoto, output, SemTypes,
                      SlotsConserved, Accounts, ServerHasSlot, NoSlots
  <2>3. CASE PrintMessage
    BY <1>1, <2>3 DEF PrintMessage, ServerGoto, sems, SemTypes, SlotsConserved, Accounts,
                      ServerHasSlot, NoSlots
  <2>4. CASE ServerPostEmpty
    BY <1>1, <2>4 DEF ServerPostEmpty, ServerGoto, SemPost, output, SemTypes, SlotsConserved,
                      Accounts, ServerHasSlot, NoSlots
  <2> QED
    BY <2>1, <2>2, <2>3, <2>4
<1> QED
  BY <1>1, <1>3, <1>5, <1>6

LEMMA ServerReadsCount == ASSUME IInv, ServerWaitOverflow \/ ServerPostOverflow PROVE IInv'
<1> USE DEF IInv
<1>1. UNCHANGED clients /\ UNCHANGED <<mutex, nempty, nstored, lost, printed>>
  BY DEF ServerWaitOverflow, ServerPostOverflow, output
<1> USE ServerFrame
<1>2. \/ /\ server = "wait_overflow" /\ server' = "post_overflow"
         /\ noverflowmutex = 1 /\ noverflowmutex' = 0
      \/ /\ server = "post_overflow" /\ server' = "wait_nstored"
         /\ noverflowmutex = 0 /\ noverflowmutex' = 1
  BY DEF ServerWaitOverflow, ServerPostOverflow, ServerGoto, SemWait, SemPost, SemTypes,
         OverflowMutex
<1>3. SemTypes'
  BY <1>1, <1>2 DEF SemTypes, Loop, clients
<1>4. \A c \in Clients : ~Counting(c)
  BY <1>2 DEF OverflowMutex
<1>5. OverflowMutex'
  BY <1>1, <1>2, <1>4 DEF OverflowMutex, Starting
<1>6. SlotsConserved' /\ Accounts'
  BY <1>1, <1>2 DEF SemTypes, SlotsConserved, Accounts, ServerHasSlot, NoSlots
<1> QED
  BY <1>1, <1>3, <1>5, <1>6

LEMMA NextInvariant == IInv /\ [Next]_vars => IInv'
<1> SUFFICES ASSUME IInv, [Next]_vars PROVE IInv'
  OBVIOUS
<1>1. CASE Server
  BY <1>1, ServerStarts, ServerOpensCount, ServerTakesMessage, ServerReadsCount DEF Server
<1>2. CASE \E c \in Clients : Client(c)
  BY <1>2, ClientStep
<1>3. CASE UNCHANGED vars
  <2>1. UNCHANGED clients /\ UNCHANGED sems /\ UNCHANGED server /\ UNCHANGED output
    BY <1>3 DEF vars
  <2>2. UNCHANGED <<mutex, nempty, nstored, noverflowmutex, noverflow, lost, printed, server>>
    BY <2>1 DEF clients, sems, output
  <2> QED
    BY <2>1, <2>2, ServerFrame
       DEF IInv, SemTypes, OverflowMutex, SlotsConserved, Accounts, ServerHasSlot
<1> QED
  BY <1>1, <1>2, <1>3 DEF Next

(***************************************************************************)
(* The inductive invariant: the count of overflows is never stale in the   *)
(* hands of a client that adds to it (client2.c:39-41), and no slot is     *)
(* both free and taken or neither (client2.c:38-54, server2.c:29-47).      *)
(***************************************************************************)
THEOREM Invariance == Spec => []IInv
<1> QED
  BY InitInvariant, NextInvariant, PTL DEF Spec

(***************************************************************************)
(* Whatever their number, and however early they start, every message the  *)
(* clients are done with has been printed, waits in the buffer, is in the  *)
(* overflow count, or was put before the sem_init of nstored that undid    *)
(* its post (server2.c:32); the last are no more than there are slots.     *)
(***************************************************************************)
THEOREM MessagesAccountedFor == Spec => []EachSentOrCounted
<1>1. ASSUME IInv PROVE EachSentOrCounted
  <2>1. lost <= NMESG
    BY <1>1, AtIsNat, OverflowAssumption DEF IInv, SemTypes, SlotsConserved, ServerHasSlot
  <2>2. At({"post_overflow"}) = Cardinality({c \in Clients : pc[c] = "post_overflow"})
    <3>1. {c \in Clients : pc[c] \in {"post_overflow"}} = {c \in Clients : pc[c] = "post_overflow"}
      OBVIOUS
    <3> QED
      BY <3>1, Zenon DEF At
  <2> QED
    BY <1>1, <2>1, <2>2, Zenon DEF EachSentOrCounted, IInv, Accounts, Sent
<1> QED
  BY <1>1, Invariance, PTL

-----------------------------------------------------------------------------
(* The order of the messages of a client that is alone *)

OnlyFrom(c) == \A d \in Clients \ {c} : nloop[d] = 0

\* The slots in the order the server will print them in.
Slot(k) == IF index + k < NMESG THEN index + k ELSE index + k - NMESG
Number(k) == msgdata[Slot(k)][2]

\* Messages for the server: posted, or posted and forgotten, or about to be printed.
Waiting     == nstored + lost + IF server \in {"wait_mutex", "print"} THEN 1 ELSE 0
Putting(c)  == pc[c] \in {"post_mutex", "copy", "post_nstored"}
Reserved(c) == Waiting + IF Putting(c) THEN 1 ELSE 0
Stored(c)   == Waiting + IF pc[c] = "post_nstored" THEN 1 ELSE 0
Numbers(c)  == i[c] + IF pc[c] = "post_nstored" THEN 1 ELSE 0

\* nput is NMESG slots ahead of index at most, and offset is the last slot taken.
SlotsInTurn(c) == /\ index \in 0..NMESG-1 /\ nput = Slot(Reserved(c))
                  /\ DOMAIN offset = Clients
                  /\ Putting(c) => offset[c] = Slot(Waiting)
Rising(c) == /\ DOMAIN msgdata = 0..NMESG-1
             /\ shown[2] \in Int /\ shown[2] < Numbers(c)
             /\ \A k \in 0..Stored(c)-1 : /\ Number(k) \in Int
                                          /\ shown[2] < Number(k) /\ Number(k) < Numbers(c)
             /\ \A j, k \in 0..Stored(c)-1 : j < k => Number(j) < Number(k)

Ordered(c) == /\ \A d \in Clients \ {c} : pc[d] = "open"
              /\ SlotsInTurn(c) /\ Rising(c)
OrderInv == \A c \in Clients : OnlyFrom(c) => Ordered(c)

LEMMA InitOrdered == Init => OrderInv
<1> SUFFICES ASSUME Init, NEW c \in Clients PROVE Ordered(c)
  BY DEF OrderInv
<1>1. /\ Waiting = 0 /\ ~Putting(c) /\ Reserved(c) = 0 /\ Stored(c) = 0 /\ Numbers(c) = 0
      /\ pc = [d \in Clients |-> "open"] /\ index = 0 /\ nput = 0
      /\ DOMAIN offset = Clients /\ DOMAIN msgdata = 0..NMESG-1 /\ shown[2] = -1
  BY DEF Init, Waiting, Putting, Reserved, Stored, Numbers, NoMessage
<1>2. SlotsInTurn(c)
  BY <1>1, OverflowAssumption DEF SlotsInTurn, Slot
<1>3. Rising(c)
  BY <1>1 DEF Rising
<1> QED
  BY <1>1, <1>2, <1>3 DEF Ordered

\* What the counts say of a client that is alone: the slots it and the server
\* have are different ones.
LEMMA OneClientHas ==
  ASSUME IInv, NEW c \in Clients, \A d \in Clients \ {c} : pc[d] = "open"
  PROVE  /\ Waiting \in Nat /\ i[c] \in Nat
         /\ Waiting + (IF pc[c] \in HasSlot THEN 1 ELSE 0) <= NMESG
<1>1. nempty \in Nat /\ nstored \in Nat /\ lost \in Nat /\ i[c] \in Nat /\ NMESG \in Nat
  BY OverflowAssumption DEF IInv, SemTypes, ClientTypes
<1>2. At(HasSlot) = IF pc[c] \in HasSlot THEN 1 ELSE 0
  <2>1. {d \in Clients : pc[d] \in HasSlot} = IF pc[c] \in HasSlot THEN {c} ELSE {}
    BY DEF HasSlot
  <2>2. Cardinality({c}) = 1 /\ Cardinality({}) = 0
    BY FS_Singleton, FS_EmptySet
  <2> QED
    BY <2>1, <2>2 DEF At
<1>3. nempty + nstored + lost + At(HasSlot) + ServerHasSlot <= NMESG
  BY <1>1 DEF IInv, SlotsConserved
<1> QED
  BY <1>1, <1>2, <1>3 DEF Waiting, ServerHasSlot

\* A step that puts no message and takes none leaves the order alone.
LEMMA OrderKept ==
  ASSUME NEW c \in Clients, Ordered(c), Waiting \in Nat, i[c] \in Nat, Numbers(c)' \in Nat,
         UNCHANGED <<index, nput, msgdata, shown, offset>>,
         Reserved(c)' = Reserved(c), Stored(c)' = Stored(c), Numbers(c)' >= Numbers(c),
         Putting(c)' => Putting(c) /\ Waiting' = Waiting,
         \A d \in Clients \ {c} : pc[d]' = pc[d]
  PROVE  Ordered(c)'
<1>1. \A d \in Clients \ {c} : (pc[d])' = "open"
  BY DEF Ordered
<1>2. (\A k : Slot(k)' = Slot(k)) /\ (\A k : Number(k)' = Number(k))
  BY DEF Slot, Number
<1>3. SlotsInTurn(c)'
  BY <1>2 DEF Ordered, SlotsInTurn
<1>4. Rising(c)'
  <2>1. Numbers(c) \in Nat /\ Stored(c) \in Nat
    BY DEF Numbers, Stored
  <2>2. /\ DOMAIN msgdata' = 0..NMESG-1
        /\ shown'[2] \in Int /\ shown'[2] < Numbers(c)'
    BY <2>1 DEF Ordered, Rising
  <2>3. ASSUME NEW k \in 0..Stored(c)-1
        PROVE  Number(k)' \in Int /\ shown'[2] < Number(k)' /\ Number(k)' < Numbers(c)'
    BY <1>2, <2>1, <2>3 DEF Ordered, Rising
  <2>4. \A j, k \in 0..Stored(c)-1 : j < k => Number(j)' < Number(k)'
    BY <1>2 DEF Ordered, Rising
  <2> QED
    BY <2>2, <2>3, <2>4 DEF Rising
<1> QED
  BY <1>1, <1>3, <1>4 DEF Ordered

\* The steps of the client before and after its copy; a step that counts an
\* overflow leaves out the number of the message.
LEMMA ClientKeepsOrder ==
  ASSUME IInv, NEW c \in Clients, Ordered(c), Client(c), ~Reserve(c), ~Copy(c)
  PROVE  Ordered(c)'
<1>1. Waiting \in Nat /\ i[c] \in Nat
  BY OneClientHas DEF Ordered
<1>2. UNCHANGED <<index, nput, msgdata, shown, offset, server, lost>> 
  BY DEF Client, Open, BusError, TrywaitSlot, TrywaitFails, WaitMutex, PostMutex, PostStored,
         WaitOverflow, ReadOverflow, AddOverflow, PostOverflow, output
<1>3. PICK to \in {"dead", "loop", "wait_mutex", "wait_overflow", "reserve", "copy",
                   "read_overflow", "add_overflow", "post_overflow"} :
        pc' = [pc EXCEPT ![c] = to] /\ (to = "copy" <=> pc[c] = "post_mutex")
        /\ pc[c] # "copy"
  BY DEF Client, Open, BusError, TrywaitSlot, TrywaitFails, WaitMutex, PostMutex, PostStored,
         WaitOverflow, ReadOverflow, AddOverflow, PostOverflow, Goto
<1>4. (pc')[c] = to /\ \A d \in Clients \ {c} : (pc')[d] = pc[d]
  BY <1>3 DEF IInv, ClientTypes
<1>5. CASE PostStored(c)
  <2>1. /\ nstored' = nstored + 1 /\ (i')[c] = i[c] + 1
        /\ pc[c] = "post_nstored" /\ (pc')[c] = "loop"
    BY <1>4, <1>5 DEF PostStored, Goto, SemPost, IInv, ClientTypes
  <2>2. nstored \in Nat /\ lost \in Nat
    BY DEF IInv, SemTypes
  <2>3. /\ Waiting' = Waiting + 1 /\ Putting(c) /\ ~Putting(c)'
        /\ Reserved(c)' = Reserved(c) /\ Stored(c)' = Stored(c) /\ Numbers(c)' = Numbers(c)
        /\ Numbers(c) \in Nat
    BY <1>1, <1>2, <2>1, <2>2 DEF Waiting, Putting, Reserved, Stored, Numbers
  <2> QED
    BY <1>1, <1>2, <1>4, <2>3, OrderKept
<1>6. CASE ~PostStored(c)
  <2>1. nstored' = nstored /\ (i' = i \/ i' = [i EXCEPT ![c] = i[c] + 1])
        /\ pc[c] # "post_nstored"
    BY <1>6 DEF Client, Open, BusError, TrywaitSlot, TrywaitFails, WaitMutex, Reserve, Copy,
         PostMutex, WaitOverflow, ReadOverflow, AddOverflow, PostOverflow, sems, Goto
  <2>2. (i')[c] \in Nat /\ (i')[c] >= i[c]
    BY <1>1, <2>1 DEF IInv, ClientTypes
  <2>3. Waiting' = Waiting /\ Putting(c)' = Putting(c)
    BY <1>2, <1>3, <1>4, <2>1 DEF Waiting, Putting
  <2>4. /\ Reserved(c)' = Reserved(c) /\ Stored(c)' = Stored(c)
        /\ Numbers(c)' = (i')[c] /\ Numbers(c) = i[c]
    BY <1>1, <1>3, <1>4, <2>1, <2>2, <2>3 DEF Reserved, Stored, Numbers
  <2> QED
    BY <1>1, <1>2, <1>4, <2>2, <2>3, <2>4, OrderKept
<1> QED
  BY <1>5, <1>6

LEMMA ReserveKeepsOrder ==
  ASSUME IInv, NEW c \in Clients, Ordered(c), Reserve(c)
  PROVE  Ordered(c)'
<1>1. /\ pc[c] = "reserve" /\ pc' = [pc EXCEPT ![c] = "post_mutex"]
      /\ offset' = [offset EXCEPT ![c] = nput] /\ nput' = NextSlot(nput)
      /\ UNCHANGED <<index, msgdata, shown, server, lost, nstored, i>>
  BY DEF Reserve, Goto, sems, output
<1>2. (pc')[c] = "post_mutex" /\ \A d \in Clients \ {c} : (pc')[d] = "open"
  BY <1>1 DEF IInv, ClientTypes, Ordered
<1>3. Waiting \in Nat /\ i[c] \in Nat /\ Waiting + 1 <= NMESG /\ NMESG \in Nat
  BY <1>1, OneClientHas, OverflowAssumption DEF Ordered, HasSlot
<1>4. /\ Waiting' = Waiting /\ Putting(c)' /\ ~Putting(c)
      /\ Reserved(c) = Waiting /\ Reserved(c)' = Waiting + 1
      /\ Stored(c)' = Stored(c) /\ Numbers(c)' = Numbers(c)
  BY <1>1, <1>2, <1>3 DEF Waiting, Putting, Reserved, Stored, Numbers
<1>5. (\A k : Slot(k)' = Slot(k)) /\ (\A k : Number(k)' = Number(k))
  BY <1>1 DEF Slot, Number
<1>6. SlotsInTurn(c)'
  <2>1. index \in 0..NMESG-1 /\ nput = Slot(Waiting) /\ DOMAIN offset = Clients
    BY <1>4 DEF Ordered, SlotsInTurn
  <2>2. nput' = Slot(Waiting + 1)
    BY <1>1, <1>3, <2>1 DEF Slot, NextSlot
  <2>3. (offset')[c] = Slot(Waiting) /\ DOMAIN offset' = Clients
    BY <1>1, <2>1
  <2> QED
    BY <1>1, <1>4, <1>5, <2>1, <2>2, <2>3 DEF SlotsInTurn
<1>7. Rising(c)'
  BY <1>1, <1>4, <1>5 DEF Ordered, Rising
<1> QED
  BY <1>2, <1>6, <1>7 DEF Ordered

\* The message that is copied has the highest number, and the slot is not one
\* of those that wait.
LEMMA CopyKeepsOrder ==
  ASSUME IInv, NEW c \in Clients, Ordered(c), Copy(c)
  PROVE  Ordered(c)'
<1>1. /\ pc[c] = "copy" /\ pc' = [pc EXCEPT ![c] = "post_nstored"]
      /\ msgdata' = [msgdata EXCEPT ![offset[c]] = <<c, i[c]>>]
      /\ UNCHANGED <<index, nput, offset, shown, server, lost, nstored, i>>
  BY DEF Copy, Goto, sems, output
<1>2. (pc')[c] = "post_nstored" /\ \A d \in Clients \ {c} : (pc')[d] = "open"
  BY <1>1 DEF IInv, ClientTypes, Ordered
<1>3. Waiting \in Nat /\ i[c] \in Nat /\ Waiting + 1 <= NMESG /\ NMESG \in Nat
  BY <1>1, OneClientHas, OverflowAssumption DEF Ordered, HasSlot
<1>4. /\ Waiting' = Waiting /\ Putting(c)' /\ Putting(c) /\ Reserved(c)' = Reserved(c)
      /\ Stored(c) = Waiting /\ Stored(c)' = Waiting + 1
      /\ Numbers(c) = i[c] /\ Numbers(c)' = i[c] + 1
  BY <1>1, <1>2, <1>3 DEF Waiting, Putting, Reserved, Stored, Numbers
<1>5. \A k : Slot(k)' = Slot(k)
  BY <1>1 DEF Slot
<1>6. index \in 0..NMESG-1 /\ offset[c] = Slot(Waiting)
  BY <1>4 DEF Ordered, SlotsInTurn
<1>7. SlotsInTurn(c)'
  BY <1>1, <1>4, <1>5 DEF Ordered, SlotsInTurn
<1>8. \A k \in 0..Waiting : Slot(k) \in 0..NMESG-1 /\ (k < Waiting => Slot(k) # offset[c])
  BY <1>3, <1>6 DEF Slot
<1>9. /\ DOMAIN msgdata = 0..NMESG-1 /\ shown[2] \in Int /\ shown[2] < i[c]
      /\ \A k \in 0..Waiting-1 : Number(k) \in Int /\ shown[2] < Number(k) /\ Number(k) < i[c]
      /\ \A j, k \in 0..Waiting-1 : j < k => Number(j) < Number(k)
  BY <1>4 DEF Ordered, Rising
<1>10. ASSUME NEW k \in 0..Waiting, k = Waiting PROVE Number(k)' = i[c]
  <2>1. msgdata'[Slot(k)] = <<c, i[c]>>
    BY <1>1, <1>3, <1>6, <1>8, <1>9, <1>10
  <2> QED
    BY <1>5, <2>1 DEF Number
<1>11. ASSUME NEW k \in 0..Waiting-1 PROVE Number(k)' = Number(k)
  <2>1. msgdata'[Slot(k)] = msgdata[Slot(k)]
    BY <1>1, <1>3, <1>8, <1>9
  <2> QED
    BY <1>5, <2>1 DEF Number
<1>12. Rising(c)'
  <2>1. DOMAIN msgdata' = 0..NMESG-1
    BY <1>1, <1>9
  <2>2. shown'[2] \in Int /\ shown'[2] < i[c] + 1
    BY <1>1, <1>3, <1>9
  <2>3. ASSUME NEW k \in 0..Waiting
        PROVE  Number(k)' \in Int /\ shown'[2] < Number(k)' /\ Number(k)' < i[c] + 1
    <3>1. CASE k = Waiting
      BY <1>1, <1>3, <1>9, <1>10, <3>1
    <3>2. CASE k \in 0..Waiting-1
      BY <1>1, <1>3, <1>9, <1>11, <3>2
    <3> QED
      BY <1>3, <3>1, <3>2
  <2>4. ASSUME NEW j \in 0..Waiting, NEW k \in 0..Waiting, j < k
        PROVE  Number(j)' < Number(k)'
    <3>1. j \in 0..Waiting-1 /\ Number(j)' = Number(j)
      BY <1>3, <1>11, <2>4
    <3>2. CASE k = Waiting
      BY <1>9, <1>10, <3>1, <3>2
    <3>3. CASE k \in 0..Waiting-1
      BY <1>9, <1>11, <2>4, <3>1, <3>3
    <3> QED
      BY <1>3, <3>2, <3>3
  <2>5. 0..Waiting = 0..((Waiting + 1) - 1)
    BY <1>3
  <2> QED
    BY <1>4, <2>1, <2>2, <2>3, <2>4, <2>5 DEF Rising
<1> QED
  BY <1>2, <1>7, <1>12 DEF Ordered

LEMMA ServerKeepsOrder ==
  ASSUME IInv, NEW c \in Clients, Ordered(c), Server, ~PrintMessage
  PROVE  Ordered(c)'
<1>1. Waiting \in Nat /\ i[c] \in Nat
  BY OneClientHas DEF Ordered
<1>2. UNCHANGED clients /\ UNCHANGED <<index, shown>>
  BY DEF Server, MakeObject, InitMutex, InitEmpty, InitStored, InitOverflowMutex,
         ServerWaitStored, ServerWaitMutex, ServerPostMutex, ServerPostEmpty,
         ServerWaitOverflow, ServerPostOverflow, output
<1>3. UNCHANGED <<nput, msgdata, offset, pc, i>>
  BY <1>2 DEF clients
<1>4. Waiting' = Waiting
  <2>1. nstored \in Nat /\ lost \in Nat
    BY DEF IInv, SemTypes
  <2>2. CASE InitStored
    <3>1. /\ server = "init_nstored" /\ server' = "init_noverflowmutex"
          /\ nstored' = 0 /\ lost' = nstored /\ lost = 0
      BY <2>2 DEF InitStored, ServerGoto, IInv, SlotsConserved
    <3> QED
      BY <2>1, <3>1 DEF Waiting
  <2>3. CASE ServerWaitStored
    BY <2>1, <2>3 DEF ServerWaitStored, ServerGoto, SemWait, output, Waiting
  <2>4. CASE MakeObject \/ InitMutex \/ InitEmpty \/ InitOverflowMutex \/ ServerWaitMutex
             \/ ServerPostMutex \/ ServerPostEmpty \/ ServerWaitOverflow \/ ServerPostOverflow
    BY <2>4 DEF MakeObject, InitMutex, InitEmpty, InitOverflowMutex, ServerWaitMutex,
                ServerPostMutex, ServerPostEmpty, ServerWaitOverflow, ServerPostOverflow,
                ServerGoto, sems, output, Waiting
  <2> QED
    BY <2>2, <2>3, <2>4 DEF Server
<1>5. /\ Putting(c)' = Putting(c) /\ Reserved(c)' = Reserved(c) /\ Stored(c)' = Stored(c)
      /\ Numbers(c)' = Numbers(c) /\ Numbers(c) \in Nat
  BY <1>1, <1>3, <1>4 DEF Putting, Reserved, Stored, Numbers
<1> QED
  BY <1>1, <1>2, <1>3, <1>4, <1>5, OrderKept

\* The server prints the first of the messages that wait.
LEMMA PrintKeepsOrder ==
  ASSUME IInv, NEW c \in Clients, Ordered(c), PrintMessage
  PROVE  Ordered(c)' /\ shown'[2] > shown[2]
<1>1. /\ server = "print" /\ server' = "post_mutex"
      /\ shown' = msgdata[index] /\ index' = NextSlot(index)
      /\ UNCHANGED <<nput, msgdata, offset, pc, i, nstored, lost>>
  BY DEF PrintMessage, ServerGoto, sems, clients, output
<1>2. /\ Waiting \in Nat /\ i[c] \in Nat /\ NMESG \in Nat
      /\ Waiting + (IF pc[c] \in HasSlot THEN 1 ELSE 0) <= NMESG
  BY OneClientHas, OverflowAssumption DEF Ordered
<1>3. /\ Waiting >= 1 /\ Waiting' = Waiting - 1
  <2>1. nstored \in Nat /\ lost \in Nat
    BY DEF IInv, SemTypes
  <2> QED
    BY <1>1, <2>1 DEF Waiting
<1>4. /\ Putting(c)' = Putting(c) /\ Reserved(c) \in 1..NMESG /\ Reserved(c)' = Reserved(c) - 1
      /\ Stored(c) \in 1..NMESG /\ Stored(c)' = Stored(c) - 1
      /\ Numbers(c)' = Numbers(c) /\ Numbers(c) \in Nat
  BY <1>1, <1>2, <1>3 DEF Putting, Reserved, Stored, Numbers, HasSlot
<1>5. index \in 0..NMESG-1 /\ nput = Slot(Reserved(c)) /\ DOMAIN offset = Clients
      /\ (Putting(c) => offset[c] = Slot(Waiting))
  BY DEF Ordered, SlotsInTurn
<1>6. index' \in 0..NMESG-1
  BY <1>1, <1>2, <1>5 DEF NextSlot
<1>7. ASSUME NEW k \in 0..NMESG-1 PROVE Slot(k)' = Slot(k + 1)
  <2>1. Slot(k)' = IF index' + k < NMESG THEN index' + k ELSE index' + k - NMESG
    BY DEF Slot
  <2> QED
    BY <1>1, <1>2, <1>5, <2>1 DEF Slot, NextSlot
<1>8. SlotsInTurn(c)'
  <2>1. nput' = IF index' + Reserved(c)' < NMESG THEN index' + Reserved(c)'
                ELSE index' + Reserved(c)' - NMESG
    BY <1>1, <1>2, <1>4, <1>5 DEF Slot, NextSlot
  <2>2. Putting(c)' => Waiting \in 1..NMESG /\ (offset')[c] = Slot(Waiting)
    BY <1>1, <1>2, <1>3, <1>4, <1>5
  <2>3. Putting(c)' => (offset')[c] = IF index' + Waiting' < NMESG THEN index' + Waiting'
                                     ELSE index' + Waiting' - NMESG
    BY <1>1, <1>2, <1>3, <1>5, <2>2 DEF Slot, NextSlot
  <2> QED
    BY <1>1, <1>5, <1>6, <2>1, <2>3 DEF SlotsInTurn, Slot
<1>9. /\ DOMAIN msgdata = 0..NMESG-1
      /\ \A k \in 0..Stored(c)-1 : /\ Number(k) \in Int
                                   /\ shown[2] < Number(k) /\ Number(k) < Numbers(c)
      /\ \A j, k \in 0..Stored(c)-1 : j < k => Number(j) < Number(k)
  BY DEF Ordered, Rising
<1>10. shown'[2] = Number(0)
  BY <1>1, <1>2, <1>5 DEF Number, Slot
<1>11. ASSUME NEW k \in 0..Stored(c)-2 PROVE Number(k)' = Number(k + 1)
  <2>1. Slot(k)' = Slot(k + 1)
    BY <1>2, <1>4, <1>7
  <2> QED
    BY <1>1, <2>1 DEF Number
<1>12. Rising(c)'
  <2>1. DOMAIN msgdata' = 0..NMESG-1
    BY <1>1, <1>9
  <2>2. 0 \in 0..Stored(c)-1 /\ \A k \in 0..Stored(c)-2 : k + 1 \in 0..Stored(c)-1 /\ 0 < k + 1
    BY <1>4
  <2>3. shown'[2] \in Int /\ shown'[2] < Numbers(c)
    BY <1>9, <1>10, <2>2
  <2>4. \A k \in 0..Stored(c)-2 : /\ Number(k)' \in Int
                                 /\ shown'[2] < Number(k)' /\ Number(k)' < Numbers(c)
    BY <1>9, <1>10, <1>11, <2>2
  <2>5. ASSUME NEW j \in 0..Stored(c)-2, NEW k \in 0..Stored(c)-2, j < k
        PROVE  Number(j)' < Number(k)'
    <3>1. j + 1 < k + 1
      BY <1>4, <2>5
    <3> QED
      BY <1>9, <1>11, <2>2, <3>1
  <2>6. 0..(Stored(c)'-1) = 0..Stored(c)-2
    BY <1>4
  <2> QED
    BY <1>4, <2>1, <2>3, <2>4, <2>5, <2>6 DEF Rising
<1>13. Ordered(c)'
  BY <1>1, <1>8, <1>12 DEF Ordered
<1>14. shown'[2] > shown[2]
  BY <1>4, <1>9, <1>10 DEF Ordered, Rising
<1> QED
  BY <1>13, <1>14

\* The clients that have nothing to send never start.
LEMMA OnlyOneMoves ==
  ASSUME NEW c \in Clients, Ordered(c), OnlyFrom(c), NEW d \in Clients, Client(d)
  PROVE  d = c
<1>1. CASE d # c
  <2>1. pc[d] = "open" /\ nloop[d] = 0
    BY <1>1 DEF Ordered, OnlyFrom
  <2>2. ~Open(d)
    BY <2>1 DEF Open
  <2> QED
    BY <2>1, <2>2 DEF Client, BusError, TrywaitSlot, TrywaitFails, WaitMutex, Reserve, PostMutex,
       Copy, PostStored, WaitOverflow, ReadOverflow, AddOverflow, PostOverflow, Goto
<1> QED
  BY <1>1

LEMMA NextOrdered ==
  ASSUME IInv, OrderInv, [Next]_vars
  PROVE  OrderInv' /\ (Alone /\ printed' # printed => shown'[2] > shown[2])
<1>1. UNCHANGED nloop
  BY DEF Next, vars
<1>2. ASSUME NEW c \in Clients, OnlyFrom(c)
      PROVE  Ordered(c)' /\ (printed' # printed => shown'[2] > shown[2])
  <2>1. Ordered(c)
    BY <1>2 DEF OrderInv
  <2>2. CASE PrintMessage
    BY <2>1, <2>2, PrintKeepsOrder
  <2>3. CASE Server /\ ~PrintMessage
    <3>1. printed' = printed
      BY <2>3 DEF Server, MakeObject, InitMutex, InitEmpty, InitStored, InitOverflowMutex,
         ServerWaitStored, ServerWaitMutex, ServerPostMutex, ServerPostEmpty,
         ServerWaitOverflow, ServerPostOverflow, output
    <3> QED
      BY <2>1, <2>3, <3>1, ServerKeepsOrder
  <2>4. CASE \E d \in Clients : Client(d)
    <3>1. Client(c)
      BY <1>2, <2>1, <2>4, OnlyOneMoves
    <3>2. printed' = printed
      BY <3>1 DEF Client, Open, BusError, TrywaitSlot, TrywaitFails, WaitMutex, Reserve, PostMutex,
         Copy, PostStored, WaitOverflow, ReadOverflow, AddOverflow, PostOverflow, output
    <3> QED
      BY <2>1, <3>1, <3>2, ClientKeepsOrder, ReserveKeepsOrder, CopyKeepsOrder
  <2>5. CASE UNCHANGED vars
    <3>1. UNCHANGED <<pc, i, offset, nput, msgdata, index, shown, printed, nstored, lost, server>>
      BY <2>5 DEF vars, sems, clients, output
    <3>2. Waiting \in Nat /\ i[c] \in Nat
      BY <2>1, OneClientHas DEF Ordered
    <3>3. /\ Waiting' = Waiting /\ Putting(c)' = Putting(c) /\ Reserved(c)' = Reserved(c)
          /\ Stored(c)' = Stored(c) /\ Numbers(c)' = Numbers(c) /\ Numbers(c) \in Nat
      BY <3>1, <3>2 DEF Waiting, Putting, Reserved, Stored, Numbers
    <3> QED
      BY <2>1, <3>1, <3>2, <3>3, OrderKept
  <2> QED
    BY <2>2, <2>3, <2>4, <2>5 DEF Next
<1>3. \A c \in Clients : OnlyFrom(c)' = OnlyFrom(c)
  BY <1>1 DEF OnlyFrom
<1>4. Alone => \E c \in Clients : OnlyFrom(c)
  BY DEF Alone, OnlyFrom
<1> QED
  BY <1>2, <1>3, <1>4 DEF OrderInv

(***************************************************************************)
(* The messages of a client that is alone are printed in the order of      *)
(* their numbers, none twice, and nothing else is, for any number of slots *)
(* and messages, and also if the start of the server undoes posts: the     *)
(* slots are used in turn (client2.c:49-51, server2.c:41-44), and nput     *)
(* never passes the server's index.                                        *)
(***************************************************************************)
THEOREM MessagesPrintedInOrder == Spec => PrintsInOrder
<1>1. IInv /\ OrderInv /\ [Next]_vars => OrderInv'
  BY NextOrdered
<1>2. IInv /\ OrderInv /\ [Next]_vars
        => [Alone /\ printed' # printed => shown'[2] > shown[2]]_vars
  BY NextOrdered
<1>3. Spec => []OrderInv
  BY <1>1, InitOrdered, Invariance, PTL DEF Spec
<1> QED
  BY <1>2, <1>3, Invariance, PTL DEF Spec, PrintsInOrder
=============================================================================
