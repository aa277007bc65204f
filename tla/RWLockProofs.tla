---------------------------- MODULE RWLockProofs ----------------------------
(***************************************************************************)
(* Theorems of RWLock for any finite set of threads, any assignment of     *)
(* functions to threads and any errors of pthread_cond_wait.               *)
(*                                                                         *)
(* The safety invariants of RWLock are inductive together with facts about *)
(* where each thread is in its call, about the owner of the mutex, and     *)
(* about what each step of destroy has seen: see IInv.                     *)
(***************************************************************************)
EXTENDS RWLock, FiniteSetTheorems, TLAPS

\* A thread inside the lock is in one of its functions, in unlock just when
\* it came in holding the lock, and waits only in rdlock and wrlock.  A wait
\* that is refused has an error to return.
CallsMatch ==
  \A t \in Threads :
    /\ at[t] \in LockPlaces => /\ call[t] \in LockOps \cup {"unlock"}
                               /\ call[t] = "unlock" <=> held[t] # "none"
    /\ at[t] \in {"wait", "refused", "woken"} => call[t] \in {"rdlock", "wrlock"}
    /\ at[t] = "refused" => result[t] # OK

\* The mutex is owned by the thread that is between its lock and its unlock.
HoldPlaces == {"body", "woken", "refused", "unlock"}
MutexHeld == \A t \in Threads : at[t] \in HoldPlaces => rw_mutex = t

\* Only threads in pthread_cond_wait sleep, each on the condition variable
\* of the function it is in.
SleepersWait ==
  /\ rw_condreaders \subseteq {t \in Threads : at[t] = "wait" /\ call[t] = "rdlock"}
  /\ rw_condwriters \subseteq {t \in Threads : at[t] = "wait" /\ call[t] = "wrlock"}

\* What each test that destroy has gone past says of the threads that have
\* not moved since destroy began.
Seen(d, u) ==
  /\ at[d] \in TearPlaces \cup {"readers", "writers"} => Owns(u) = "none"
  /\ at[d] \in TearPlaces \cup {"writers"} => u \notin WaitingIn("rdlock")
  /\ at[d] \in TearPlaces => u \notin WaitingIn("wrlock")
StayersSeen == \A d \in Threads : \A u \in still[d] : Seen(d, u)

IInv == /\ TypeOK /\ CallsMatch /\ MutexHeld /\ SleepersWait /\ StayersSeen
        /\ RefcountTellsHolders /\ CountersCountWaiters /\ NoLostWakeup /\ NeverExits
-----------------------------------------------------------------------------
\* The places steps lead to, by name.
LEMMA PlaceNames ==
  {"idle", "lock", "body", "wait", "refused", "woken", "unlock", "refcount", "readers",
   "writers", "mutex", "condreaders", "condwriters", "magic"} \subseteq Places
BY DEF Places, LockPlaces, DestroyPlaces, TearPlaces

\* Sets of threads are finite, so that their members can be counted.
LEMMA ThreadSets ==
  ASSUME NEW S, S \subseteq Threads
  PROVE  /\ IsFiniteSet(S) /\ Cardinality(S) \in Nat
         /\ Cardinality(S) = 0 <=> S = {}
         /\ \A t \in Threads : /\ t \notin S => Cardinality(S \cup {t}) = Cardinality(S) + 1
                               /\ t \in S => Cardinality(S \ {t}) = Cardinality(S) - 1
<1>1. IsFiniteSet(S)
  BY FS_Subset, ThreadsAssumption
<1>2. Cardinality(S) \in Nat
  BY <1>1, FS_CardinalityType
<1>3. Cardinality(S) = 0 <=> S = {}
  BY <1>1, FS_EmptySet
<1>4. ASSUME NEW t \in Threads, t \notin S PROVE Cardinality(S \cup {t}) = Cardinality(S) + 1
  BY <1>1, <1>4, FS_AddElement
<1>5. ASSUME NEW t \in Threads, t \in S PROVE Cardinality(S \ {t}) = Cardinality(S) - 1
  BY <1>1, <1>5, FS_RemoveElement
<1> QED
  BY <1>1, <1>2, <1>3, <1>4, <1>5

\* The sets the invariants count are sets of threads.
LEMMA Subsets ==
  /\ Readers \subseteq Threads /\ Writers \subseteq Threads
  /\ \A op : WaitingIn(op) \subseteq Threads
BY DEF Readers, Writers, WaitingIn

\* Thread t makes a step and may change where it is, the others stay put.
Alone(t) == /\ \A u \in Threads \ {t} : /\ at'[u] = at[u] /\ call'[u] = call[u]
                                        /\ result'[u] = result[u] /\ held'[u] = held[u]
            /\ call'[t] = call[t] /\ held'[t] = held[t]

\* A thread with the mutex that leaves a function with result r.
LEMMA LeaveEffect ==
  ASSUME TypeOK, NEW t \in Threads, NEW r \in Int, at[t] \in {"body", "woken"},
         Leave(t, r), UNCHANGED <<call, held>>
  PROVE  /\ \A u \in Threads \ {t} : Owns(u)' = Owns(u)
         /\ Owns(t) = held[t]
         /\ Owns(t)' = IF r = OK THEN Grants(call[t]) ELSE held[t]
         /\ \A op : WaitingIn(op)' = WaitingIn(op)
         /\ WaitingWriters' = WaitingWriters \ {t}
         /\ Alone(t)
<1>1. /\ at' = [at EXCEPT ![t] = "unlock"] /\ result' = [result EXCEPT ![t] = r]
      /\ call' = call /\ held' = held
  BY DEF Leave
<1>2. \A u \in Threads \ {t} : at'[u] = at[u] /\ result'[u] = result[u]
  BY <1>1 DEF TypeOK
<1>3. at'[t] = "unlock" /\ result'[t] = r
  BY <1>1 DEF TypeOK
<1>4. \A u \in Threads \ {t} : Owns(u)' = Owns(u)
  BY <1>1, <1>2 DEF Owns, Grants
<1>5. Owns(t) = held[t] /\ Owns(t)' = IF r = OK THEN Grants(call[t]) ELSE held[t]
  BY <1>1, <1>3 DEF Owns, Grants
<1>6. ASSUME NEW op PROVE WaitingIn(op)' = WaitingIn(op)
  BY <1>1, <1>2, <1>3 DEF WaitingIn
<1>7. WaitingWriters' = WaitingWriters \ {t}
  BY <1>1, <1>2, <1>3 DEF WaitingWriters
<1> QED
  BY <1>1, <1>2, <1>4, <1>5, <1>6, <1>7 DEF Alone

\* A thread with the mutex that calls pthread_cond_wait, whether it goes to
\* sleep or is refused.
LEMMA WaitEffect ==
  ASSUME TypeOK, NEW t \in Threads, at[t] \in {"body", "woken"}, call[t] \in {"rdlock", "wrlock"},
         Sleep(t) \/ Refuse(t), UNCHANGED <<call, held>>
  PROVE  /\ \A u \in Threads : Owns(u)' = Owns(u)
         /\ \A op : WaitingIn(op)' = IF op = call[t] THEN WaitingIn(op) \cup {t}
                                                     ELSE WaitingIn(op)
         /\ WaitingWriters' = IF Sleep(t) /\ call[t] = "wrlock" THEN WaitingWriters \cup {t}
                                                               ELSE WaitingWriters \ {t}
         /\ at' = [at EXCEPT ![t] = IF Sleep(t) THEN "wait" ELSE "refused"]
         /\ rw_mutex' = IF Sleep(t) THEN Nobody ELSE t
         /\ result' \in [Threads -> Int]
         /\ ~Sleep(t) => result'[t] # OK
         /\ Alone(t)
<1>0. \A e \in WaitErrors \cup (IF gone THEN {EINVAL} ELSE {}) : e \in Int /\ e # OK
  BY ErrorsAssumption DEF EINVAL, OK
<1>1. /\ at' = [at EXCEPT ![t] = IF Sleep(t) THEN "wait" ELSE "refused"]
      /\ rw_mutex' = IF Sleep(t) THEN Nobody ELSE t
      /\ call' = call /\ held' = held
      /\ result' \in [Threads -> Int]
      /\ \A u \in Threads \ {t} : result'[u] = result[u]
      /\ ~Sleep(t) => result'[t] # OK
  BY <1>0 DEF Sleep, Refuse, TypeOK
<1>2. at'[t] \in {"wait", "refused"} /\ \A u \in Threads \ {t} : at'[u] = at[u]
  BY <1>1 DEF TypeOK
<1>3. at'[t] = "wait" <=> Sleep(t)
  BY <1>1 DEF TypeOK
<1>4. \A u \in Threads : Owns(u)' = Owns(u)
  BY <1>1, <1>2 DEF Owns, Grants
<1>5. ASSUME NEW op
      PROVE  WaitingIn(op)' = IF op = call[t] THEN WaitingIn(op) \cup {t} ELSE WaitingIn(op)
  BY <1>1, <1>2 DEF WaitingIn
<1>6. WaitingWriters' = IF Sleep(t) /\ call[t] = "wrlock" THEN WaitingWriters \cup {t}
                                                         ELSE WaitingWriters \ {t}
  BY <1>1, <1>2, <1>3 DEF WaitingWriters
<1> QED
  BY <1>1, <1>2, <1>4, <1>5, <1>6 DEF Alone

\* A thread that comes back from pthread_cond_wait.
LEMMA WakeEffect ==
  ASSUME TypeOK, CallsMatch, NEW t \in Threads, EndWait(t), UNCHANGED <<call, held>>
  PROVE  /\ \A u \in Threads : Owns(u)' = Owns(u)
         /\ \A op : WaitingIn(op)' = WaitingIn(op) \ {t}
         /\ t \in WaitingIn(call[t])
         /\ WaitingWriters' = WaitingWriters
         /\ at' \in [Threads -> Places]
         /\ at'[t] \in {"woken", "unlock"} /\ rw_mutex' = t /\ UNCHANGED result
         /\ Alone(t)
<1>1. /\ \A u \in Threads \ {t} : at'[u] = at[u]
      /\ \/ at[t] = "wait" /\ at'[t] = "woken"
         \/ at[t] = "refused" /\ at'[t] = "unlock"
      /\ at' \in [Threads -> Places]
      /\ call' = call /\ held' = held /\ result' = result /\ rw_mutex' = t
  BY PlaceNames DEF EndWait, TypeOK
<1>2. ASSUME NEW op PROVE WaitingIn(op)' = WaitingIn(op) \ {t}
  BY <1>1 DEF WaitingIn
<1>3. WaitingWriters' = WaitingWriters
  BY <1>1 DEF WaitingWriters
<1>4. t \in WaitingIn(call[t])
  BY <1>1 DEF WaitingIn
<1>5. \A u \in Threads : Owns(u)' = Owns(u)
  BY <1>1 DEF Owns, CallsMatch
<1> QED
  BY <1>1, <1>2, <1>3, <1>4, <1>5 DEF Alone
-----------------------------------------------------------------------------
(* What rw_refcount says of the holders, and how it follows them. *)

LEMMA OwnsType ==
  ASSUME TypeOK, NEW t \in Threads
  PROVE  Owns(t) \in {"none", "read", "write"}
BY DEF TypeOK, Owns, Grants

LEMMA HolderFacts ==
  ASSUME TypeOK, RefcountTellsHolders, NEW t \in Threads
  PROVE  /\ rw_refcount = 0 => Owns(t) = "none"
         /\ rw_refcount > 0 => Owns(t) # "write"
         /\ rw_refcount = -1 => Owns(t) # "read"
         /\ rw_refcount = -1 /\ Owns(t) = "write" => Writers = {t}
<1> USE OwnsType, Subsets
<1>1. rw_refcount = 0 => Readers = {} /\ Writers = {}
  BY ThreadSets DEF RefcountTellsHolders
<1>2. rw_refcount > 0 => Writers = {}
  BY DEF RefcountTellsHolders
<1>3. rw_refcount = -1 => Readers = {} /\ \E w \in Threads : Writers = {w}
  BY ThreadSets DEF RefcountTellsHolders
<1> QED
  BY <1>1, <1>2, <1>3 DEF Readers, Writers

LEMMA KeepHolders ==
  ASSUME RefcountTellsHolders, \A u \in Threads : Owns(u)' = Owns(u),
         rw_refcount' = rw_refcount
  PROVE  RefcountTellsHolders'
<1>1. Readers' = Readers /\ Writers' = Writers
  BY DEF Readers, Writers
<1> QED
  BY <1>1 DEF RefcountTellsHolders

LEMMA GainRead ==
  ASSUME TypeOK, RefcountTellsHolders, NEW t \in Threads,
         \A u \in Threads \ {t} : Owns(u)' = Owns(u),
         Owns(t) = "none", Owns(t)' = "read",
         rw_refcount # -1, rw_refcount' = rw_refcount + 1
  PROVE  RefcountTellsHolders'
<1>1. t \notin Readers /\ Readers' = Readers \cup {t} /\ Writers' = Writers
  BY DEF Readers, Writers
<1> QED
  BY <1>1, ThreadSets, Subsets DEF RefcountTellsHolders

LEMMA GainWrite ==
  ASSUME TypeOK, RefcountTellsHolders, NEW t \in Threads,
         \A u \in Threads \ {t} : Owns(u)' = Owns(u),
         Owns(t)' = "write", rw_refcount = 0, rw_refcount' = -1
  PROVE  RefcountTellsHolders'
<1>1. \A u \in Threads \ {t} : Owns(u)' = "none"
  BY HolderFacts
<1>2. Readers' = {} /\ Writers' = {t}
  BY <1>1 DEF Readers, Writers
<1> QED
  BY <1>2 DEF RefcountTellsHolders

LEMMA GiveBack ==
  ASSUME TypeOK, RefcountTellsHolders, NEW t \in Threads,
         \A u \in Threads \ {t} : Owns(u)' = Owns(u),
         Owns(t) # "none", Owns(t)' = "none", rw_refcount' = Released
  PROVE  RefcountTellsHolders'
<1>1. CASE rw_refcount > 0
  <2>1. t \in Readers /\ Writers = {}
    BY <1>1, HolderFacts, OwnsType DEF Readers, RefcountTellsHolders
  <2>2. Readers' = Readers \ {t} /\ Writers' = {}
    BY <2>1 DEF Readers, Writers
  <2> QED
    BY <1>1, <2>1, <2>2, ThreadSets, Subsets DEF RefcountTellsHolders, Released
<1>2. CASE rw_refcount = -1
  <2>1. Readers = {} /\ Writers = {t}
    BY <1>2, HolderFacts, OwnsType, ThreadSets, Subsets DEF RefcountTellsHolders
  <2>2. Readers' = {} /\ Writers' = {}
    BY <2>1 DEF Readers, Writers
  <2>3. rw_refcount' = 0 /\ Cardinality({}) = 0
    BY <1>2, FS_EmptySet DEF Released
  <2> QED
    BY <2>2, <2>3 DEF RefcountTellsHolders
<1>3. rw_refcount > 0 \/ rw_refcount = -1
  BY HolderFacts DEF TypeOK
<1> QED
  BY <1>1, <1>2, <1>3
-----------------------------------------------------------------------------
(* Each action preserves the invariant. *)

LEMMA InitInvariant == Init => IInv
<1> SUFFICES ASSUME Init PROVE IInv
  OBVIOUS
<1>0. TypeOK
  <2>1. call \in [Threads -> Ops]
    BY DEF Init, Ops
  <2>2. rw_magic \in BOOLEAN /\ gone \in BOOLEAN /\ exited \in BOOLEAN
    BY DEF Init
  <2>3. /\ at \in [Threads -> Places]
        /\ result \in [Threads -> Int]
        /\ held \in [Threads -> {"none", "read", "write"}]
        /\ still \in [Threads -> SUBSET Threads]
    BY PlaceNames DEF Init, OK
  <2>4. /\ rw_nwaitreaders \in Nat /\ rw_nwaitwriters \in Nat
        /\ rw_refcount \in Nat \cup {-1}
    BY DEF Init
  <2> QED
    BY <2>1, <2>2, <2>3, <2>4 DEF Init, TypeOK
<1>1. CallsMatch /\ MutexHeld /\ StayersSeen /\ NeverExits
  BY DEF Init, CallsMatch, MutexHeld, StayersSeen, NeverExits, LockPlaces, HoldPlaces
<1>2. \A op : WaitingIn(op) = {}
  BY DEF Init, WaitingIn
<1>3. Readers = {} /\ Writers = {}
  BY DEF Init, Readers, Writers, Owns
<1>4. Cardinality({}) = 0
  BY FS_EmptySet
<1>5. RefcountTellsHolders /\ CountersCountWaiters /\ SleepersWait /\ NoLostWakeup
  BY <1>2, <1>3, <1>4
  DEF Init, RefcountTellsHolders, CountersCountWaiters, SleepersWait, NoLostWakeup
<1> QED
  BY <1>0, <1>1, <1>5 DEF IInv

\* What holds of the fields is not disturbed by a thread that moves outside
\* the critical section.
LEMMA KeepFields ==
  ASSUME IInv, NEW t \in Threads,
         UNCHANGED <<rw_condreaders, rw_condwriters, rw_nwaitreaders, rw_nwaitwriters,
                     rw_refcount, exited>>,
         \A u \in Threads : Owns(u)' = Owns(u),
         \A op : WaitingIn(op)' = WaitingIn(op),
         WaitingWriters' = WaitingWriters,
         at[t] # "wait", \A u \in Threads \ {t} : at'[u] = at[u] /\ call'[u] = call[u]
  PROVE  /\ SleepersWait' /\ RefcountTellsHolders' /\ CountersCountWaiters'
         /\ NoLostWakeup' /\ NeverExits'
<1>1. RefcountTellsHolders'
  BY KeepHolders DEF IInv
<1>2. CountersCountWaiters' /\ NoLostWakeup' /\ NeverExits'
  BY DEF IInv, CountersCountWaiters, NoLostWakeup, NeverExits
<1>3. SleepersWait'
  BY DEF IInv, SleepersWait
<1> QED
  BY <1>1, <1>2, <1>3

\* A thread that moves leaves the sets of those that stand still, the others
\* are as they were.
LEMMA MoverLeaves ==
  ASSUME TypeOK, StayersSeen, NEW t \in Threads, Moves(t), at'[t] \notin DestroyPlaces,
         \A u \in Threads \ {t} : /\ at'[u] = at[u] /\ call'[u] = call[u]
                                  /\ result'[u] = result[u] /\ held'[u] = held[u]
  PROVE  StayersSeen' /\ still' \in [Threads -> SUBSET Threads]
<1>1. still' \in [Threads -> SUBSET Threads] /\ \A d \in Threads : still'[d] = still[d] \ {t}
  BY DEF Moves, TypeOK
<1>2. ASSUME NEW d \in Threads, NEW u \in still'[d] PROVE Seen(d, u)'
  <2>1. u \in Threads \ {t} /\ u \in still[d] /\ Seen(d, u)
    BY <1>1, <1>2 DEF TypeOK, StayersSeen
  <2>2. Owns(u)' = Owns(u) /\ \A op : u \in WaitingIn(op)' <=> u \in WaitingIn(op)
    BY <2>1 DEF Owns, WaitingIn
  <2>3. CASE d = t
    BY <2>3 DEF Seen, DestroyPlaces
  <2>4. CASE d # t
    BY <2>1, <2>2, <2>4 DEF Seen
  <2> QED
    BY <2>3, <2>4
<1> QED
  BY <1>1, <1>2 DEF StayersSeen

LEMMA CallStep ==
  ASSUME IInv, NEW t \in Threads, NEW op \in Ops, Call(t, op)
  PROVE  IInv'
<1> USE DEF Call, Enter, fields
<1>0. /\ \A u \in Threads \ {t} : /\ at'[u] = at[u] /\ call'[u] = call[u]
                                  /\ result'[u] = result[u] /\ held'[u] = held[u]
      /\ at'[t] \in {"idle", "lock"} /\ at[t] = "idle" /\ held'[t] = held[t]
      /\ call'[t] = op /\ Moves(t)
  BY DEF IInv, TypeOK
<1>1. StayersSeen' /\ still' \in [Threads -> SUBSET Threads]
  BY <1>0, MoverLeaves DEF IInv, DestroyPlaces, TearPlaces
<1>2. TypeOK'
  <2>1. at' \in [Threads -> Places]
    BY PlaceNames DEF IInv, TypeOK
  <2>2. call' \in [Threads -> Ops]
    BY DEF IInv, TypeOK
  <2>3. result' \in [Threads -> Int]
    BY DEF IInv, TypeOK, EINVAL
  <2> QED
    BY <1>1, <2>1, <2>2, <2>3 DEF IInv, TypeOK
<1>3. \A u \in Threads : Owns(u)' = Owns(u)
  BY <1>0 DEF Owns
<1>4. (\A o : WaitingIn(o)' = WaitingIn(o)) /\ WaitingWriters' = WaitingWriters
  BY <1>0 DEF WaitingIn, WaitingWriters
<1>5. CallsMatch' /\ MutexHeld'
  BY <1>0 DEF IInv, CallsMatch, MutexHeld, HoldPlaces
<1> QED
  BY <1>0, <1>1, <1>2, <1>3, <1>4, <1>5, KeepFields DEF IInv

LEMMA AcquireStep ==
  ASSUME IInv, NEW t \in Threads, Acquire(t) \/ LockFails(t), Moves(t)
  PROVE  IInv'
<1> USE DEF Acquire, LockFails, fields
<1>0. /\ \A u \in Threads \ {t} : /\ at'[u] = at[u] /\ call'[u] = call[u]
                                  /\ result'[u] = result[u] /\ held'[u] = held[u]
      /\ at[t] = "lock" /\ held'[t] = held[t] /\ call'[t] = call[t]
      /\ \/ at'[t] = "body" /\ rw_mutex' = t /\ rw_mutex = Nobody
         \/ at'[t] = "idle" /\ rw_mutex' = rw_mutex
  BY DEF IInv, TypeOK
<1>1. StayersSeen' /\ still' \in [Threads -> SUBSET Threads]
  BY <1>0, MoverLeaves DEF IInv, DestroyPlaces, TearPlaces
<1>2. TypeOK'
  <2>1. at' \in [Threads -> Places]
    BY PlaceNames DEF IInv, TypeOK
  <2>2. result' \in [Threads -> Int]
    BY DEF IInv, TypeOK, EINVAL, OK
  <2> QED
    BY <1>0, <1>1, <2>1, <2>2 DEF IInv, TypeOK
<1>3. \A u \in Threads : Owns(u)' = Owns(u)
  BY <1>0 DEF Owns
<1>4. (\A o : WaitingIn(o)' = WaitingIn(o)) /\ WaitingWriters' = WaitingWriters
  BY <1>0 DEF WaitingIn, WaitingWriters
<1>5. CallsMatch'
  BY <1>0 DEF IInv, CallsMatch, LockPlaces
<1>6. MutexHeld'
  BY <1>0, ThreadsAssumption DEF IInv, MutexHeld, HoldPlaces
<1> QED
  BY <1>0, <1>1, <1>2, <1>3, <1>4, <1>5, <1>6, KeepFields DEF IInv

LEMMA ReturnStep ==
  ASSUME IInv, NEW t \in Threads, Return(t), Moves(t)
  PROVE  IInv'
<1> USE DEF Return, fields
<1>0. /\ \A u \in Threads \ {t} : /\ at'[u] = at[u] /\ call'[u] = call[u]
                                  /\ result'[u] = result[u] /\ held'[u] = held[u]
      /\ at[t] = "unlock" /\ at'[t] = "idle" /\ held'[t] = Owns(t) /\ rw_mutex = t
  BY DEF IInv, TypeOK, MutexHeld, HoldPlaces, Owns
<1>1. StayersSeen' /\ still' \in [Threads -> SUBSET Threads]
  BY <1>0, MoverLeaves DEF IInv, DestroyPlaces, TearPlaces
<1>2. TypeOK'
  <2>1. at' \in [Threads -> Places]
    BY PlaceNames DEF IInv, TypeOK
  <2>2. held' \in [Threads -> {"none", "read", "write"}]
    BY DEF IInv, TypeOK, Grants
  <2> QED
    BY <1>1, <2>1, <2>2 DEF IInv, TypeOK
<1>3. \A u \in Threads : Owns(u)' = Owns(u)
  BY <1>0 DEF Owns
<1>4. (\A o : WaitingIn(o)' = WaitingIn(o)) /\ WaitingWriters' = WaitingWriters
  BY <1>0 DEF WaitingIn, WaitingWriters
<1>5. CallsMatch'
  BY <1>0 DEF IInv, CallsMatch, LockPlaces
<1>6. MutexHeld'
  BY <1>0 DEF IInv, MutexHeld, HoldPlaces
<1> QED
  BY <1>0, <1>1, <1>2, <1>3, <1>4, <1>5, <1>6, KeepFields DEF IInv

LEMMA SpuriousStep ==
  ASSUME IInv, NEW t \in Threads, SpuriousWakeup(t)
  PROVE  IInv'
<1> USE DEF SpuriousWakeup, threads
<1>1. TypeOK'
  BY DEF IInv, TypeOK
<1>2. \A u \in Threads : Owns(u)' = Owns(u)
  BY DEF Owns
<1>3. (\A o : WaitingIn(o)' = WaitingIn(o)) /\ WaitingWriters' = WaitingWriters
  BY DEF WaitingIn, WaitingWriters
<1>4. CallsMatch' /\ MutexHeld'
  BY DEF IInv, CallsMatch, MutexHeld
<1>5. StayersSeen'
  BY <1>2, <1>3 DEF IInv, TypeOK, StayersSeen, Seen
<1>6. RefcountTellsHolders'
  BY <1>2, KeepHolders DEF IInv
<1>7. SleepersWait' /\ CountersCountWaiters' /\ NeverExits'
  BY <1>3 DEF IInv, SleepersWait, CountersCountWaiters, NeverExits
<1>8. NoLostWakeup'
  BY <1>3 DEF IInv, NoLostWakeup, SleepersWait, WaitingWriters
<1> QED
  BY <1>1, <1>4, <1>5, <1>6, <1>7, <1>8 DEF IInv
-----------------------------------------------------------------------------
(* destroy moves outside the critical section and changes no count. *)

\* A step of t outside the lock that changes nobody else and no count.
Aside(t) == /\ \A u \in Threads \ {t} : /\ at'[u] = at[u] /\ call'[u] = call[u]
                                        /\ result'[u] = result[u]
            /\ at[t] \notin LockPlaces /\ at'[t] \notin LockPlaces
            /\ UNCHANGED <<rw_condreaders, rw_condwriters, rw_nwaitreaders, rw_nwaitwriters,
                           rw_refcount, rw_mutex, exited, held>>

LEMMA OutsideStep ==
  ASSUME IInv, NEW t \in Threads, Aside(t)
  PROVE  /\ CallsMatch' /\ MutexHeld' /\ SleepersWait' /\ RefcountTellsHolders'
         /\ CountersCountWaiters' /\ NoLostWakeup' /\ NeverExits'
         /\ \A u \in Threads : Owns(u)' = Owns(u)
         /\ \A op : WaitingIn(op)' = WaitingIn(op)
         /\ WaitingWriters' = WaitingWriters
<1> USE DEF Aside, LockPlaces
<1>1. \A u \in Threads : Owns(u)' = Owns(u)
  BY DEF Owns
<1>2. (\A o : WaitingIn(o)' = WaitingIn(o)) /\ WaitingWriters' = WaitingWriters
  BY DEF WaitingIn, WaitingWriters
<1>3. CallsMatch' /\ MutexHeld'
  BY DEF IInv, CallsMatch, MutexHeld, HoldPlaces
<1> QED
  BY <1>1, <1>2, <1>3, KeepFields

LEMMA DestroyMoves ==
  ASSUME TypeOK, NEW t \in Threads, Destroy(t) \/ DestroyStep(t)
  PROVE  Aside(t) /\ TypeOK'
<1> USE PlaceNames DEF TypeOK, fields
<1>1. CASE Destroy(t)
  <2>1. Aside(t)
    BY <1>1 DEF Destroy, Aside, LockPlaces
  <2>2. at' \in [Threads -> Places] /\ still' \in [Threads -> SUBSET Threads]
    BY <1>1 DEF Destroy
  <2>3. call' \in [Threads -> Ops] /\ result' \in [Threads -> Int]
    BY <1>1 DEF Destroy, Ops, EINVAL
  <2> QED
    BY <1>1, <2>1, <2>2, <2>3 DEF Destroy
<1>2. ASSUME NEW place \in {"refcount", "readers", "writers"}, NEW n \in Int,
             NEW next \in {"readers", "writers", "mutex"}, TestCount(t, place, n, next)
      PROVE  Aside(t) /\ TypeOK'
  <2>1. Aside(t)
    BY <1>2 DEF TestCount, Aside, LockPlaces
  <2>2. at' \in [Threads -> Places] /\ result' \in [Threads -> Int]
    BY <1>2 DEF TestCount, EBUSY
  <2>3. still' \in [Threads -> SUBSET Threads]
    BY <1>2 DEF TestCount
  <2> QED
    BY <1>2, <2>1, <2>2, <2>3 DEF TestCount
<1>3. CASE TestBusy(t)
  BY <1>2, <1>3 DEF TestBusy
<1>4. CASE DestroyMutex(t)
  BY <1>4 DEF DestroyMutex, Aside, LockPlaces
<1>5. CASE DestroyConds(t)
  BY <1>5 DEF DestroyConds, Aside, LockPlaces
<1>6. CASE EndDestroy(t)
  <2>1. Aside(t)
    BY <1>6 DEF EndDestroy, Aside, LockPlaces
  <2>2. at' \in [Threads -> Places] /\ result' \in [Threads -> Int]
    BY <1>6 DEF EndDestroy, OK
  <2>3. still' \in [Threads -> SUBSET Threads]
    BY <1>6 DEF EndDestroy
  <2> QED
    BY <1>6, <2>1, <2>2, <2>3 DEF EndDestroy
<1> QED
  BY <1>1, <1>3, <1>4, <1>5, <1>6 DEF DestroyStep

\* The thread in destroy sees what it has tested of those that stand still.
LEMMA DestroySees ==
  ASSUME IInv, NEW t \in Threads, Destroy(t) \/ DestroyStep(t)
  PROVE  StayersSeen'
<1>1. /\ \A u \in Threads : Owns(u)' = Owns(u)
      /\ \A op : WaitingIn(op)' = WaitingIn(op)
      /\ \A u \in Threads \ {t} : at'[u] = at[u]
  BY DestroyMoves, OutsideStep DEF IInv, Aside
<1>2. /\ rw_refcount = 0 => \A u \in Threads : Owns(u) = "none"
      /\ rw_nwaitreaders = 0 => WaitingIn("rdlock") = {}
      /\ rw_nwaitwriters = 0 => WaitingIn("wrlock") = {}
  BY HolderFacts, ThreadSets, Subsets DEF IInv, CountersCountWaiters
<1>3. /\ \A d \in Threads \ {t} : still'[d] = still[d]
      /\ still[t] \subseteq Threads
      /\ \/ at'[t] \in {"idle", "refcount"}
         \/ /\ still'[t] = still[t]
            /\ \/ at[t] = "refcount" /\ at'[t] = "readers" /\ rw_refcount = 0
               \/ at[t] = "readers" /\ at'[t] = "writers" /\ rw_nwaitreaders = 0
               \/ at[t] = "writers" /\ at'[t] = "mutex" /\ rw_nwaitwriters = 0
               \/ at[t] \in TearPlaces /\ at'[t] \in TearPlaces
  <2> USE DEF IInv, TypeOK, TearPlaces
  <2>1. CASE Destroy(t)
    BY <2>1 DEF Destroy
  <2>2. CASE TestBusy(t)
    BY <2>2 DEF TestBusy, TestCount
  <2>3. CASE DestroyMutex(t) \/ DestroyConds(t)
    BY <2>3 DEF DestroyMutex, DestroyConds
  <2>4. CASE EndDestroy(t)
    BY <2>4 DEF EndDestroy
  <2> QED
    BY <2>1, <2>2, <2>3, <2>4 DEF DestroyStep
<1>4. ASSUME NEW d \in Threads \ {t}, NEW u \in still'[d] PROVE Seen(d, u)'
  <2>1. u \in Threads /\ Seen(d, u) /\ at'[d] = at[d]
    BY <1>1, <1>3, <1>4 DEF IInv, TypeOK, StayersSeen
  <2> QED
    BY <1>1, <2>1 DEF Seen
<1>5. ASSUME NEW u \in still'[t] PROVE Seen(t, u)'
  <2>1. CASE at'[t] \in {"idle", "refcount"}
    BY <2>1 DEF Seen, TearPlaces
  <2>2. CASE still'[t] = still[t] /\ at[t] \in TearPlaces /\ at'[t] \in TearPlaces
    BY <1>1, <1>3, <1>5, <2>2 DEF Seen, IInv, StayersSeen
  <2>3. CASE still'[t] = still[t] /\ at[t] = "refcount" /\ at'[t] = "readers" /\ rw_refcount = 0
    BY <1>1, <1>2, <1>3, <1>5, <2>3 DEF Seen, TearPlaces
  <2>4. CASE still'[t] = still[t] /\ at[t] = "readers" /\ at'[t] = "writers" /\ rw_nwaitreaders = 0
    BY <1>1, <1>2, <1>3, <1>5, <2>4 DEF Seen, TearPlaces, IInv, StayersSeen
  <2>5. CASE still'[t] = still[t] /\ at[t] = "writers" /\ at'[t] = "mutex" /\ rw_nwaitwriters = 0
    BY <1>1, <1>2, <1>3, <1>5, <2>5 DEF Seen, TearPlaces, IInv, StayersSeen
  <2> QED
    BY <1>3, <2>1, <2>2, <2>3, <2>4, <2>5
<1> QED
  BY <1>4, <1>5 DEF StayersSeen

LEMMA DestroySteps ==
  ASSUME IInv, NEW t \in Threads, Destroy(t) \/ DestroyStep(t)
  PROVE  IInv'
<1>1. StayersSeen'
  BY DestroySees
<1> QED
  BY <1>1, DestroyMoves, OutsideStep DEF IInv
-----------------------------------------------------------------------------
(* The loops of rdlock and wrlock. *)

\* A thread with the mutex is the only one that has it.
LEMMA OwnsMutex ==
  ASSUME MutexHeld, NEW t \in Threads, at[t] \in HoldPlaces
  PROVE  rw_mutex = t /\ \A u \in Threads \ {t} : at[u] \notin HoldPlaces
BY DEF MutexHeld

\* A step of t, which has the mutex and keeps it or releases it.
LEMMA MutexStays ==
  ASSUME MutexHeld, NEW t \in Threads, \A u \in Threads \ {t} : at[u] \notin HoldPlaces,
         Alone(t), rw_mutex' = t \/ at'[t] \notin HoldPlaces
  PROVE  MutexHeld'
BY DEF MutexHeld, Alone

LEMMA RdlockStep ==
  ASSUME IInv, NEW t \in Threads, Rdlock(t), Moves(t)
  PROVE  IInv'
<1>0. /\ held[t] = "none" /\ call[t] = "rdlock" /\ at[t] \in {"body", "woken"}
      /\ t \notin WaitingIn("rdlock") /\ rw_mutex = t
      /\ \A u \in Threads \ {t} : at[u] \notin HoldPlaces
      /\ UNCHANGED <<rw_magic, gone, rw_condwriters, rw_nwaitwriters, exited, call, held>>
  BY OwnsMutex DEF Rdlock, IInv, TypeOK, CallsMatch, WaitingIn, LockPlaces, HoldPlaces
<1>1. CASE /\ ReaderMustWait /\ (Sleep(t) \/ Refuse(t))
           /\ rw_nwaitreaders' = rw_nwaitreaders + 1
           /\ rw_condreaders' = IF Sleep(t) THEN rw_condreaders \cup {t} ELSE rw_condreaders
           /\ UNCHANGED rw_refcount
  <2>1. /\ \A u \in Threads : Owns(u)' = Owns(u)
        /\ \A op : WaitingIn(op)' = IF op = "rdlock" THEN WaitingIn(op) \cup {t}
                                                     ELSE WaitingIn(op)
        /\ WaitingWriters' = WaitingWriters
        /\ at' = [at EXCEPT ![t] = IF Sleep(t) THEN "wait" ELSE "refused"]
        /\ rw_mutex' = IF Sleep(t) THEN Nobody ELSE t
        /\ result' \in [Threads -> Int]
        /\ ~Sleep(t) => result'[t] # OK
        /\ Alone(t)
    <3>1. t \notin WaitingWriters
      BY <1>0 DEF WaitingWriters
    <3> QED
      BY <1>0, <1>1, <3>1, WaitEffect DEF IInv
  <2>2. at'[t] \in {"wait", "refused"} /\ (at'[t] = "wait" <=> Sleep(t))
    BY <2>1 DEF IInv, TypeOK
  <2>3. StayersSeen' /\ still' \in [Threads -> SUBSET Threads]
    BY <2>1, <2>2, MoverLeaves DEF IInv, Alone, DestroyPlaces, TearPlaces
  <2>4. TypeOK'
    <3>1. at' \in [Threads -> Places]
      BY <2>1, PlaceNames DEF IInv, TypeOK
    <3> QED
      BY <1>0, <1>1, <2>1, <2>3, <3>1 DEF IInv, TypeOK
  <2>5. CallsMatch' /\ NeverExits'
    BY <1>0, <2>1, <2>2 DEF IInv, CallsMatch, NeverExits, Alone, LockPlaces, LockOps
  <2>6. MutexHeld'
    BY <1>0, <2>1, <2>2, MutexStays DEF IInv, HoldPlaces
  <2>7. RefcountTellsHolders'
    BY <1>1, <2>1, KeepHolders DEF IInv
  <2>8. CountersCountWaiters'
    BY <1>0, <1>1, <2>1, ThreadSets, Subsets DEF IInv, CountersCountWaiters
  <2>9. SleepersWait'
    BY <1>0, <1>1, <2>1, <2>2 DEF IInv, SleepersWait, Alone
  <2>10. NoLostWakeup'
    <3>1. rw_refcount = 0 => WaitingIn("wrlock") # {}
      BY <1>1, ThreadSets, Subsets DEF IInv, ReaderMustWait, CountersCountWaiters
    <3>2. WaitingIn("wrlock") \subseteq WaitingWriters
      BY <1>0 DEF WaitingIn, WaitingWriters, HoldPlaces
    <3> QED
      BY <1>0, <1>1, <2>1, <3>1, <3>2 DEF IInv, NoLostWakeup
  <2> QED
    BY <2>3, <2>4, <2>5, <2>6, <2>7, <2>8, <2>9, <2>10 DEF IInv
<1>2. CASE /\ ~ReaderMustWait /\ Leave(t, OK)
           /\ rw_refcount' = rw_refcount + 1
           /\ UNCHANGED <<rw_nwaitreaders, rw_condreaders>>
  <2>1. /\ \A u \in Threads \ {t} : Owns(u)' = Owns(u)
        /\ Owns(t) = "none" /\ Owns(t)' = "read"
        /\ \A op : WaitingIn(op)' = WaitingIn(op)
        /\ WaitingWriters' = WaitingWriters \ {t}
        /\ Alone(t)
    BY <1>0, <1>2, LeaveEffect DEF IInv, Grants, OK
  <2>2. at' = [at EXCEPT ![t] = "unlock"] /\ at'[t] = "unlock" /\ rw_mutex' = t
    BY <1>2 DEF Leave, IInv, TypeOK
  <2>3. StayersSeen' /\ still' \in [Threads -> SUBSET Threads]
    BY <2>1, <2>2, MoverLeaves DEF IInv, Alone, DestroyPlaces, TearPlaces
  <2>4. TypeOK'
    <3>1. at' \in [Threads -> Places] /\ result' \in [Threads -> Int]
      BY <1>2, PlaceNames DEF IInv, TypeOK, Leave, OK
    <3> QED
      BY <1>0, <1>2, <2>2, <2>3, <3>1 DEF IInv, TypeOK, ReaderMustWait
  <2>5. CallsMatch' /\ NeverExits'
    BY <1>0, <2>1, <2>2 DEF IInv, CallsMatch, NeverExits, Alone, LockPlaces
  <2>6. MutexHeld'
    BY <1>0, <2>1, <2>2, MutexStays DEF IInv
  <2>7. RefcountTellsHolders'
    BY <1>2, <2>1, GainRead DEF IInv, ReaderMustWait
  <2>8. CountersCountWaiters'
    BY <1>0, <1>2, <2>1 DEF IInv, CountersCountWaiters
  <2>9. SleepersWait'
    BY <1>0, <1>2, <2>1 DEF IInv, SleepersWait, Alone
  <2>10. NoLostWakeup'
    BY <1>2 DEF IInv, TypeOK, NoLostWakeup, ReaderMustWait
  <2> QED
    BY <2>3, <2>4, <2>5, <2>6, <2>7, <2>8, <2>9, <2>10 DEF IInv
<1>3. ~(Sleep(t) /\ Refuse(t))
  BY <1>0 DEF Sleep, Refuse, IInv, TypeOK
<1> QED
  BY <1>1, <1>2, <1>3 DEF Rdlock

LEMMA WrlockStep ==
  ASSUME IInv, NEW t \in Threads, Wrlock(t), Moves(t)
  PROVE  IInv'
<1>0. /\ held[t] = "none" /\ call[t] = "wrlock" /\ at[t] \in {"body", "woken"}
      /\ t \notin WaitingIn("wrlock") /\ rw_mutex = t
      /\ \A u \in Threads \ {t} : at[u] \notin HoldPlaces
      /\ UNCHANGED <<rw_magic, gone, rw_condreaders, rw_nwaitreaders, exited, call, held>>
  BY OwnsMutex DEF Wrlock, IInv, TypeOK, CallsMatch, WaitingIn, LockPlaces, HoldPlaces
<1>1. CASE /\ WriterMustWait /\ (Sleep(t) \/ Refuse(t))
           /\ rw_nwaitwriters' = rw_nwaitwriters + 1
           /\ rw_condwriters' = IF Sleep(t) THEN rw_condwriters \cup {t} ELSE rw_condwriters
           /\ UNCHANGED rw_refcount
  <2>1. /\ \A u \in Threads : Owns(u)' = Owns(u)
        /\ \A op : WaitingIn(op)' = IF op = "wrlock" THEN WaitingIn(op) \cup {t}
                                                     ELSE WaitingIn(op)
        /\ at' = [at EXCEPT ![t] = IF Sleep(t) THEN "wait" ELSE "refused"]
        /\ rw_mutex' = IF Sleep(t) THEN Nobody ELSE t
        /\ result' \in [Threads -> Int]
        /\ ~Sleep(t) => result'[t] # OK
        /\ Alone(t)
    BY <1>0, <1>1, WaitEffect DEF IInv
  <2>2. at'[t] \in {"wait", "refused"} /\ (at'[t] = "wait" <=> Sleep(t))
    BY <2>1 DEF IInv, TypeOK
  <2>3. StayersSeen' /\ still' \in [Threads -> SUBSET Threads]
    BY <2>1, <2>2, MoverLeaves DEF IInv, Alone, DestroyPlaces, TearPlaces
  <2>4. TypeOK'
    <3>1. at' \in [Threads -> Places]
      BY <2>1, PlaceNames DEF IInv, TypeOK
    <3> QED
      BY <1>0, <1>1, <2>1, <2>3, <3>1 DEF IInv, TypeOK
  <2>5. CallsMatch' /\ NeverExits'
    BY <1>0, <2>1, <2>2 DEF IInv, CallsMatch, NeverExits, Alone, LockPlaces, LockOps
  <2>6. MutexHeld'
    BY <1>0, <2>1, <2>2, MutexStays DEF IInv, HoldPlaces
  <2>7. RefcountTellsHolders'
    BY <1>1, <2>1, KeepHolders DEF IInv
  <2>8. CountersCountWaiters'
    BY <1>0, <1>1, <2>1, ThreadSets, Subsets DEF IInv, CountersCountWaiters
  <2>9. SleepersWait'
    BY <1>0, <1>1, <2>1, <2>2 DEF IInv, SleepersWait, Alone
  <2>10. NoLostWakeup'
    BY <1>1 DEF NoLostWakeup, WriterMustWait
  <2> QED
    BY <2>3, <2>4, <2>5, <2>6, <2>7, <2>8, <2>9, <2>10 DEF IInv
<1>2. CASE /\ ~WriterMustWait /\ Leave(t, OK)
           /\ rw_refcount' = -1
           /\ UNCHANGED <<rw_nwaitwriters, rw_condwriters>>
  <2>1. /\ \A u \in Threads \ {t} : Owns(u)' = Owns(u)
        /\ Owns(t) = "none" /\ Owns(t)' = "write"
        /\ \A op : WaitingIn(op)' = WaitingIn(op)
        /\ Alone(t)
    BY <1>0, <1>2, LeaveEffect DEF IInv, Grants, OK
  <2>2. at' = [at EXCEPT ![t] = "unlock"] /\ at'[t] = "unlock" /\ rw_mutex' = t
    BY <1>2 DEF Leave, IInv, TypeOK
  <2>3. StayersSeen' /\ still' \in [Threads -> SUBSET Threads]
    BY <2>1, <2>2, MoverLeaves DEF IInv, Alone, DestroyPlaces, TearPlaces
  <2>4. TypeOK'
    <3>1. at' \in [Threads -> Places] /\ result' \in [Threads -> Int]
      BY <1>2, PlaceNames DEF IInv, TypeOK, Leave, OK
    <3> QED
      BY <1>0, <1>2, <2>2, <2>3, <3>1 DEF IInv, TypeOK
  <2>5. CallsMatch' /\ NeverExits'
    BY <1>0, <2>1, <2>2 DEF IInv, CallsMatch, NeverExits, Alone, LockPlaces
  <2>6. MutexHeld'
    BY <1>0, <2>1, <2>2, MutexStays DEF IInv
  <2>7. RefcountTellsHolders'
    BY <1>2, <2>1, GainWrite DEF IInv, WriterMustWait
  <2>8. CountersCountWaiters'
    BY <1>0, <1>2, <2>1 DEF IInv, CountersCountWaiters
  <2>9. SleepersWait'
    BY <1>0, <1>2, <2>1 DEF IInv, SleepersWait, Alone
  <2>10. NoLostWakeup'
    BY <1>2 DEF NoLostWakeup
  <2> QED
    BY <2>3, <2>4, <2>5, <2>6, <2>7, <2>8, <2>9, <2>10 DEF IInv
<1>3. ~(Sleep(t) /\ Refuse(t))
  BY <1>0 DEF Sleep, Refuse, IInv, TypeOK
<1> QED
  BY <1>1, <1>2, <1>3 DEF Wrlock

LEMMA WakeStep ==
  ASSUME IInv, NEW t \in Threads, RdlockWake(t) \/ WrlockWake(t), Moves(t)
  PROVE  IInv'
<1>0. /\ call[t] \in {"rdlock", "wrlock"} /\ EndWait(t)
      /\ UNCHANGED <<rw_magic, gone, rw_condreaders, rw_condwriters, rw_refcount,
                     exited, call, held>>
      /\ IF call[t] = "rdlock"
         THEN rw_nwaitreaders' = rw_nwaitreaders - 1 /\ rw_nwaitwriters' = rw_nwaitwriters
         ELSE rw_nwaitwriters' = rw_nwaitwriters - 1 /\ rw_nwaitreaders' = rw_nwaitreaders
  BY DEF RdlockWake, WrlockWake
<1>1. /\ \A u \in Threads : Owns(u)' = Owns(u)
      /\ \A op : WaitingIn(op)' = WaitingIn(op) \ {t}
      /\ t \in WaitingIn(call[t]) /\ WaitingWriters' = WaitingWriters
      /\ at' \in [Threads -> Places]
      /\ at'[t] \in {"woken", "unlock"} /\ rw_mutex' = t /\ UNCHANGED result
      /\ Alone(t)
  BY <1>0, WakeEffect DEF IInv
<1>2. /\ at[t] \in {"wait", "refused"} /\ held[t] = "none"
      /\ t \notin rw_condreaders \cup rw_condwriters
      /\ rw_mutex \in {Nobody, t} /\ \A u \in Threads \ {t} : at[u] \notin HoldPlaces
  <2>1. at[t] = "refused" => \A u \in Threads \ {t} : at[u] \notin HoldPlaces
    BY OwnsMutex DEF IInv, HoldPlaces
  <2>2. rw_mutex = Nobody => \A u \in Threads : at[u] \notin HoldPlaces
    BY ThreadsAssumption DEF IInv, MutexHeld
  <2>3. at[t] = "refused" => rw_mutex = t
    BY DEF IInv, MutexHeld, HoldPlaces
  <2> QED
    BY <1>0, <2>1, <2>2, <2>3
    DEF EndWait, IInv, TypeOK, CallsMatch, SleepersWait, LockPlaces
<1>3. StayersSeen' /\ still' \in [Threads -> SUBSET Threads]
  BY <1>1, MoverLeaves DEF IInv, Alone, DestroyPlaces, TearPlaces
<1>4. CountersCountWaiters'
  <2>1. CASE call[t] = "rdlock"
    <3>1. t \notin WaitingIn("wrlock")
      BY <2>1 DEF WaitingIn
    <3> QED
      BY <1>0, <1>1, <2>1, <3>1, ThreadSets, Subsets DEF IInv, CountersCountWaiters
  <2>2. CASE call[t] = "wrlock"
    <3>1. t \notin WaitingIn("rdlock")
      BY <2>2 DEF WaitingIn
    <3> QED
      BY <1>0, <1>1, <2>2, <3>1, ThreadSets, Subsets DEF IInv, CountersCountWaiters
  <2> QED
    BY <1>0, <2>1, <2>2
<1>5. rw_nwaitreaders' \in Nat /\ rw_nwaitwriters' \in Nat
  BY <1>1, <1>4, ThreadSets, Subsets DEF CountersCountWaiters
<1>6. TypeOK'
  BY <1>0, <1>1, <1>3, <1>5 DEF IInv, TypeOK
<1>7. CallsMatch' /\ NeverExits'
  BY <1>0, <1>1, <1>2 DEF IInv, CallsMatch, NeverExits, Alone, LockPlaces, LockOps
<1>8. MutexHeld'
  BY <1>1, <1>2, MutexStays DEF IInv
<1>9. RefcountTellsHolders'
  BY <1>0, <1>1, KeepHolders DEF IInv
<1>10. SleepersWait' /\ NoLostWakeup'
  BY <1>0, <1>1, <1>2 DEF IInv, SleepersWait, NoLostWakeup, Alone
<1> QED
  BY <1>3, <1>4, <1>6, <1>7, <1>8, <1>9, <1>10 DEF IInv
-----------------------------------------------------------------------------
(* The functions that do not wait. *)

LEMMA TryStep ==
  ASSUME IInv, NEW t \in Threads, Tryrdlock(t) \/ Trywrlock(t), Moves(t)
  PROVE  IInv'
<1>0. /\ held[t] = "none" /\ at[t] = "body" /\ rw_mutex = t
      /\ \A u \in Threads \ {t} : at[u] \notin HoldPlaces
      /\ UNCHANGED <<rw_magic, gone, rw_condreaders, rw_condwriters, rw_nwaitreaders,
                     rw_nwaitwriters, exited, call, held>>
      /\ call[t] \in {"tryrdlock", "trywrlock"}
  BY OwnsMutex
  DEF Tryrdlock, Trywrlock, IInv, TypeOK, CallsMatch, LockPlaces, HoldPlaces
<1>1. ASSUME NEW r \in Int, Leave(t, r),
             \/ r # OK /\ UNCHANGED rw_refcount
             \/ /\ r = OK /\ call[t] = "tryrdlock" /\ ~ReaderMustWait
                /\ rw_refcount' = rw_refcount + 1
             \/ /\ r = OK /\ call[t] = "trywrlock" /\ ~WriterMustWait
                /\ rw_refcount' = -1
      PROVE  IInv'
  <2>1. /\ \A u \in Threads \ {t} : Owns(u)' = Owns(u)
        /\ Owns(t) = "none" /\ Owns(t)' = IF r = OK THEN Grants(call[t]) ELSE "none"
        /\ \A op : WaitingIn(op)' = WaitingIn(op)
        /\ WaitingWriters' = WaitingWriters
        /\ Alone(t)
    <3>1. t \notin WaitingWriters
      BY <1>0 DEF WaitingWriters
    <3> QED
      BY <1>0, <1>1, <3>1, LeaveEffect DEF IInv, Grants
  <2>2. at' = [at EXCEPT ![t] = "unlock"] /\ at'[t] = "unlock" /\ rw_mutex' = t
    BY <1>1 DEF Leave, IInv, TypeOK
  <2>3. StayersSeen' /\ still' \in [Threads -> SUBSET Threads]
    BY <2>1, <2>2, MoverLeaves DEF IInv, Alone, DestroyPlaces, TearPlaces
  <2>4. TypeOK'
    <3>1. at' \in [Threads -> Places] /\ result' \in [Threads -> Int]
      BY <1>1, PlaceNames DEF IInv, TypeOK, Leave
    <3> QED
      BY <1>0, <1>1, <2>2, <2>3, <3>1 DEF IInv, TypeOK, ReaderMustWait
  <2>5. CallsMatch' /\ NeverExits'
    BY <1>0, <2>1, <2>2 DEF IInv, CallsMatch, NeverExits, Alone, LockPlaces
  <2>6. MutexHeld'
    BY <1>0, <2>1, <2>2, MutexStays DEF IInv
  <2>7. RefcountTellsHolders'
    BY <1>1, <2>1, GainRead, GainWrite, KeepHolders
    DEF IInv, ReaderMustWait, WriterMustWait, Grants
  <2>8. CountersCountWaiters'
    BY <1>0, <2>1 DEF IInv, CountersCountWaiters
  <2>9. SleepersWait'
    BY <1>0, <2>1 DEF IInv, SleepersWait, Alone
  <2>10. NoLostWakeup'
    BY <1>0, <1>1, <2>1 DEF IInv, TypeOK, NoLostWakeup, ReaderMustWait
  <2> QED
    BY <2>3, <2>4, <2>5, <2>6, <2>7, <2>8, <2>9, <2>10 DEF IInv
<1> QED
  BY <1>1 DEF Tryrdlock, Trywrlock, OK, EBUSY

LEMMA UnlockStep ==
  ASSUME IInv, NEW t \in Threads, Unlock(t), Moves(t)
  PROVE  IInv'
<1>0. /\ held[t] # "none" /\ at[t] = "body" /\ call[t] = "unlock" /\ rw_mutex = t
      /\ \A u \in Threads \ {t} : at[u] \notin HoldPlaces
      /\ UNCHANGED <<rw_magic, gone, rw_nwaitreaders, rw_nwaitwriters, call, held>>
  BY OwnsMutex DEF Unlock, IInv, TypeOK, CallsMatch, LockPlaces, HoldPlaces
<1>1. Owns(t) # "none" /\ rw_refcount # 0
  BY <1>0, HolderFacts DEF IInv, Owns
<1>2. /\ rw_refcount > 0 \/ rw_refcount = -1
      /\ rw_refcount' = Released /\ WakeWaiters(Released) /\ Leave(t, OK)
      /\ UNCHANGED exited
  BY <1>1 DEF Unlock, IInv, TypeOK
<1>3. /\ \A u \in Threads \ {t} : Owns(u)' = Owns(u)
      /\ Owns(t)' = "none"
      /\ \A op : WaitingIn(op)' = WaitingIn(op)
      /\ WaitingWriters' = WaitingWriters
      /\ Alone(t)
  <2>1. t \notin WaitingWriters
    BY <1>0 DEF WaitingWriters
  <2> QED
    BY <1>0, <1>2, <2>1, LeaveEffect DEF IInv, Grants, OK
<1>4. rw_condreaders' \subseteq rw_condreaders /\ rw_condwriters' \subseteq rw_condwriters
  BY <1>2 DEF WakeWaiters, SignalWriter
<1>5. at' = [at EXCEPT ![t] = "unlock"] /\ at'[t] = "unlock" /\ rw_mutex' = t
  BY <1>2 DEF Leave, IInv, TypeOK
<1>6. StayersSeen' /\ still' \in [Threads -> SUBSET Threads]
  BY <1>3, <1>5, MoverLeaves DEF IInv, Alone, DestroyPlaces, TearPlaces
<1>7. TypeOK'
  <2>1. at' \in [Threads -> Places] /\ result' \in [Threads -> Int]
    BY <1>2, PlaceNames DEF IInv, TypeOK, Leave, OK
  <2> QED
    BY <1>0, <1>2, <1>4, <1>5, <1>6, <2>1 DEF IInv, TypeOK, Released
<1>8. CallsMatch' /\ NeverExits'
  BY <1>0, <1>2, <1>3, <1>5 DEF IInv, CallsMatch, NeverExits, Alone, LockPlaces
<1>9. MutexHeld'
  BY <1>0, <1>3, <1>5, MutexStays DEF IInv
<1>10. RefcountTellsHolders'
  BY <1>1, <1>2, <1>3, GiveBack DEF IInv
<1>11. CountersCountWaiters' /\ SleepersWait'
  BY <1>0, <1>3, <1>4 DEF IInv, CountersCountWaiters, SleepersWait, Alone
<1>12. NoLostWakeup'
  <2>0. WaitingIn("wrlock") \subseteq WaitingWriters
    BY <1>0 DEF WaitingIn, WaitingWriters, HoldPlaces
  <2>1. CASE Released # 0
    BY <1>2, <2>1 DEF NoLostWakeup
  <2>2. CASE Released = 0 /\ rw_nwaitwriters > 0
    <3>1. WaitingIn("wrlock") # {}
      BY <2>2, ThreadSets, Subsets DEF IInv, CountersCountWaiters
    <3>2. SignalWriter
      BY <1>2, <2>2 DEF WakeWaiters, IInv, TypeOK
    <3>3. rw_condwriters \subseteq WaitingIn("wrlock")
      BY DEF IInv, SleepersWait, WaitingIn
    <3>4. WaitingIn("wrlock") \ rw_condwriters' # {}
      BY <3>1, <3>2, <3>3 DEF SignalWriter
    <3> QED
      BY <1>3, <2>0, <3>4 DEF NoLostWakeup
  <2>3. CASE Released = 0 /\ rw_nwaitwriters = 0
    <3>1. WaitingIn("wrlock") = {} /\ (rw_nwaitreaders = 0 => WaitingIn("rdlock") = {})
      BY <2>3, ThreadSets, Subsets DEF IInv, CountersCountWaiters
    <3>2. rw_condwriters = {} /\ (rw_nwaitreaders = 0 => rw_condreaders = {})
      BY <3>1 DEF IInv, SleepersWait, WaitingIn
    <3>3. rw_condreaders' = {} /\ rw_condwriters' = {}
      BY <1>2, <2>3, <3>2 DEF WakeWaiters, IInv, TypeOK
    <3> QED
      BY <3>3 DEF NoLostWakeup
  <2> QED
    BY <2>1, <2>2, <2>3 DEF IInv, TypeOK
<1> QED
  BY <1>6, <1>7, <1>8, <1>9, <1>10, <1>11, <1>12 DEF IInv

LEMMA NextInvariant == IInv /\ [Next]_vars => IInv'
<1> SUFFICES ASSUME IInv, [Next]_vars PROVE IInv'
  OBVIOUS
<1>1. ASSUME NEW t \in Threads, LockStep(t), Moves(t) PROVE IInv'
  BY <1>1, AcquireStep, ReturnStep, RdlockStep, WrlockStep, WakeStep, TryStep, UnlockStep
  DEF LockStep
<1>2. ASSUME NEW t \in Threads, Destroy(t) \/ DestroyStep(t) PROVE IInv'
  BY <1>2, DestroySteps
<1>3. ASSUME NEW t \in Threads, NEW op \in Ops, Call(t, op) PROVE IInv'
  BY <1>3, CallStep
<1>4. ASSUME NEW t \in Threads, SpuriousWakeup(t) PROVE IInv'
  BY <1>4, SpuriousStep
<1>5. CASE UNCHANGED vars
  BY <1>5 DEF vars, fields, threads, IInv, TypeOK, CallsMatch, MutexHeld, SleepersWait,
     StayersSeen, Seen, RefcountTellsHolders, CountersCountWaiters, NoLostWakeup,
     NeverExits, WaitingIn, WaitingWriters, Readers, Writers, Owns
<1> QED
  BY <1>1, <1>2, <1>3, <1>4, <1>5 DEF Next, Step

LEMMA Invariance == Spec => []IInv
BY InitInvariant, NextInvariant, PTL DEF Spec
-----------------------------------------------------------------------------
(***************************************************************************)
(* Every variable keeps its type; the counters of waiting threads never    *)
(* fall below 0 and rw_refcount never below -1.                            *)
(***************************************************************************)
THEOREM TypeCorrect == Spec => []TypeOK
<1>1. IInv => TypeOK
  BY DEF IInv
<1> QED
  BY <1>1, Invariance, PTL

(***************************************************************************)
(* rw_refcount tells who holds the lock: one writer and nobody else, or    *)
(* rw_refcount readers (rdlock.c:25, wrlock.c:24, unlock.c:15-23).         *)
(***************************************************************************)
THEOREM HoldersCounted == Spec => []RefcountTellsHolders
<1>1. IInv => RefcountTellsHolders
  BY DEF IInv
<1> QED
  BY <1>1, Invariance, PTL

(***************************************************************************)
(* rw_nwaitreaders and rw_nwaitwriters count the threads inside            *)
(* pthread_cond_wait (rdlock.c:18-20, wrlock.c:17-19).                     *)
(***************************************************************************)
THEOREM WaitersCounted == Spec => []CountersCountWaiters
<1>1. IInv => CountersCountWaiters
  BY DEF IInv
<1> QED
  BY <1>1, Invariance, PTL

(***************************************************************************)
(* The wakeups of unlock (unlock.c:25-30) are enough: nobody sleeps while  *)
(* nobody holds the lock and nobody is awake to take it.                   *)
(***************************************************************************)
THEOREM WakeupsSuffice == Spec => []NoLostWakeup
<1>1. IInv => NoLostWakeup
  BY DEF IInv
<1> QED
  BY <1>1, Invariance, PTL

(***************************************************************************)
(* Callers that unlock only what they hold never reach exit(1) in unlock   *)
(* (unlock.c:20-23).                                                       *)
(***************************************************************************)
THEOREM UnlockNeverExits == Spec => []NeverExits
<1>1. IInv => NeverExits
  BY DEF IInv
<1> QED
  BY <1>1, Invariance, PTL
-----------------------------------------------------------------------------
(***************************************************************************)
(* Whoever holds the lock or is inside pthread_cond_wait and does not move *)
(* while destroy runs is seen by its tests (destroy.c:10-12), although     *)
(* they read the counts one by one and without the mutex: such a lock is   *)
(* never taken out of service.                                             *)
(***************************************************************************)
THEOREM DestroySafe == Spec => []DestroySeesWhoStays
<1>1. IInv => DestroySeesWhoStays
  <2> SUFFICES ASSUME IInv, NEW d \in Threads, at[d] \in TearPlaces, NEW t \in still[d]
               PROVE  Owns(t) = "none" /\ at[t] \notin {"wait", "refused"}
    BY DEF DestroySeesWhoStays
  <2>1. t \in Threads /\ Seen(d, t)
    BY DEF IInv, TypeOK, StayersSeen
  <2> QED
    BY <2>1 DEF Seen, WaitingIn, IInv, CallsMatch
<1> QED
  BY <1>1, Invariance, PTL
-----------------------------------------------------------------------------
(* The refinement. *)

\* A step that changes neither holders nor waiting writers is a stutter of
\* the abstract lock.
LEMMA AbsStutter ==
  ASSUME \A u \in Threads : Owns(u)' = Owns(u),
         WaitingWriters' = WaitingWriters
  PROVE  UNCHANGED Abs!vars
BY DEF Abs!vars

\* One thread comes to hold something else.
LEMMA AbsHold ==
  ASSUME NEW t \in Threads, \A u \in Threads \ {t} : Owns(u)' = Owns(u)
  PROVE  [u \in Threads |-> Owns(u)]' = [[u \in Threads |-> Owns(u)] EXCEPT ![t] = Owns(t)']
OBVIOUS

LEMMA AbsTakeRead ==
  ASSUME IInv, NEW t \in Threads, ~ReaderMustWait, Owns(t) = "none", Owns(t)' = "read",
         \A u \in Threads \ {t} : Owns(u)' = Owns(u),
         WaitingWriters = {}, WaitingWriters' = WaitingWriters
  PROVE  Abs!Next
<1>1. \A u \in Threads : Owns(u) # "write"
  BY HolderFacts DEF IInv, TypeOK, ReaderMustWait
<1>2. Abs!GrantRead(t)
  BY <1>1, AbsHold DEF Abs!GrantRead
<1> QED
  BY <1>2 DEF Abs!Next

\* A reader that gets in has no writer before it: none is counted, and none
\* is back from its wait, for that writer would have the mutex.
LEMMA NoWriterWaits ==
  ASSUME IInv, NEW t \in Threads, at[t] \in {"body", "woken"}, call[t] # "wrlock",
         ~ReaderMustWait
  PROVE  WaitingWriters = {}
<1>1. WaitingIn("wrlock") = {}
  BY ThreadSets, Subsets DEF IInv, TypeOK, CountersCountWaiters, ReaderMustWait
<1>2. \A u \in Threads \ {t} : at[u] # "woken"
  BY DEF IInv, MutexHeld, HoldPlaces
<1> QED
  BY <1>1, <1>2 DEF WaitingWriters, WaitingIn

LEMMA AbsTakeWrite ==
  ASSUME IInv, NEW t \in Threads, ~WriterMustWait, Owns(t)' = "write",
         \A u \in Threads \ {t} : Owns(u)' = Owns(u),
         WaitingWriters' = WaitingWriters \ {t}
  PROVE  Abs!Next
<1>1. \A u \in Threads : Owns(u) = "none"
  BY HolderFacts DEF IInv, WriterMustWait
<1>2. Abs!GrantWrite(t)
  BY <1>1, AbsHold DEF Abs!GrantWrite, Abs!Free
<1> QED
  BY <1>2 DEF Abs!Next

\* Somebody holds a lock that a writer has to wait for.
LEMMA NotFree ==
  ASSUME IInv, WriterMustWait
  PROVE  \E u \in Threads : Owns(u) # "none"
<1>1. Readers # {} \/ Writers # {}
  BY ThreadSets, Subsets DEF IInv, TypeOK, RefcountTellsHolders, WriterMustWait
<1> QED
  BY <1>1 DEF Readers, Writers

LEMMA AbsRdlock ==
  ASSUME IInv, NEW t \in Threads, Rdlock(t)
  PROVE  [Abs!Next]_(Abs!vars)
<1>1. /\ at[t] \in {"body", "woken"} /\ call[t] = "rdlock" /\ held[t] = "none"
      /\ t \notin WaitingWriters
      /\ UNCHANGED <<call, held>>
  BY DEF Rdlock, IInv, CallsMatch, LockPlaces, WaitingWriters
<1>2. CASE Sleep(t) \/ Refuse(t)
  <2>1. (\A u \in Threads : Owns(u)' = Owns(u)) /\ WaitingWriters' = WaitingWriters
    <3>1. WaitingWriters \ {t} = WaitingWriters
      BY <1>1
    <3> QED
      BY <1>1, <1>2, <3>1, WaitEffect DEF IInv
  <2> QED
    BY <2>1, AbsStutter
<1>3. CASE ~ReaderMustWait /\ Leave(t, OK)
  <2>1. /\ \A u \in Threads \ {t} : Owns(u)' = Owns(u)
        /\ Owns(t) = "none" /\ Owns(t)' = "read" /\ WaitingWriters' = WaitingWriters
    BY <1>1, <1>3, LeaveEffect DEF IInv, Grants, OK
  <2>2. WaitingWriters = {}
    BY <1>1, <1>3, NoWriterWaits
  <2> QED
    BY <1>3, <2>1, <2>2, AbsTakeRead
<1> QED
  BY <1>2, <1>3 DEF Rdlock

LEMMA AbsWrlock ==
  ASSUME IInv, NEW t \in Threads, Wrlock(t)
  PROVE  [Abs!Next]_(Abs!vars)
<1>1. /\ at[t] \in {"body", "woken"} /\ call[t] = "wrlock" /\ held[t] = "none"
      /\ Owns(t) = "none"
      /\ UNCHANGED <<call, held>>
  BY DEF Wrlock, IInv, CallsMatch, LockPlaces, Owns
<1>2. CASE WriterMustWait /\ (Sleep(t) \/ Refuse(t))
  <2>1. /\ \A u \in Threads : Owns(u)' = Owns(u)
        /\ WaitingWriters' = IF Sleep(t) THEN WaitingWriters \cup {t} ELSE WaitingWriters \ {t}
    BY <1>1, <1>2, WaitEffect DEF IInv
  <2>2. CASE Sleep(t)
    <3>1. Abs!Block(t)
      BY <1>1, <1>2, <2>1, <2>2, NotFree DEF Abs!Block, Abs!Free
    <3> QED
      BY <3>1 DEF Abs!Next
  <2>3. CASE ~Sleep(t) /\ t \in WaitingWriters
    <3>1. Abs!Abandon(t)
      BY <1>2, <2>1, <2>3, NotFree DEF Abs!Abandon, Abs!Free
    <3> QED
      BY <3>1 DEF Abs!Next
  <2>4. CASE ~Sleep(t) /\ t \notin WaitingWriters
    BY <2>1, <2>4, AbsStutter
  <2> QED
    BY <2>2, <2>3, <2>4
<1>3. CASE ~WriterMustWait /\ Leave(t, OK)
  <2>1. /\ \A u \in Threads \ {t} : Owns(u)' = Owns(u)
        /\ Owns(t)' = "write" /\ WaitingWriters' = WaitingWriters \ {t}
    BY <1>1, <1>3, LeaveEffect DEF IInv, Grants, OK
  <2> QED
    BY <1>3, <2>1, AbsTakeWrite
<1> QED
  BY <1>2, <1>3 DEF Wrlock

LEMMA AbsTry ==
  ASSUME IInv, NEW t \in Threads, Tryrdlock(t) \/ Trywrlock(t)
  PROVE  [Abs!Next]_(Abs!vars)
<1>1. /\ at[t] = "body" /\ call[t] \in {"tryrdlock", "trywrlock"} /\ held[t] = "none"
      /\ UNCHANGED <<call, held>> /\ OK \in Int /\ EBUSY \in Int /\ OK # EBUSY
      /\ t \notin WaitingWriters
  BY DEF Tryrdlock, Trywrlock, IInv, CallsMatch, LockPlaces, OK, EBUSY, WaitingWriters
<1>2. ASSUME NEW r \in Int, Leave(t, r)
      PROVE  /\ \A u \in Threads \ {t} : Owns(u)' = Owns(u)
             /\ Owns(t) = "none" /\ Owns(t)' = IF r = OK THEN Grants(call[t]) ELSE "none"
             /\ WaitingWriters' = WaitingWriters
             /\ WaitingWriters' = WaitingWriters \ {t}
  BY <1>1, <1>2, LeaveEffect DEF IInv
<1>3. CASE Leave(t, EBUSY)
  <2>1. (\A u \in Threads : Owns(u)' = Owns(u)) /\ WaitingWriters' = WaitingWriters
    BY <1>1, <1>2, <1>3
  <2> QED
    BY <2>1, AbsStutter
<1>4. CASE Leave(t, OK) /\ call[t] = "tryrdlock" /\ ~ReaderMustWait
  <2>1. /\ \A u \in Threads \ {t} : Owns(u)' = Owns(u)
        /\ Owns(t) = "none" /\ Owns(t)' = "read" /\ WaitingWriters' = WaitingWriters
    BY <1>1, <1>2, <1>4 DEF Grants
  <2>2. WaitingWriters = {}
    BY <1>1, <1>4, NoWriterWaits
  <2> QED
    BY <1>4, <2>1, <2>2, AbsTakeRead
<1>5. CASE Leave(t, OK) /\ call[t] = "trywrlock" /\ ~WriterMustWait
  <2>1. /\ \A u \in Threads \ {t} : Owns(u)' = Owns(u)
        /\ Owns(t)' = "write" /\ WaitingWriters' = WaitingWriters \ {t}
    BY <1>1, <1>2, <1>5 DEF Grants
  <2> QED
    BY <1>5, <2>1, AbsTakeWrite
<1> QED
  BY <1>3, <1>4, <1>5 DEF Tryrdlock, Trywrlock

LEMMA AbsUnlock ==
  ASSUME IInv, NEW t \in Threads, Unlock(t)
  PROVE  [Abs!Next]_(Abs!vars)
<1>1. /\ at[t] = "body" /\ call[t] = "unlock" /\ held[t] # "none"
      /\ Owns(t) # "none" /\ UNCHANGED <<call, held>> /\ OK \in Int
      /\ t \notin WaitingWriters
  BY DEF Unlock, IInv, CallsMatch, LockPlaces, Owns, OK, WaitingWriters
<1>2. Leave(t, OK)
  BY <1>1, HolderFacts DEF Unlock, IInv, TypeOK
<1>3. /\ \A u \in Threads \ {t} : Owns(u)' = Owns(u)
      /\ Owns(t)' = "none"
      /\ WaitingWriters' = WaitingWriters
  BY <1>1, <1>2, LeaveEffect DEF IInv, Grants
<1>4. Abs!Release(t)
  BY <1>1, <1>3, AbsHold DEF Abs!Release
<1> QED
  BY <1>4 DEF Abs!Next

\* The other steps of a thread do not show in the abstract lock.
LEMMA AbsOther ==
  ASSUME IInv, NEW t \in Threads,
         \/ \E op \in Ops : Call(t, op)
         \/ Acquire(t) \/ LockFails(t) \/ Return(t) \/ RdlockWake(t) \/ WrlockWake(t)
         \/ SpuriousWakeup(t) \/ Destroy(t) \/ DestroyStep(t)
  PROVE  UNCHANGED Abs!vars
<1>1. CASE \E op \in Ops : Call(t, op)
  BY <1>1, AbsStutter DEF Call, Enter, IInv, TypeOK, Owns, WaitingWriters
<1>2. CASE Acquire(t) \/ LockFails(t) \/ Return(t)
  BY <1>2, AbsStutter
  DEF Acquire, LockFails, Return, IInv, TypeOK, Owns, WaitingWriters
<1>3. CASE RdlockWake(t) \/ WrlockWake(t)
  <2>1. (\A u \in Threads : Owns(u)' = Owns(u)) /\ WaitingWriters' = WaitingWriters
    BY <1>3, WakeEffect DEF RdlockWake, WrlockWake, IInv
  <2> QED
    BY <2>1, AbsStutter
<1>4. CASE SpuriousWakeup(t)
  BY <1>4, AbsStutter DEF SpuriousWakeup, threads, Owns, WaitingWriters
<1>5. CASE Destroy(t) \/ DestroyStep(t)
  <2>1. (\A u \in Threads : Owns(u)' = Owns(u)) /\ WaitingWriters' = WaitingWriters
    BY <1>5, DestroyMoves, OutsideStep DEF IInv
  <2> QED
    BY <2>1, AbsStutter
<1> QED
  BY <1>1, <1>2, <1>3, <1>4, <1>5

LEMMA AbsInit == Init => Abs!Init
BY DEF Init, Abs!Init, Owns, WaitingWriters

LEMMA AbsNext == IInv /\ [Next]_vars => [Abs!Next]_(Abs!vars)
<1> SUFFICES ASSUME IInv, [Next]_vars PROVE [Abs!Next]_(Abs!vars)
  OBVIOUS
<1>1. ASSUME NEW t \in Threads, LockStep(t) PROVE [Abs!Next]_(Abs!vars)
  BY <1>1, AbsRdlock, AbsWrlock, AbsTry, AbsUnlock, AbsOther DEF LockStep
<1>2. ASSUME NEW t \in Threads,
             \/ Destroy(t) \/ DestroyStep(t) \/ SpuriousWakeup(t)
             \/ \E op \in Ops : Call(t, op)
      PROVE  UNCHANGED Abs!vars
  BY <1>2, AbsOther
<1>3. CASE UNCHANGED vars
  BY <1>3, AbsStutter DEF vars, threads, Owns, WaitingWriters
<1> QED
  BY <1>1, <1>2, <1>3 DEF Next, Step

(***************************************************************************)
(* The lock with its mutex, its two condition variables and its counters   *)
(* is the read-write lock of RWLockSpec, writers preferred.                *)
(***************************************************************************)
THEOREM Refinement == Spec => ImplementsRWLockSpec
BY AbsInit, AbsNext, Invariance, PTL DEF Spec, ImplementsRWLockSpec, Abs!Spec
=============================================================================
