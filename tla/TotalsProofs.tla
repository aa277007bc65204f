---------------------------- MODULE TotalsProofs ----------------------------
(***************************************************************************)
(* What the proofs about the programs that count need to know of totals    *)
(* and of the number of threads at a place.                                *)
(***************************************************************************)
EXTENDS Totals, FiniteSetTheorems, TLAPS

LEMMA UnitsOf ==
  ASSUME NEW S, NEW f \in [S -> Nat]
  PROVE  \A x : x \in Units(f) <=> \E t \in S : \E k \in 1 .. f[t] : x = <<t, k>>
BY DEF Units

LEMMA TotalOfNothing ==
  ASSUME NEW S, NEW f \in [S -> Nat], \A t \in S : f[t] = 0
  PROVE  IsFiniteSet(Units(f)) /\ Total(f) = 0
<1>1. Units(f) = {}
  BY UnitsOf
<1> QED
  BY <1>1, FS_EmptySet DEF Total

\* g counts one more than f for t, and for the others what f counts.
OneMore(S, f, t, g) == /\ f \in [S -> Nat] /\ IsFiniteSet(Units(f)) /\ t \in S
                       /\ g \in [S -> Nat] /\ g[t] = f[t] + 1
                       /\ \A u \in S \ {t} : g[u] = f[u]

LEMMA TotalPlusOne ==
  ASSUME NEW S, NEW f, NEW t, NEW g, OneMore(S, f, t, g)
  PROVE  /\ IsFiniteSet(Units(g))
         /\ Total(f) \in Nat /\ Total(g) = Total(f) + 1
<1>0. f \in [S -> Nat] /\ IsFiniteSet(Units(f)) /\ t \in S
  BY DEF OneMore
<1>1. g \in [S -> Nat] /\ g[t] = f[t] + 1 /\ \A u \in S \ {t} : g[u] = f[u]
  BY DEF OneMore
<1> USE <1>0
<1>2. <<t, f[t] + 1>> \notin Units(f)
  <2> SUFFICES ASSUME NEW u \in S, NEW k \in 1 .. f[u], <<t, f[t] + 1>> = <<u, k>>
               PROVE  FALSE
    BY UnitsOf
  <2> QED
    OBVIOUS
<1>5. \A x : x \in Units(f) <=> \E u \in S : \E k \in 1 .. f[u] : x = <<u, k>>
  BY UnitsOf
<1>6. \A x : x \in Units(g) <=> \E u \in S : \E k \in 1 .. g[u] : x = <<u, k>>
  BY <1>1, UnitsOf
<1>3. ASSUME NEW x PROVE x \in Units(g) <=> x \in Units(f) \cup {<<t, f[t] + 1>>}
  <2>1. ASSUME NEW u \in S, NEW k \in 1 .. g[u], x = <<u, k>>
        PROVE  x \in Units(f) \cup {<<t, f[t] + 1>>}
    <3>1. CASE k \in 1 .. f[u]
      BY <1>5, <2>1, <3>1
    <3>2. CASE k \notin 1 .. f[u]
      BY <1>1, <2>1, <3>2
    <3> QED
      BY <3>1, <3>2
  <2>2. ASSUME NEW u \in S, NEW k \in 1 .. f[u] PROVE k \in 1 .. g[u]
    BY <1>1
  <2>3. f[t] + 1 \in 1 .. g[t]
    BY <1>1
  <2>4. x \in Units(g) => x \in Units(f) \cup {<<t, f[t] + 1>>}
    BY <1>6, <2>1
  <2>5. x \in Units(f) => x \in Units(g)
    BY <1>5, <1>6, <2>2
  <2>6. x = <<t, f[t] + 1>> => x \in Units(g)
    BY <1>6, <2>3
  <2> QED
    BY <2>4, <2>5, <2>6
<1>4. Units(g) = Units(f) \cup {<<t, f[t] + 1>>}
  BY <1>3
<1>7. /\ IsFiniteSet(Units(f) \cup {<<t, f[t] + 1>>})
      /\ Cardinality(Units(f) \cup {<<t, f[t] + 1>>}) = Cardinality(Units(f)) + 1
  BY <1>2, FS_AddElement
<1>8. Cardinality(Units(f)) \in Nat
  BY FS_CardinalityType
<1> QED
  BY <1>1, <1>4, <1>7, <1>8 DEF Total

\* The threads that are at one of some places.
LEMMA CountAt ==
  ASSUME NEW S, IsFiniteSet(S), NEW pc, NEW Places
  PROVE  /\ IsFiniteSet({t \in S : pc[t] \in Places})
         /\ Cardinality({t \in S : pc[t] \in Places}) \in Nat
         /\ Cardinality({t \in S : pc[t] \in Places}) = 0 <=> \A t \in S : pc[t] \notin Places
<1>1. IsFiniteSet({t \in S : pc[t] \in Places})
  BY FS_Subset
<1> QED
  BY <1>1, FS_CardinalityType, FS_EmptySet

LEMMA CountMoves ==
  ASSUME NEW S, IsFiniteSet(S), NEW T, S \subseteq T, NEW pc, DOMAIN pc = T, NEW s \in S,
         NEW to, NEW qc, qc = [pc EXCEPT ![s] = to], NEW Places
  PROVE  Cardinality({t \in S : qc[t] \in Places}) =
           Cardinality({t \in S : pc[t] \in Places})
             + (IF to \in Places THEN 1 ELSE 0) - (IF pc[s] \in Places THEN 1 ELSE 0)
<1> DEFINE A == {t \in S : pc[t] \in Places}
           B == {t \in S : qc[t] \in Places}
<1> SUFFICES Cardinality(B) = Cardinality(A) + (IF to \in Places THEN 1 ELSE 0)
                                             - (IF pc[s] \in Places THEN 1 ELSE 0)
  OBVIOUS
<1>1. IsFiniteSet(A) /\ Cardinality(A) \in Nat
  BY CountAt
<1>2. qc[s] = to /\ \A t \in S \ {s} : qc[t] = pc[t]
  OBVIOUS
<1>3. CASE to \in Places /\ pc[s] \in Places
  <2>1. B = A
    BY <1>2, <1>3
  <2> QED
    BY <1>1, <1>3, <2>1
<1>4. CASE to \in Places /\ pc[s] \notin Places
  <2>1. B = A \cup {s} /\ s \notin A
    BY <1>2, <1>4
  <2>2. Cardinality(A \cup {s}) = Cardinality(A) + 1
    BY <1>1, <2>1, FS_AddElement
  <2>3. Cardinality(B) = Cardinality(A) + 1
    BY <2>1, <2>2, Zenon
  <2> HIDE DEF A, B
  <2> QED
    BY <1>1, <1>4, <2>3
<1>5. CASE to \notin Places /\ pc[s] \in Places
  <2>1. B = A \ {s} /\ s \in A
    BY <1>2, <1>5
  <2>2. Cardinality(A \ {s}) = Cardinality(A) - 1
    BY <1>1, <2>1, FS_RemoveElement
  <2>3. Cardinality(B) = Cardinality(A) - 1
    BY <2>1, <2>2, Zenon
  <2> HIDE DEF A, B
  <2> QED
    BY <1>1, <1>5, <2>3
<1>6. CASE to \notin Places /\ pc[s] \notin Places
  <2>1. B = A
    BY <1>2, <1>6
  <2> QED
    BY <1>1, <1>6, <2>1
<1> QED
  BY <1>3, <1>4, <1>5, <1>6
=============================================================================
