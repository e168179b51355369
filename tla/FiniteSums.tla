----------------------------- MODULE FiniteSums -----------------------------
(***************************************************************************)
(* What MapThenSumSet computes over a finite set: lemmas for the proofs    *)
(* about models that add up a quantity over their rows.  An induction over *)
(* the subsets of a finite set is carried out on a smallest                *)
(* counterexample, which the well-foundedness of strict inclusion gives.   *)
(***************************************************************************)
EXTENDS Integers, FiniteSetsExt, FiniteSetTheorems, WellFoundedInduction, TLAPS

\* A non-empty collection of subsets of a finite set has a smallest member.
LEMMA SmallestSubset ==
    ASSUME NEW S, IsFiniteSet(S), NEW X \in SUBSET (SUBSET S), X # {}
    PROVE  \E s \in X : \A t \in X : t \subseteq s => t = s
<1> DEFINE R == StrictSubsetOrdering(S)
<1>1. IsWellFoundedOn(R, FiniteSubsetsOf(S))
  BY FS_StrictSubsetOrderingWellFounded
<1>2. X \in SUBSET FiniteSubsetsOf(S)
  BY FS_Subset DEF FiniteSubsetsOf
<1> HIDE DEF R
<1>3. PICK s \in X : \A t \in X : ~(<<t, s>> \in R)
  BY <1>1, <1>2, WFMin
<1>4. \A s1, s2 \in SUBSET S : s1 \subseteq s2 /\ s1 # s2 => <<s1, s2>> \in R
  BY DEF R, StrictSubsetOrdering
<1> QED BY <1>3, <1>4

\* The element MapThenSumSet takes first.
First(s) == CHOOSE x \in s : TRUE

LEMMA FirstIsIn == \A s : s # {} => First(s) \in s
BY DEF First

\* F maps every subset of S to the sum of u over it.
IsSum(F, u, S) ==
    F = [s \in SUBSET S |-> IF s = {} THEN 0 ELSE u[First(s)] + F[s \ {First(s)}]]

Agree(u, v, T) == \A x \in T : u[x] = v[x]

NatOn(u, S) == \A x \in S : u[x] \in Nat

LEMMA SumEquation ==
    ASSUME NEW F, NEW u, NEW S, IsSum(F, u, S)
    PROVE  /\ F[{}] = 0
           /\ \A s \in SUBSET S : s # {} => F[s] = u[First(s)] + F[s \ {First(s)}]
<1>1. \A s \in SUBSET S : F[s] = IF s = {} THEN 0 ELSE u[First(s)] + F[s \ {First(s)}]
  BY DEF IsSum
<1> QED BY <1>1

\* A sum depends on the summands only, not on the set they were taken from.
LEMMA SumAgrees ==
    ASSUME NEW S, IsFiniteSet(S), NEW S2, NEW F, NEW u, IsSum(F, u, S),
           NEW G, NEW v, IsSum(G, v, S2),
           NEW T, T \in SUBSET S, T \in SUBSET S2, Agree(u, v, T)
    PROVE  F[T] = G[T]
<1> DEFINE X == {s \in SUBSET T : F[s] # G[s]}
<1> SUFFICES ASSUME X # {} PROVE FALSE
  OBVIOUS
<1>1. X \in SUBSET (SUBSET S)
  OBVIOUS
<1> HIDE DEF X
<1>2. PICK s \in X : \A t \in X : t \subseteq s => t = s
  BY <1>1, SmallestSubset
<1>3. s \in SUBSET T /\ F[s] # G[s] /\ s \in SUBSET S /\ s \in SUBSET S2
  BY DEF X
<1>3a. /\ F[{}] = 0 /\ G[{}] = 0
       /\ \A t \in SUBSET S : t # {} => F[t] = u[First(t)] + F[t \ {First(t)}]
  BY SumEquation
<1>3b. \A t \in SUBSET S2 : t # {} => G[t] = v[First(t)] + G[t \ {First(t)}]
  BY SumEquation
<1>4. s # {}
  BY <1>3, <1>3a
<1> DEFINE c == First(s)
           r == s \ {c}
<1>5. c \in s
  BY <1>4, FirstIsIn
<1>6. r \in SUBSET T /\ r \subseteq s /\ r # s
  BY <1>3, <1>5
<1>7. F[r] = G[r]
  BY <1>2, <1>6 DEF X
<1>8. F[s] = u[c] + F[r] /\ G[s] = v[c] + G[r]
  BY <1>3, <1>3a, <1>3b, <1>4
<1> QED BY <1>3, <1>5, <1>7, <1>8 DEF Agree

\* The recursive function exists on every finite set.
LEMMA SumExists ==
    ASSUME NEW S, IsFiniteSet(S), NEW u
    PROVE  \E F : IsSum(F, u, S)
<1> DEFINE X == {s \in SUBSET S : ~\E F : IsSum(F, u, s)}
<1> SUFFICES ASSUME X # {} PROVE FALSE
  OBVIOUS
<1>a. X \in SUBSET (SUBSET S)
  OBVIOUS
<1> HIDE DEF X
<1>1. PICK s \in X : \A t \in X : t \subseteq s => t = s
  BY <1>a, SmallestSubset
<1>2. s \in SUBSET S /\ ~\E F : IsSum(F, u, s)
  BY DEF X
<1>3. \A t \in SUBSET s : t # s => \E F : IsSum(F, u, t)
  BY <1>1, <1>2 DEF X
<1> DEFINE H(t) == CHOOSE F : IsSum(F, u, t)
           c == First(s)
           r == s \ {c}
           v(t) == IF t = s THEN IF s = {} THEN 0 ELSE u[c] + H(r)[r] ELSE H(t)[t]
           F0 == [t \in SUBSET s |-> v(t)]
<1>4. \A t \in SUBSET s : t # s => IsSum(H(t), u, t)
  BY <1>3
<1>5. \A t \in SUBSET s : IsFiniteSet(t)
  BY <1>2, FS_Subset
<1> HIDE DEF H
<1>6. ASSUME NEW t \in SUBSET s
      PROVE  v(t) = IF t = {} THEN 0 ELSE u[First(t)] + v(t \ {First(t)})
  <2> DEFINE d == First(t)
             q == t \ {d}
  <2>1. CASE t = {}
    <3>1. CASE s = {}
      BY <2>1, <3>1
    <3>2. CASE s # {}
      BY <2>1, <3>2, <1>4, SumEquation
    <3> QED BY <3>1, <3>2
  <2>2. CASE t # {}
    <3>1. d \in t /\ q \in SUBSET s /\ q # s /\ q \in SUBSET t /\ q # t
      BY <2>2, FirstIsIn
    <3>2. v(q) = H(q)[q]
      BY <3>1
    <3>3. CASE t = s
      BY <2>2, <3>2, <3>3
    <3>4. CASE t # s
      <4>1. IsSum(H(t), u, t) /\ IsSum(H(q), u, q) /\ IsFiniteSet(t)
        BY <1>4, <1>5, <3>1, <3>4
      <4>2. H(t)[q] = H(q)[q]
        <5> DEFINE F == H(t)
                   G == H(q)
        <5> HIDE DEF d, q, F, G
        <5>1. IsSum(F, u, t) /\ IsSum(G, u, q) /\ q \in SUBSET t /\ q \in SUBSET q
              /\ Agree(u, u, q)
          BY <3>1, <4>1 DEF F, G, Agree
        <5>2. F[q] = G[q]
          BY <4>1, <5>1, SumAgrees
        <5> QED BY <5>2 DEF F, G
      <4>3. H(t)[t] = u[d] + H(t)[q]
        <5> DEFINE F == H(t)
        <5> HIDE DEF F
        <5>1. \A x \in SUBSET t : x # {} => F[x] = u[First(x)] + F[x \ {First(x)}]
          BY <4>1, SumEquation DEF F
        <5> QED BY <5>1, <2>2 DEF F
      <4>4. v(t) = H(t)[t]
        BY <3>4
      <4> QED BY <2>2, <3>2, <4>2, <4>3, <4>4
    <3> QED BY <3>3, <3>4
  <2> QED BY <2>1, <2>2
<1> HIDE DEF v
<1>7. \A t \in SUBSET s : t # {} => t \ {First(t)} \in SUBSET s
  OBVIOUS
<1>8. F0 = [t \in SUBSET s |-> IF t = {} THEN 0 ELSE u[First(t)] + F0[t \ {First(t)}]]
  <2>1. \A t \in SUBSET s : v(t) = IF t = {} THEN 0 ELSE u[First(t)] + F0[t \ {First(t)}]
    BY <1>6, <1>7
  <2> QED BY <2>1
<1> QED BY <1>2, <1>8 DEF IsSum

\* A sum of naturals is a natural.
LEMMA SumIsNat ==
    ASSUME NEW S, IsFiniteSet(S), NEW F, NEW u, IsSum(F, u, S), NatOn(u, S)
    PROVE  \A s \in SUBSET S : F[s] \in Nat
<1> DEFINE X == {s \in SUBSET S : F[s] \notin Nat}
<1> SUFFICES ASSUME X # {} PROVE FALSE
  OBVIOUS
<1>a. X \in SUBSET (SUBSET S)
  OBVIOUS
<1> HIDE DEF X
<1>1. PICK s \in X : \A t \in X : t \subseteq s => t = s
  BY <1>a, SmallestSubset
<1>2. s \in SUBSET S /\ F[s] \notin Nat
  BY DEF X
<1>b. \A t \in SUBSET S : t # {} => F[t] = u[First(t)] + F[t \ {First(t)}]
  BY SumEquation
<1>c. F[{}] = 0
  BY SumEquation
<1>3. s # {}
  BY <1>2, <1>c
<1>4. First(s) \in s
  BY <1>3, FirstIsIn
<1>5. F[s \ {First(s)}] \in Nat
  BY <1>1, <1>2, <1>4 DEF X
<1>6. F[s] = u[First(s)] + F[s \ {First(s)}]
  BY <1>2, <1>3, <1>b
<1> QED BY <1>2, <1>4, <1>5, <1>6 DEF NatOn

\* Any element may be taken out of a sum, not only the one taken first.
LEMMA SumTakesOut ==
    ASSUME NEW S, IsFiniteSet(S), NEW F, NEW u, IsSum(F, u, S), NatOn(u, S)
    PROVE  \A s \in SUBSET S : \A x \in s : F[s] = u[x] + F[s \ {x}]
<1> DEFINE X == {s \in SUBSET S : \E x \in s : F[s] # u[x] + F[s \ {x}]}
<1> SUFFICES ASSUME X # {} PROVE FALSE
  OBVIOUS
<1>0. \A s \in SUBSET S : F[s] \in Nat
  BY SumIsNat
<1>a. X \in SUBSET (SUBSET S)
  OBVIOUS
<1> HIDE DEF X
<1>1. PICK s \in X : \A t \in X : t \subseteq s => t = s
  BY <1>a, SmallestSubset
<1>2. PICK x \in s : F[s] # u[x] + F[s \ {x}]
  BY DEF X
<1>b. \A t \in SUBSET S : t # {} => F[t] = u[First(t)] + F[t \ {First(t)}]
  BY SumEquation
<1> DEFINE c == First(s)
<1>3. s \in SUBSET S /\ s # {} /\ c \in s
  BY <1>2, <1>a, FirstIsIn
<1>4. F[s] = u[c] + F[s \ {c}]
  BY <1>3, <1>b
<1>5. x # c
  BY <1>2, <1>4
<1> HIDE DEF c
<1>6. /\ s \ {c} \in SUBSET S /\ s \ {c} \subseteq s /\ s \ {c} # s /\ x \in s \ {c}
      /\ s \ {x} \in SUBSET S /\ s \ {x} \subseteq s /\ s \ {x} # s /\ c \in s \ {x}
  BY <1>3, <1>5
<1>7. F[s \ {c}] = u[x] + F[(s \ {c}) \ {x}]
  BY <1>1, <1>6 DEF X
<1>8. F[s \ {x}] = u[c] + F[(s \ {x}) \ {c}]
  BY <1>1, <1>6 DEF X
<1> DEFINE q == (s \ {c}) \ {x}
<1>9. q = (s \ {x}) \ {c} /\ q \in SUBSET S
  BY <1>3
<1> HIDE DEF q
<1>10. u[c] \in Nat /\ u[x] \in Nat /\ F[q] \in Nat
  BY <1>0, <1>3, <1>9 DEF NatOn
<1>11. F[s] = u[c] + (u[x] + F[q]) /\ F[s \ {x}] = u[c] + F[q]
  BY <1>4, <1>7, <1>8, <1>9 DEF q
<1> QED BY <1>2, <1>10, <1>11

LEMMA SumTakesOne ==
    ASSUME NEW S, IsFiniteSet(S), NEW F, NEW u, IsSum(F, u, S), NatOn(u, S), NEW x \in S
    PROVE  F[S] = u[x] + F[S \ {x}]
<1>1. S \in SUBSET S
  OBVIOUS
<1> QED BY <1>1, SumTakesOut

\* A sum of naturals grows with the set.
LEMMA SumGrows ==
    ASSUME NEW S, IsFiniteSet(S), NEW F, NEW u, IsSum(F, u, S), NatOn(u, S),
           NEW T \in SUBSET S
    PROVE  F[T] <= F[S]
<1> DEFINE X == {s \in SUBSET S : T \subseteq s /\ ~(F[T] <= F[s])}
<1> SUFFICES ASSUME X # {} PROVE FALSE
  OBVIOUS
<1>0. \A s \in SUBSET S : F[s] \in Nat
  BY SumIsNat
<1>a. X \in SUBSET (SUBSET S)
  OBVIOUS
<1> HIDE DEF X
<1>1. PICK s \in X : \A t \in X : t \subseteq s => t = s
  BY <1>a, SmallestSubset
<1>2. s \in SUBSET S /\ T \subseteq s /\ ~(F[T] <= F[s])
  BY DEF X
<1>3. s # T
  BY <1>0, <1>2
<1>4. PICK x \in s : x \notin T
  BY <1>2, <1>3
<1>5. s \ {x} \in SUBSET S /\ T \subseteq s \ {x} /\ s \ {x} \subseteq s /\ s \ {x} # s
  BY <1>2, <1>4
<1>6. F[T] <= F[s \ {x}]
  BY <1>1, <1>5 DEF X
<1>7. F[s] = u[x] + F[s \ {x}]
  BY <1>2, <1>4, SumTakesOut
<1>8. u[x] \in Nat /\ F[s \ {x}] \in Nat /\ F[T] \in Nat /\ F[s] \in Nat
  BY <1>0, <1>2, <1>4, <1>5 DEF NatOn
<1> QED BY <1>2, <1>6, <1>7, <1>8
=============================================================================
