---------------------------- MODULE NumberLemmas -----------------------------
(***************************************************************************)
(* Facts about numbers, counts and recursive functions that the proofs of  *)
(* the components share.  The induction is on sets: what is to be shown of *)
(* every number is that the set of the numbers that have it is all of Nat. *)
(***************************************************************************)
EXTENDS Integers, Sequences, FiniteSets, Functions, WellFoundedInduction,
        FiniteSetTheorems, FunctionTheorems, TLAPS

\* A set of natural numbers that has a member has a least one.
LEMMA Least ==
  ASSUME NEW T \in SUBSET Nat, T # {}
  PROVE  \E n \in T : \A k \in T : n <= k
<1>1. PICK n \in T : \A k \in T : <<k, n>> \notin OpToRel(<, Nat)
  BY NatLessThanWellFounded, WFMin
<1>2. \A k \in T : ~ (k < n)
  BY <1>1 DEF OpToRel
<1> QED
  BY <1>2

\* Induction: a set that has 0, and the successor of what it has, has every number.
LEMMA Counting ==
  ASSUME NEW S, 0 \in S, \A n \in Nat : n \in S => n + 1 \in S
  PROVE  Nat \subseteq S
<1> SUFFICES ASSUME Nat \ S # {} PROVE FALSE
  OBVIOUS
<1>1. PICK n \in Nat \ S : \A k \in Nat \ S : n <= k
  BY Least
<1>2. n - 1 \in Nat /\ n - 1 \in S
  BY <1>1
<1> QED
  BY <1>1, <1>2

\* A bounded set of natural numbers that has a member has a greatest one.
LEMMA Greatest ==
  ASSUME NEW n \in Nat, NEW T \in SUBSET (0 .. n), T # {}
  PROVE  \E k \in T : \A i \in T : i <= k
<1> DEFINE Bounds == {b \in Nat : \A i \in T : i <= b}
<1>1. n \in Bounds /\ Bounds \in SUBSET Nat
  OBVIOUS
<1>2. PICK b \in Bounds : \A c \in Bounds : b <= c
  BY <1>1, Least
<1>3. CASE b \in T
  BY <1>2, <1>3
<1>4. CASE b \notin T
  <2>1. b \in Nat /\ \A i \in T : i \in Nat /\ i <= b - 1
    BY <1>2, <1>4
  <2>2. b - 1 \in Nat
    <3>1. PICK i \in T : TRUE
      OBVIOUS
    <3>2. i \in Nat /\ i <= b - 1 /\ b \in Nat
      BY <2>1
    <3> QED
      BY <3>2
  <2>3. b - 1 \in Bounds
    BY <2>1, <2>2
  <2> QED
    BY <2>1, <2>3, <1>2
<1> QED
  BY <1>3, <1>4

\* f goes from e on, each value made by G of the one before and its number.
Builds(f, N, X, e, G) ==
  /\ f \in [0 .. N -> X] /\ f[0] = e
  /\ \A n \in 1 .. N : f[n] = G[<<f[n - 1], n>>]

\* A function that is defined from 0 on by what it is one step before exists.
LEMMA Recursion ==
  ASSUME NEW N, N \in Nat, NEW X, NEW e, e \in X,
         NEW G, G \in [X \X (1 .. N) -> X]
  PROVE  \E f : Builds(f, N, X, e, G)
<1> DEFINE S == {k \in Nat : k <= N => \E f : Builds(f, k, X, e, G)}
<1>1. 0 \in S
  <2>1. Builds([n \in 0 .. 0 |-> e], 0, X, e, G)
    BY DEF Builds
  <2> QED
    BY <2>1
<1>2. ASSUME NEW k \in Nat, k \in S
      PROVE  k + 1 \in S
  <2> SUFFICES ASSUME k + 1 <= N
               PROVE  \E f : Builds(f, k + 1, X, e, G)
    OBVIOUS
  <2>1. PICK f : Builds(f, k, X, e, G)
    BY <1>2
  <2> DEFINE g == [n \in 0 .. k + 1 |-> IF n = k + 1 THEN G[<<f[k], k + 1>>] ELSE f[n]]
  <2>2. f[k] \in X /\ k + 1 \in 1 .. N
    BY <2>1 DEF Builds
  <2>3. G[<<f[k], k + 1>>] \in X
    BY <2>2
  <2>4. g \in [0 .. k + 1 -> X]
    BY <2>1, <2>3 DEF Builds
  <2>5. g[0] = e
    BY <2>1 DEF Builds
  <2>6. ASSUME NEW n \in 1 .. k + 1
        PROVE  g[n] = G[<<g[n - 1], n>>]
    <3>1. CASE n = k + 1
      <4>1. g[n] = G[<<f[k], k + 1>>] /\ n - 1 = k /\ n - 1 # k + 1 /\ n - 1 \in 0 .. k + 1
        BY <3>1
      <4>2. g[n - 1] = f[k]
        BY <4>1
      <4> QED
        BY <4>1, <4>2, <3>1
    <3>2. CASE n # k + 1
      <4>1. n \in 1 .. k /\ n - 1 \in 0 .. k
        BY <3>2
      <4>2. g[n] = f[n] /\ g[n - 1] = f[n - 1]
        BY <4>1, <3>2
      <4> QED
        BY <4>1, <4>2, <2>1 DEF Builds
    <3> QED
      BY <3>1, <3>2
  <2> HIDE DEF g
  <2>7. Builds(g, k + 1, X, e, G)
    BY <2>4, <2>5, <2>6 DEF Builds
  <2> QED
    BY <2>7
<1>3. Nat \subseteq S
  <2> HIDE DEF S
  <2> QED
    BY <1>1, <1>2, Counting
<1>4. N \in S
  BY <1>3
<1> QED
  BY <1>4

Below(K, i) == {j \in K : j < i}

\* The members of a finite set of numbers are numbered from 1 on by how many of
\* them are smaller.
LEMMA Numbered ==
  ASSUME NEW K \in SUBSET Nat, IsFiniteSet(K)
  PROVE  /\ Cardinality(K) \in Nat
         /\ \A i \in K : Cardinality(Below(K, i)) \in 0 .. Cardinality(K) - 1
         /\ \A n \in 1 .. Cardinality(K) : \E i \in K : Cardinality(Below(K, i)) = n - 1
         /\ \A i, k \in K : Cardinality(Below(K, i)) = Cardinality(Below(K, k)) => i = k
<1> DEFINE rank == [i \in K |-> Cardinality(Below(K, i)) + 1]
<1>1. ASSUME NEW i \in K
      PROVE  /\ IsFiniteSet(Below(K, i)) /\ Cardinality(Below(K, i)) \in Nat
             /\ Cardinality(Below(K, i)) < Cardinality(K)
  <2>0. Below(K, i) \in SUBSET K
    BY DEF Below
  <2>1. IsFiniteSet(Below(K, i)) /\ Cardinality(Below(K, i)) <= Cardinality(K)
        /\ (Cardinality(K) = Cardinality(Below(K, i)) => K = Below(K, i))
    BY <2>0, FS_Subset
  <2>2. i \notin Below(K, i)
    BY DEF Below
  <2>3. Cardinality(K) \in Nat /\ Cardinality(Below(K, i)) \in Nat
    BY <2>1, FS_CardinalityType
  <2> QED
    BY <2>1, <2>2, <2>3
<1>2. ASSUME NEW i \in K, NEW k \in K, i < k
      PROVE  Cardinality(Below(K, i)) < Cardinality(Below(K, k))
  <2>1. i \in Nat /\ k \in Nat
    OBVIOUS
  <2>2. \A j \in Below(K, i) : j \in K /\ j < k
    BY <2>1, <1>2 DEF Below
  <2>3. Below(K, i) \in SUBSET Below(K, k)
    BY <2>2 DEF Below
  <2>4. i \in Below(K, k) /\ i \notin Below(K, i)
    BY <2>1, <1>2 DEF Below
  <2>5. /\ Cardinality(Below(K, i)) <= Cardinality(Below(K, k))
        /\ Cardinality(Below(K, k)) = Cardinality(Below(K, i)) => Below(K, k) = Below(K, i)
    BY <1>1, <2>3, FS_Subset
  <2> QED
    BY <1>1, <2>4, <2>5
<1>3. Cardinality(K) \in Nat
  BY FS_CardinalityType
<1>4. rank \in [K -> 1 .. Cardinality(K)]
  BY <1>1, <1>3
<1>5. ASSUME NEW i \in K, NEW k \in K, rank[i] = rank[k]
      PROVE  i = k
  <2>1. Cardinality(Below(K, i)) = Cardinality(Below(K, k))
    BY <1>5, <1>1
  <2> QED
    BY <2>1, <1>1, <1>2
<1>6. rank \in Injection(K, 1 .. Cardinality(K))
  BY <1>4, <1>5 DEF Injection, IsInjective
<1>7. IsFiniteSet(1 .. Cardinality(K)) /\ Cardinality(1 .. Cardinality(K)) = Cardinality(K)
  BY <1>3, FS_Interval
<1>8. rank \in Surjection(K, 1 .. Cardinality(K))
  BY <1>6, <1>7, FS_Injection
<1>9. \A n \in 1 .. Cardinality(K) : \E i \in K : rank[i] = n
  BY <1>8 DEF Surjection
<1>10. ASSUME NEW n \in 1 .. Cardinality(K)
       PROVE  \E i \in K : Cardinality(Below(K, i)) = n - 1
  <2>1. PICK i \in K : rank[i] = n
    BY <1>9
  <2>2. Cardinality(Below(K, i)) = n - 1
    BY <2>1, <1>1
  <2> QED
    BY <2>2
<1>11. \A i \in K : Cardinality(Below(K, i)) \in 0 .. Cardinality(K) - 1
  BY <1>1, <1>3
<1>12. \A i, k \in K : Cardinality(Below(K, i)) = Cardinality(Below(K, k)) => i = k
  BY <1>1, <1>5
<1> QED
  BY <1>3, <1>10, <1>11, <1>12

Nth(K, n) == CHOOSE i \in K : Cardinality(Below(K, i)) = n - 1

\* The n-th members, for the numbers up to how many there are, are the members, and
\* each is the n-th for one n.
LEMMA Nths ==
  ASSUME NEW K \in SUBSET Nat, IsFiniteSet(K)
  PROVE  /\ Cardinality(K) \in Nat
         /\ \A n \in 1 .. Cardinality(K) : Nth(K, n) \in K
         /\ \A n, k \in 1 .. Cardinality(K) : Nth(K, n) = Nth(K, k) => n = k
         /\ \A i \in K : \E n \in 1 .. Cardinality(K) : Nth(K, n) = i
<1>1. /\ Cardinality(K) \in Nat
      /\ \A i \in K : Cardinality(Below(K, i)) \in 0 .. Cardinality(K) - 1
      /\ \A n \in 1 .. Cardinality(K) : \E i \in K : Cardinality(Below(K, i)) = n - 1
      /\ \A i, k \in K : Cardinality(Below(K, i)) = Cardinality(Below(K, k)) => i = k
  BY Numbered
<1>2. ASSUME NEW n \in 1 .. Cardinality(K)
      PROVE  Nth(K, n) \in K /\ Cardinality(Below(K, Nth(K, n))) = n - 1
  <2>1. \E i \in K : Cardinality(Below(K, i)) = n - 1
    BY <1>1
  <2> QED
    BY <2>1 DEF Nth
<1>3. ASSUME NEW n \in 1 .. Cardinality(K), NEW k \in 1 .. Cardinality(K),
             Nth(K, n) = Nth(K, k)
      PROVE  n = k
  <2>1. n - 1 = k - 1
    BY <1>2, <1>3
  <2> QED
    BY <2>1, <1>1
<1>4. ASSUME NEW i \in K
      PROVE  \E n \in 1 .. Cardinality(K) : Nth(K, n) = i
  <2>1. PICK n : n = Cardinality(Below(K, i)) + 1
    OBVIOUS
  <2>2. n \in 1 .. Cardinality(K) /\ Cardinality(Below(K, i)) = n - 1
    BY <1>1, <2>1
  <2>3. Nth(K, n) = i
    BY <1>1, <1>2, <2>2
  <2> QED
    BY <2>2, <2>3
<1> QED
  BY <1>1, <1>2, <1>3, <1>4
==============================================================================
