-------------------------- MODULE DemandFactsProofs --------------------------
(***************************************************************************)
(* What DemandFactsProps says, proved for any claims, goals, plans and     *)
(* initial facts: every need fact is backed, the records are those of rows *)
(* without a match, and every such row has its need fact.                  *)
(***************************************************************************)
EXTENDS DemandFactsProps, NumberLemmas, SequenceTheorems

----------------------------------------------------------------------------
\* Rows.

\* What a row is, whatever the items.
Shaped(r) ==
  /\ r = [plan |-> r.plan, on |-> r.on] /\ r.plan \in Plans
  /\ {i.says : i \in r.on} = Context[r.plan]
  /\ Cardinality(r.on) = Cardinality(Context[r.plan])

LEMMA RowsIn ==
  ASSUME NEW G, NEW r
  PROVE  r \in RowsOn(G) <=> Shaped(r) /\ r.on \subseteq G
<1>1. ASSUME r \in RowsOn(G)
      PROVE  Shaped(r) /\ r.on \subseteq G
  <2>1. PICK p \in Plans : r \in PlanRows(p, G)
    BY <1>1 DEF RowsOn
  <2>2. PICK T \in SUBSET {i \in G : i.says \in Context[p]} :
          /\ r = [plan |-> p, on |-> T]
          /\ {i.says : i \in T} = Context[p] /\ Cardinality(T) = Cardinality(Context[p])
    BY <2>1 DEF PlanRows
  <2> QED
    BY <2>2 DEF Shaped
<1>2. ASSUME Shaped(r), r.on \subseteq G
      PROVE  r \in RowsOn(G)
  <2>1. PICK p, T : p = r.plan /\ T = r.on
    OBVIOUS
  <2>2. /\ r = [plan |-> p, on |-> T] /\ p \in Plans
        /\ {i.says : i \in T} = Context[p] /\ Cardinality(T) = Cardinality(Context[p])
    BY <1>2, <2>1 DEF Shaped
  <2>3. T \in SUBSET {i \in G : i.says \in Context[p]}
    BY <1>2, <2>1, <2>2
  <2>4. r \in PlanRows(p, G)
    BY <2>2, <2>3 DEF PlanRows
  <2> QED
    BY <2>2, <2>4 DEF RowsOn
<1> QED
  BY <1>1, <1>2

LEMMA ShapedFacts ==
  ASSUME NEW r, Shaped(r)
  PROVE  r.on # {} /\ Goal(r) \in Goals /\ Supply[Goal(r)] \subseteq Claims
BY DemandAssumption DEF Shaped, Goal

LEMMA UnmetIn ==
  ASSUME NEW G, NEW r
  PROVE  r \in Unmet(G) <=> Shaped(r) /\ r.on \subseteq G /\ ~Met(r, G)
BY RowsIn DEF Unmet

Claimed(G) == {i \in G : i.says \in Claims}

\* Only claims answer a row.
LEMMA MetSame ==
  ASSUME NEW G, NEW H, Claimed(G) \subseteq H, NEW r, Shaped(r), Met(r, G)
  PROVE  Met(r, H)
BY ShapedFacts DEF Met, Claimed

\* A row that loses its need of an answer is among those that the new item answers.
LEMMA AnswersMet ==
  ASSUME NEW G, NEW i, NEW r
  PROVE  /\ r \in AnsweredBy(i, G) =>
              Shaped(r) /\ r.on \subseteq G \cup {i} /\ Met(r, G \cup {i})
         /\ r \in Unmet(G) /\ Met(r, G \cup {i}) => r \in AnsweredBy(i, G)
<1>1. ASSUME r \in AnsweredBy(i, G)
      PROVE  Shaped(r) /\ r.on \subseteq G \cup {i} /\ Met(r, G \cup {i})
  BY <1>1, RowsIn DEF AnsweredBy, Met
<1>2. ASSUME r \in Unmet(G), Met(r, G \cup {i})
      PROVE  r \in AnsweredBy(i, G)
  <2>1. Shaped(r) /\ r.on \subseteq G /\ ~Met(r, G)
    BY <1>2, UnmetIn
  <2>2. i.says \in Supply[Goal(r)]
    BY <1>2, <2>1 DEF Met
  <2>3. r \in RowsOn(G \cup {i})
    BY <2>1, RowsIn
  <2> QED
    BY <2>2, <2>3 DEF AnsweredBy
<1> QED
  BY <1>1, <1>2

LEMMA AsksUnmet ==
  ASSUME NEW G, NEW H, NEW r
  PROVE  /\ r \in Unmet(H) => r \in Unmet(G) \/ r \in Asked(G, H)
         /\ r \in Asked(G, H) => Shaped(r) /\ r.on \subseteq H
BY UnmetIn DEF Asked

----------------------------------------------------------------------------
\* Finite sets.

LEMMA ImageFinite ==
  ASSUME NEW S, IsFiniteSet(S), NEW f, DOMAIN f = S
  PROVE  IsFiniteSet({f[x] : x \in S})
<1> DEFINE T == {f[x] : x \in S}
           g == [x \in S |-> f[x]]
<1>1. g \in Surjection(S, T)
  BY DEF Surjection
<1> QED
  BY <1>1, FS_Surjection

LEMMA RowsFinite ==
  ASSUME NEW G, IsFiniteSet(G)
  PROVE  /\ IsFiniteSet(RowsOn(G))
         /\ \A r \in RowsOn(G) : IsFiniteSet(r.on)
<1> DEFINE P == Plans \X SUBSET G
           f == [x \in P |-> [plan |-> x[1], on |-> x[2]]]
<1>1. IsFiniteSet(P)
  BY DemandAssumption, FS_SUBSET, FS_Product
<1>2. IsFiniteSet({f[x] : x \in P})
  <2> HIDE DEF P
  <2> QED
    BY <1>1, ImageFinite
<1>3. ASSUME NEW r \in RowsOn(G)
      PROVE  r \in {f[x] : x \in P}
  <2>1. Shaped(r) /\ r.on \subseteq G
    BY RowsIn
  <2>2. <<r.plan, r.on>> \in P
    BY <2>1 DEF Shaped
  <2>3. r = f[<<r.plan, r.on>>]
    BY <2>1, <2>2 DEF Shaped
  <2> QED
    BY <2>2, <2>3
<1>4. \A r \in RowsOn(G) : IsFiniteSet(r.on)
  BY RowsIn, FS_Subset
<1>5. RowsOn(G) \in SUBSET {f[x] : x \in P}
  <2> HIDE DEF P, f
  <2> QED
    BY <1>3
<1>6. IsFiniteSet(RowsOn(G))
  BY <1>2, <1>5, FS_Subset
<1> QED
  BY <1>4, <1>6

LEMMA SequenceFinite ==
  ASSUME NEW X, NEW s \in Seq(X)
  PROVE  IsFiniteSet(ItemsOf(s))
<1>1. DOMAIN s = 1 .. Len(s) /\ Len(s) \in Nat
  OBVIOUS
<1>2. IsFiniteSet(DOMAIN s)
  BY <1>1, FS_Interval
<1> QED
  BY <1>2, ImageFinite DEF ItemsOf

\* The least number above 0 that is not in a finite set.
LEMMA FreeNumber ==
  ASSUME NEW S, IsFiniteSet(S)
  PROVE  \E n \in 1 .. (Cardinality(S) + 1) : n \notin S /\ \A m \in 1 .. (n - 1) : m \in S
<1> DEFINE N == Cardinality(S) + 1
           T == {n \in 1 .. N : n \notin S}
<1>1. Cardinality(S) \in Nat
  BY FS_CardinalityType
<1>2. T # {}
  <2> SUFFICES ASSUME 1 .. N \subseteq S PROVE FALSE
    OBVIOUS
  <2>1. Cardinality(1 .. N) = N
    BY <1>1, FS_Interval
  <2>2. Cardinality(1 .. N) <= Cardinality(S)
    BY FS_Subset
  <2> QED
    BY <1>1, <2>1, <2>2
<1>3. T \in SUBSET Nat
  BY <1>1
<1>4. PICK n \in T : \A k \in T : n <= k
  <2> HIDE DEF T
  <2> QED
    BY <1>2, <1>3, Least
<1>5. \A m \in 1 .. (n - 1) : m \in S
  BY <1>1, <1>4
<1> QED
  BY <1>4, <1>5

----------------------------------------------------------------------------
\* Sequences of items.

\* What the store keeps in order.  A claim is there once.
Orderly(s) ==
  /\ s \in Seq(Items)
  /\ \A k \in DOMAIN s : s[k].says \in Claims \cup Goals /\ s[k].copy # 0
  /\ \A j, k \in DOMAIN s : s[j].says \in Claims /\ s[j].says = s[k].says => j = k

LEMMA OrderlyEmpty == Orderly(<<>>)
BY DEF Orderly

LEMMA OrderlyAppend ==
  ASSUME NEW s, Orderly(s), NEW i \in Items, i.says \in Claims \cup Goals, i.copy # 0,
         i.says \in Claims => \A j \in ItemsOf(s) : j.says # i.says
  PROVE  Orderly(Append(s, i)) /\ ItemsOf(Append(s, i)) = ItemsOf(s) \cup {i}
<1> DEFINE t == Append(s, i)
<1>1. /\ t \in Seq(Items) /\ Len(t) = Len(s) + 1 /\ Len(s) \in Nat
      /\ \A k \in 1 .. Len(s) : t[k] = s[k]
      /\ t[Len(s) + 1] = i
  BY DEF Orderly
<1>2. DOMAIN t = 1 .. Len(t) /\ DOMAIN s = 1 .. Len(s)
  BY <1>1 DEF Orderly
<1>3. \A k \in DOMAIN t : k \in DOMAIN s \/ k = Len(s) + 1
  BY <1>1, <1>2
<1>4. ItemsOf(t) = ItemsOf(s) \cup {i}
  <2> HIDE DEF t
  <2>1. Len(s) + 1 \in DOMAIN t /\ \A k \in DOMAIN s : k \in DOMAIN t
    BY <1>1, <1>2
  <2> QED
    BY <1>1, <1>2, <1>3, <2>1 DEF ItemsOf
<1>5. Orderly(t)
  <2> HIDE DEF t
  <2> QED
    BY <1>1, <1>2, <1>3 DEF Orderly, ItemsOf
<1> QED
  BY <1>4, <1>5

\* kept is what is left of s, from the first item on, without those of S.
Leaves(kept, s, S) ==
  /\ kept \in [0 .. Len(s) -> Seq(Items)]
  /\ kept[0] = <<>>
  /\ \A n \in 1 .. Len(s) :
       kept[n] = IF s[n] \in S THEN kept[n - 1] ELSE Append(kept[n - 1], s[n])
  /\ Stripped(s, S) = kept[Len(s)]

LEMMA StrippedSteps ==
  ASSUME NEW s \in Seq(Items), NEW S
  PROVE  \E kept : Leaves(kept, s, S)
<1> DEFINE N == Len(s)
           X == Seq(Items)
           G == [x \in X \X (1 .. N) |->
                   IF s[x[2]] \in S THEN x[1] ELSE Append(x[1], s[x[2]])]
           Is(g) == g = [k \in 0 .. N |-> IF k = 0 THEN <<>>
                                          ELSE IF s[k] \in S THEN g[k - 1]
                                          ELSE Append(g[k - 1], s[k])]
           kept == CHOOSE g : Is(g)
<1>1. N \in Nat /\ \A k \in 1 .. N : s[k] \in Items
  OBVIOUS
<1>2. G \in [X \X (1 .. N) -> X]
  <2>1. \A x \in X \X (1 .. N) : x[1] \in X /\ x[2] \in 1 .. N
    OBVIOUS
  <2>2. \A t \in X, i \in Items : Append(t, i) \in X
    OBVIOUS
  <2> HIDE DEF X, N
  <2> QED
    BY <1>1, <2>1, <2>2
<1>3. PICK f : Builds(f, N, X, <<>>, G)
  <2>1. <<>> \in X
    OBVIOUS
  <2> HIDE DEF G, N, X
  <2> QED
    BY <1>1, <1>2, <2>1, Recursion
<1>4. ASSUME NEW n \in 1 .. N
      PROVE  f[n] = IF s[n] \in S THEN f[n - 1] ELSE Append(f[n - 1], s[n])
  <2>1. f[n - 1] \in X
    BY <1>1, <1>3 DEF Builds
  <2> HIDE DEF X, N
  <2>2. <<f[n - 1], n>> \in X \X (1 .. N)
    BY <2>1
  <2> QED
    BY <1>3, <2>2 DEF Builds
<1>5. Is(f)
  <2>1. f = [k \in 0 .. N |-> f[k]] /\ f[0] = <<>>
    BY <1>3 DEF Builds
  <2>2. \A k \in 0 .. N : k # 0 => k \in 1 .. N
    BY <1>1
  <2>3. \A k \in 0 .. N : f[k] = IF k = 0 THEN <<>>
                                 ELSE IF s[k] \in S THEN f[k - 1]
                                 ELSE Append(f[k - 1], s[k])
    <3> HIDE DEF N, X, G
    <3> QED
      BY <1>4, <2>1, <2>2
  <2> HIDE DEF N, X, G
  <2> QED
    BY <2>1, <2>3, Zenon
<1>6. Is(kept)
  <2> HIDE DEF Is
  <2> QED
    BY <1>5
<1>7. Stripped(s, S) = kept[N]
  BY DEF Stripped
<1> HIDE DEF kept
<1>8. /\ DOMAIN kept = 0 .. N /\ kept[0] = <<>>
      /\ \A n \in 1 .. N : kept[n] = IF s[n] \in S THEN kept[n - 1]
                                     ELSE Append(kept[n - 1], s[n])
  <2>1. 0 \in 0 .. N /\ \A n \in 1 .. N : n \in 0 .. N /\ n # 0
    BY <1>1
  <2> HIDE DEF N, X, G
  <2>2. DOMAIN kept = 0 .. N
    BY <1>6, Zenon
  <2>3. \A k \in 0 .. N : kept[k] = IF k = 0 THEN <<>>
                                    ELSE IF s[k] \in S THEN kept[k - 1]
                                    ELSE Append(kept[k - 1], s[k])
    BY <1>6, Zenon
  <2> QED
    BY <2>1, <2>2, <2>3
<1>9. kept = f
  <2> DEFINE E == {n \in Nat : n <= N => kept[n] = f[n]}
  <2>1. 0 \in E
    BY <1>3, <1>8 DEF Builds
  <2>2. ASSUME NEW n \in Nat, n \in E
        PROVE  n + 1 \in E
    <3> SUFFICES ASSUME n + 1 <= N PROVE kept[n + 1] = f[n + 1]
      OBVIOUS
    <3>1. n + 1 \in 1 .. N /\ (n + 1) - 1 = n /\ kept[n] = f[n]
      BY <1>1, <2>2
    <3> QED
      BY <1>4, <1>8, <3>1
  <2>3. Nat \subseteq E
    <3> HIDE DEF E
    <3> QED
      BY <2>1, <2>2, Counting
  <2>4. DOMAIN f = 0 .. N /\ f = [n \in 0 .. N |-> f[n]]
    BY <1>3 DEF Builds
  <2>5. kept = [n \in 0 .. N |-> kept[n]]
    BY <1>6
  <2>6. \A n \in 0 .. N : kept[n] = f[n]
    BY <1>1, <2>3
  <2> HIDE DEF Is
  <2> QED
    BY <2>4, <2>5, <2>6
<1> QED
  BY <1>3, <1>7, <1>8, <1>9 DEF Leaves, Builds

LEMMA StrippedFacts ==
  ASSUME NEW s, Orderly(s), NEW S
  PROVE  Orderly(Stripped(s, S)) /\ ItemsOf(Stripped(s, S)) = ItemsOf(s) \ S
<1>1. s \in Seq(Items) /\ Len(s) \in Nat /\ DOMAIN s = 1 .. Len(s)
  BY DEF Orderly
<1>2. PICK kept : Leaves(kept, s, S)
  BY <1>1, StrippedSteps
<1> DEFINE Done(n) == /\ Orderly(kept[n])
                      /\ ItemsOf(kept[n]) = {s[k] : k \in 1 .. n} \ S
           E == {n \in Nat : n <= Len(s) => Done(n)}
<1>3. 0 \in E
  <2>1. kept[0] = <<>> /\ ItemsOf(<<>>) = {}
    BY <1>2 DEF Leaves, ItemsOf
  <2>2. {s[k] : k \in 1 .. 0} = {}
    OBVIOUS
  <2> QED
    BY <2>1, <2>2, OrderlyEmpty
<1>4. ASSUME NEW n \in Nat, n \in E
      PROVE  n + 1 \in E
  <2> SUFFICES ASSUME n + 1 <= Len(s) PROVE Done(n + 1)
    OBVIOUS
  <2>1. n + 1 \in 1 .. Len(s) /\ (n + 1) - 1 = n /\ Done(n)
    BY <1>1, <1>4
  <2>2. kept[n + 1] = IF s[n + 1] \in S THEN kept[n] ELSE Append(kept[n], s[n + 1])
    BY <1>2, <2>1 DEF Leaves
  <2>3. {s[k] : k \in 1 .. n + 1} = {s[k] : k \in 1 .. n} \cup {s[n + 1]}
    <3>1. 1 .. n + 1 = (1 .. n) \cup {n + 1}
      OBVIOUS
    <3> QED
      BY <3>1
  <2>4. CASE s[n + 1] \in S
    BY <2>1, <2>2, <2>3, <2>4
  <2>5. CASE s[n + 1] \notin S
    <3>1. PICK i : i = s[n + 1]
      OBVIOUS
    <3>2. /\ i \in Items /\ i.says \in Claims \cup Goals /\ i.copy # 0
      BY <1>1, <2>1, <3>1 DEF Orderly
    <3>3. ASSUME i.says \in Claims, NEW j \in ItemsOf(kept[n])
          PROVE  j.says # i.says
      <4>1. PICK k \in 1 .. n : j = s[k]
        BY <2>1, <3>3
      <4>2. k \in DOMAIN s /\ n + 1 \in DOMAIN s /\ k # n + 1
        BY <1>1, <2>1
      <4> QED
        BY <3>1, <3>3, <4>1, <4>2 DEF Orderly
    <3>4. /\ Orderly(Append(kept[n], i))
          /\ ItemsOf(Append(kept[n], i)) = ItemsOf(kept[n]) \cup {i}
      BY <2>1, <3>2, <3>3, OrderlyAppend
    <3> QED
      BY <2>1, <2>2, <2>3, <2>5, <3>1, <3>4
  <2> QED
    BY <2>4, <2>5
<1>5. Nat \subseteq E
  <2> HIDE DEF E
  <2> QED
    BY <1>3, <1>4, Counting
<1>6. Done(Len(s))
  <2>1. Len(s) \in E /\ Len(s) <= Len(s)
    <3> HIDE DEF E
    <3> QED
      BY <1>1, <1>5
  <2> HIDE DEF Done
  <2> QED
    BY <2>1
<1>7. ItemsOf(s) = {s[k] : k \in 1 .. Len(s)} /\ Stripped(s, S) = kept[Len(s)]
  BY <1>1, <1>2 DEF ItemsOf, Leaves
<1> QED
  BY <1>6, <1>7

\* One claim takes the place of another.
LEMMA OrderlyExcept ==
  ASSUME NEW s, Orderly(s), NEW k \in DOMAIN s, s[k].says \in Claims,
         NEW i \in Items, i.says \in Claims, i.copy # 0,
         \A j \in ItemsOf(s) : j.says # i.says
  PROVE  /\ Orderly([s EXCEPT ![k] = i])
         /\ ItemsOf([s EXCEPT ![k] = i]) = (ItemsOf(s) \ {s[k]}) \cup {i}
<1> DEFINE t == [s EXCEPT ![k] = i]
<1>1. /\ t \in Seq(Items) /\ DOMAIN t = DOMAIN s /\ t[k] = i
      /\ \A j \in DOMAIN s : j # k => t[j] = s[j]
  BY DEF Orderly
<1>2. \A j \in DOMAIN s : s[j] = s[k] => j = k
  BY DEF Orderly
<1> HIDE DEF t
<1>3. ItemsOf(t) = (ItemsOf(s) \ {s[k]}) \cup {i}
  BY <1>1, <1>2 DEF ItemsOf
<1>4. Orderly(t)
  BY <1>1 DEF Orderly, ItemsOf
<1> QED
  BY <1>3, <1>4 DEF t

\* Goals are put behind what is there.
LEMMA OrderlyConcat ==
  ASSUME NEW s, Orderly(s), NEW t, t \in Seq(Items),
         \A i \in ItemsOf(t) : i.says \in Goals /\ i.copy # 0
  PROVE  Orderly(s \o t) /\ ItemsOf(s \o t) = ItemsOf(s) \cup ItemsOf(t)
<1>1. /\ Len(t) \in Nat /\ DOMAIN t = 1 .. Len(t)
      /\ \A j \in 1 .. Len(t) : t[j] \in ItemsOf(t)
  BY DEF ItemsOf
<1>2. s \in Seq(Items) /\ Len(s) \in Nat /\ DOMAIN s = 1 .. Len(s)
  BY DEF Orderly
<1>3. PICK u, N : u = s \o t /\ N = Len(t)
  OBVIOUS
<1>4. /\ u \in Seq(Items) /\ Len(u) = Len(s) + N /\ DOMAIN u = 1 .. (Len(s) + N)
      /\ \A j \in 1 .. Len(s) : u[j] = s[j]
      /\ \A j \in (Len(s) + 1) .. (Len(s) + N) : u[j] = t[j - Len(s)]
  <2>1. u \in Seq(Items) /\ Len(u) = Len(s) + N
    BY <1>1, <1>2, <1>3, ConcatProperties
  <2>2. DOMAIN u = 1 .. (Len(s) + N)
    BY <2>1
  <2>3. \A j \in 1 .. (Len(s) + N) :
          u[j] = IF j <= Len(s) THEN s[j] ELSE t[j - Len(s)]
    BY <1>1, <1>2, <1>3, ConcatProperties
  <2>4. \A j \in 1 .. Len(s) : j \in 1 .. (Len(s) + N) /\ j <= Len(s)
    BY <1>1, <1>2, <1>3
  <2>5. \A j \in (Len(s) + 1) .. (Len(s) + N) : j \in 1 .. (Len(s) + N) /\ ~(j <= Len(s))
    BY <1>1, <1>2, <1>3
  <2> QED
    BY <2>1, <2>2, <2>3, <2>4, <2>5
<1>5. \A j \in DOMAIN u : j \in DOMAIN s \/ (j \in (Len(s) + 1) .. (Len(s) + N)
                                              /\ j - Len(s) \in 1 .. N)
  BY <1>1, <1>2, <1>3, <1>4
<1>6. \A j \in DOMAIN u : (j \in DOMAIN s /\ u[j] = s[j]) \/ u[j] \in ItemsOf(t)
  BY <1>1, <1>2, <1>3, <1>4, <1>5
<1>7. \A j \in DOMAIN u : u[j].says \in Claims => j \in DOMAIN s /\ u[j] = s[j]
  BY <1>6, DemandAssumption
<1>8. Orderly(u)
  BY <1>4, <1>6, <1>7 DEF Orderly
<1>9. ItemsOf(u) = ItemsOf(s) \cup ItemsOf(t)
  <2>1. ASSUME NEW i \in ItemsOf(t)
        PROVE  i \in ItemsOf(u)
    <3>1. PICK j \in 1 .. N : t[j] = i
      BY <1>1, <1>3 DEF ItemsOf
    <3>2. /\ Len(s) + j \in (Len(s) + 1) .. (Len(s) + N) /\ (Len(s) + j) - Len(s) = j
          /\ Len(s) + j \in DOMAIN u
      BY <1>1, <1>2, <1>3, <1>4
    <3>3. u[Len(s) + j] = i
      BY <1>4, <3>1, <3>2
    <3> QED
      BY <3>2, <3>3 DEF ItemsOf
  <2>2. \A j \in DOMAIN s : j \in DOMAIN u /\ u[j] = s[j]
    BY <1>1, <1>2, <1>3, <1>4
  <2>3. \A i \in ItemsOf(u) : i \in ItemsOf(s) \cup ItemsOf(t)
    BY <1>6 DEF ItemsOf
  <2>4. \A i \in ItemsOf(s) : i \in ItemsOf(u)
    BY <2>2 DEF ItemsOf
  <2> QED
    BY <2>1, <2>3, <2>4
<1> QED
  BY <1>3, <1>8, <1>9

----------------------------------------------------------------------------
\* The graph: what is stored, and what a proof has lent.

LEMMA GraphFacts ==
  ASSUME NEW s, Orderly(s), NEW L, L \subseteq Items, IsFiniteSet(L),
         \A i \in L : i.copy = 0 /\ i.says \notin Claims,
         NEW G, G = ItemsOf(s) \cup L
  PROVE  /\ ItemsOf(s) \cap L = {} /\ ItemsOf(s) \subseteq Items /\ G \subseteq Items
         /\ Claimed(G) = Claimed(ItemsOf(s))
         /\ IsFiniteSet(G)
         /\ \A r : r \in Unmet(ItemsOf(s)) <=> r \in Unmet(G) /\ r.on \subseteq ItemsOf(s)
<1>1. /\ \A i \in ItemsOf(s) : i \in Items /\ i.copy # 0
      /\ s \in Seq(Items)
  BY DEF Orderly, ItemsOf
<1>2. Claimed(G) = Claimed(ItemsOf(s))
  BY DEF Claimed
<1>3. IsFiniteSet(G)
  BY <1>1, SequenceFinite, FS_Union
<1>4. ASSUME NEW r
      PROVE  r \in Unmet(ItemsOf(s)) <=> r \in Unmet(G) /\ r.on \subseteq ItemsOf(s)
  <2>1. Shaped(r) => (Met(r, G) <=> Met(r, ItemsOf(s)))
    <3>1. Claimed(G) \subseteq ItemsOf(s) /\ Claimed(ItemsOf(s)) \subseteq G
      BY <1>2 DEF Claimed
    <3> QED
      BY <3>1, MetSame
  <2> QED
    BY <2>1, UnmetIn
<1> QED
  BY <1>1, <1>2, <1>3, <1>4

LEMMA RowsTyped ==
  ASSUME NEW G, G \subseteq Items
  PROVE  RowsOn(G) \subseteq Rows
<1> SUFFICES ASSUME NEW r \in RowsOn(G) PROVE r \in Rows
  OBVIOUS
<1>1. Shaped(r) /\ r.on \subseteq G
  BY RowsIn
<1> QED
  BY <1>1 DEF Shaped, Rows

----------------------------------------------------------------------------
\* The invariant.

\* Every variable in its range.  What is lent has no copy's number.
Ranged ==
  /\ Orderly(order)
  /\ lent \subseteq Items /\ \A i \in lent : i.copy = 0 /\ i.says \notin Claims
  /\ records \subseteq [row : Rows, need : Items]
  /\ \A a, b \in records : a.row = b.row => a = b
  /\ job \in Job
  /\ proof \in Questions \cup {NoQuestion}
  /\ (proof = NoQuestion => lent = {} /\ ~job.lending)
  /\ late \subseteq Rows /\ unserved \subseteq Rows /\ adrift \subseteq Items

\* There are only finitely many items, so that there is always a new copy.
Small ==
  /\ IsFiniteSet(lent) /\ IsFiniteSet(records) /\ IsFiniteSet(adrift)
  /\ IsFiniteSet(job.asking) /\ IsFiniteSet(late) /\ IsFiniteSet(unserved)
  /\ \A r \in Owners \cup job.asking \cup late \cup unserved : IsFiniteSet(r.on)

\* A record is on the need fact for its row's goal, and only need facts are dropped.
Matched ==
  /\ job.doomed \subseteq NeedFacts
  /\ \A rec \in records : rec.need.says = Goal(rec.row)

\* What is gone is gone, and what is answered has a match.
Departed ==
  /\ job.gone \cap Graph = {} /\ (proof # NoQuestion => job.after = {})
  /\ \A r \in job.answered \cup job.after : Shaped(r) /\ Met(r, Graph)

\* The record of r is right, or its operation is not through with it.
Fitting(r, j) ==
  \/ r \in Unmet(Graph) \cup late \cup j.answered \cup j.after
  \/ r.on \cap j.gone # {}

Current == \A rec \in records : Fitting(rec.row, job)

\* A row of stored facts that has no match is served, or about to be.
Served == \A r \in Unmet(Stored) : r \in Owners \cup unserved \cup job.asking

\* While the requests go to a proof, they back no need fact.
Apart ==
  job.lending => \A n \in NeedFacts :
    n \in job.doomed \cup adrift \/ \E rec \in records : rec.need = n

DemandInv ==
  Ranged /\ Small /\ NeedsBacked /\ Matched /\ Departed /\ Current /\ Served /\ Apart

LEMMA HereFacts ==
  ASSUME Ranged, Small
  PROVE  /\ Stored \cap lent = {} /\ Stored \subseteq Items /\ Graph \subseteq Items
         /\ Claimed(Graph) = Claimed(Stored)
         /\ IsFiniteSet(Graph)
         /\ \A r : r \in Unmet(Stored) <=> r \in Unmet(Graph) /\ r.on \subseteq Stored
BY GraphFacts DEF Ranged, Small, Graph, Stored

LEMMA ThereFacts ==
  ASSUME Orderly(order'), lent' \subseteq Items, IsFiniteSet(lent'),
         \A i \in lent' : i.copy = 0 /\ i.says \notin Claims
  PROVE  /\ Stored' \cap lent' = {} /\ Stored' \subseteq Items /\ Graph' \subseteq Items
         /\ Claimed(Graph') = Claimed(Stored')
         /\ IsFiniteSet(Graph')
         /\ \A r : r \in Unmet(Stored') <=> r \in Unmet(Graph') /\ r.on \subseteq Stored'
BY GraphFacts DEF Graph, Stored

LEMMA StoredFacts ==
  ASSUME Orderly(order)
  PROVE  \A i \in Stored : i \in Items /\ i.copy # 0 /\ i.says \in Claims \cup Goals
BY DEF Orderly, Stored, ItemsOf

\* A copy that is not known has a number of its own.
LEMMA CopyFacts ==
  ASSUME Ranged, Small, NEW c \in Claims \cup Goals
  PROVE  Copy(c) \in Items /\ Copy(c).says = c /\ Copy(c).copy # 0
<1>1. IsFiniteSet({rec.need : rec \in records})
  <2>1. PICK f : f = [rec \in records |-> rec.need]
    OBVIOUS
  <2>2. IsFiniteSet({f[rec] : rec \in records})
    BY <2>1, ImageFinite DEF Small
  <2>3. {f[rec] : rec \in records} = {rec.need : rec \in records}
    BY <2>1
  <2> QED
    BY <2>2, <2>3
<1>2. IsFiniteSet({rec.row : rec \in records})
  <2>1. PICK f : f = [rec \in records |-> rec.row]
    OBVIOUS
  <2>2. IsFiniteSet({f[rec] : rec \in records})
    BY <2>1, ImageFinite DEF Small
  <2>3. {f[rec] : rec \in records} = {rec.row : rec \in records}
    BY <2>1
  <2> QED
    BY <2>2, <2>3
<1>3. IsFiniteSet(UNION {r.on : r \in {rec.row : rec \in records} \cup late \cup unserved})
  <2>1. PICK R : R = {rec.row : rec \in records} \cup late \cup unserved
    OBVIOUS
  <2>2. IsFiniteSet(R)
    BY <1>2, <2>1, FS_Union DEF Small
  <2>3. \A r \in R : IsFiniteSet(r.on)
    BY <2>1 DEF Small, Owners
  <2>4. PICK f : f = [r \in R |-> r.on]
    OBVIOUS
  <2>5. IsFiniteSet({f[r] : r \in R}) /\ {f[r] : r \in R} = {r.on : r \in R}
    BY <2>2, <2>4, ImageFinite
  <2>6. IsFiniteSet(UNION {r.on : r \in R})
    BY <2>3, <2>5, FS_UNION
  <2> QED
    BY <2>1, <2>6
<1>4. IsFiniteSet(Known)
  BY <1>1, <1>3, HereFacts, FS_Union DEF Small, Known
<1>5. PICK used : used = {i.copy : i \in {k \in Known : k.says = c}}
  OBVIOUS
<1>6. IsFiniteSet(used)
  <2>1. PICK K : K = {k \in Known : k.says = c}
    OBVIOUS
  <2>2. IsFiniteSet(K)
    BY <1>4, <2>1, FS_Subset
  <2>3. PICK f : f = [i \in K |-> i.copy]
    OBVIOUS
  <2>4. IsFiniteSet({f[i] : i \in K}) /\ {f[i] : i \in K} = {i.copy : i \in K}
    BY <2>2, <2>3, ImageFinite
  <2> QED
    BY <1>5, <2>1, <2>4
<1>7. PICK n : n = CHOOSE k \in 1 .. (Cardinality(used) + 1) :
                     k \notin used /\ \A m \in 1 .. (k - 1) : m \in used
  OBVIOUS
<1>8. n \in 1 .. (Cardinality(used) + 1) /\ Cardinality(used) \in Nat
  BY <1>6, <1>7, FreeNumber, FS_CardinalityType
<1>9. Copy(c) = [says |-> c, copy |-> n]
  BY <1>5, <1>7 DEF Copy
<1> QED
  BY <1>8, <1>9 DEF Items, Sayable

----------------------------------------------------------------------------
\* The steps of an operation that release records.

\* Faulty records go, and those that are right stay.
LEMMA WithdrawKeeps ==
  ASSUME DemandInv, UNCHANGED <<order, lent, proof, late, unserved, adrift>>,
         NEW S \in SUBSET records, NEW next \in Job, Withdraw(S, next),
         next.doomed = job.doomed, next.asking = job.asking, next.lending = job.lending,
         next.gone \subseteq job.gone, next.answered \subseteq job.answered,
         next.after \subseteq job.after,
         \A rec \in records \ S : Fitting(rec.row, next),
         \A rec \in S : rec.row \in job.answered \cup job.after
                          \/ rec.row.on \cap job.gone # {}
  PROVE  DemandInv'
<1>1. Stored' = Stored /\ Graph' = Graph /\ NeedFacts' = NeedFacts
  BY DEF Stored, Graph, NeedFacts
<1>2. PICK less : less = Unneeded(records \ S, {rec.need : rec \in S})
  OBVIOUS
<1>3. /\ less \subseteq Stored /\ \A n \in less : \E rec \in S : rec.need = n
      /\ \A rec \in records \ S : rec.need \notin less
      /\ \A rec \in S : rec.need \in Stored /\ rec.need \notin less =>
           \E kept \in records \ S : kept.need = rec.need
  BY <1>2 DEF Unneeded
<1>4. /\ records' = records \ S
      /\ job' = [next EXCEPT !.doomed = next.doomed \cup less]
  BY <1>2 DEF Withdraw, Unneeded, Stored
<1>5. /\ job'.doomed = job.doomed \cup less /\ job'.asking = job.asking
      /\ job'.lending = job.lending /\ job'.gone = next.gone
      /\ job'.answered = next.answered /\ job'.after = next.after
  BY <1>4 DEF Job
<1>6. Ranged'
  <2>1. less \subseteq Items
    BY <1>3, StoredFacts DEF DemandInv, Ranged
  <2>2. job' \in Job
    BY <1>4, <2>1 DEF Job
  <2> QED
    BY <1>4, <1>5, <2>2 DEF DemandInv, Ranged
<1>7. Small'
  <2>1. Owners' \subseteq Owners
    BY <1>4 DEF Owners
  <2>2. IsFiniteSet(records')
    BY <1>4, FS_Subset DEF DemandInv, Small
  <2> QED
    BY <1>5, <2>1, <2>2 DEF DemandInv, Small
<1>8. NeedsBacked'
  <2>1. ASSUME NEW n \in NeedFacts
        PROVE  \/ n \in job'.doomed \cup adrift'
               \/ \E rec \in records' : rec.need = n
               \/ \E r \in job'.asking : Goal(r) = n.says
    <3>1. n \in Stored
      BY DEF NeedFacts
    <3>2. CASE \E rec \in records : rec.need = n
      BY <1>3, <1>4, <1>5, <3>1, <3>2
    <3> QED
      BY <1>5, <3>2 DEF DemandInv, NeedsBacked
  <2>2. \A rec \in records' : rec.need \in NeedFacts /\ rec.need \notin job'.doomed
    BY <1>3, <1>4, <1>5 DEF DemandInv, NeedsBacked
  <2> QED
    BY <1>1, <2>1, <2>2 DEF DemandInv, NeedsBacked
<1>9. Matched'
  <2>1. less \subseteq NeedFacts
    BY <1>3 DEF DemandInv, NeedsBacked
  <2> QED
    BY <1>1, <1>4, <1>5, <2>1 DEF DemandInv, Matched
<1>10. Departed'
  BY <1>1, <1>5 DEF DemandInv, Departed
<1>11. Current'
  BY <1>1, <1>4, <1>5 DEF Current, Fitting
<1>12. Served'
  <2> SUFFICES ASSUME NEW r \in Unmet(Stored)
               PROVE  r \in Owners' \cup unserved' \cup job'.asking
    BY <1>1 DEF Served
  <2>1. Shaped(r) /\ r.on \subseteq Graph /\ ~Met(r, Graph)
    BY HereFacts, UnmetIn DEF DemandInv
  <2>2. r \notin job.answered \cup job.after /\ r.on \cap job.gone = {}
    BY <2>1 DEF DemandInv, Departed
  <2>3. r \in Owners => r \in Owners'
    BY <1>4, <2>2 DEF Owners
  <2> QED
    BY <1>5, <2>3 DEF DemandInv, Served
<1>13. Apart'
  <2> SUFFICES ASSUME job.lending, NEW n \in NeedFacts
               PROVE  \/ n \in job'.doomed \cup adrift'
                      \/ \E rec \in records' : rec.need = n
    BY <1>1, <1>5 DEF Apart
  <2>1. n \in Stored
    BY DEF NeedFacts
  <2>2. CASE \E rec \in records : rec.need = n
    BY <1>3, <1>4, <1>5, <2>1, <2>2
  <2> QED
    BY <1>5, <2>2 DEF DemandInv, Apart
<1> QED
  BY <1>6, <1>7, <1>8, <1>9, <1>10, <1>11, <1>12, <1>13 DEF DemandInv

LEMMA ReleaseKeeps ==
  ASSUME DemandInv, Release
  PROVE  DemandInv'
<1>1. PICK S, next : /\ S = {rec \in records : rec.row.on \cap job.gone # {}}
                     /\ next = [job EXCEPT !.gone = {}]
  OBVIOUS
<1>2. Withdraw(S, next) /\ UNCHANGED <<order, lent, proof, late, unserved, adrift>>
  BY <1>1 DEF Release, Withdraw, Unneeded, Stored
<1>3. /\ next \in Job /\ next.doomed = job.doomed /\ next.asking = job.asking
      /\ next.lending = job.lending /\ next.gone = {}
      /\ next.answered = job.answered /\ next.after = job.after
  BY <1>1 DEF DemandInv, Ranged, Job
<1>4. \A rec \in records \ S : Fitting(rec.row, next)
  BY <1>1, <1>3 DEF DemandInv, Current, Fitting
<1>5. /\ S \in SUBSET records
      /\ \A rec \in S : rec.row \in job.answered \cup job.after
                         \/ rec.row.on \cap job.gone # {}
  BY <1>1
<1> QED
  BY <1>2, <1>3, <1>4, <1>5, WithdrawKeeps

LEMMA ResolveKeeps ==
  ASSUME DemandInv, Resolve
  PROVE  DemandInv'
<1>1. PICK S, next : /\ S = {rec \in records : rec.row \in job.answered}
                     /\ next = [job EXCEPT !.answered = {}]
  OBVIOUS
<1>2. Withdraw(S, next) /\ UNCHANGED <<order, lent, proof, late, unserved, adrift>>
  BY <1>1 DEF Resolve, Withdraw, Unneeded, Stored
<1>3. /\ next \in Job /\ next.doomed = job.doomed /\ next.asking = job.asking
      /\ next.lending = job.lending /\ next.gone = job.gone
      /\ next.answered = {} /\ next.after = job.after
  BY <1>1 DEF DemandInv, Ranged, Job
<1>4. \A rec \in records \ S : Fitting(rec.row, next)
  BY <1>1, <1>3 DEF DemandInv, Current, Fitting
<1>5. /\ S \in SUBSET records
      /\ \A rec \in S : rec.row \in job.answered \cup job.after
                         \/ rec.row.on \cap job.gone # {}
  BY <1>1
<1> QED
  BY <1>2, <1>3, <1>4, <1>5, WithdrawKeeps

LEMMA ResolveAfterKeeps ==
  ASSUME DemandInv, ResolveAfter
  PROVE  DemandInv'
<1>1. PICK S, next : /\ S = {rec \in records : rec.row \in job.after}
                     /\ next = [job EXCEPT !.after = {}]
  OBVIOUS
<1>2. Withdraw(S, next) /\ UNCHANGED <<order, lent, proof, late, unserved, adrift>>
  BY <1>1 DEF ResolveAfter, Withdraw, Unneeded, Stored
<1>3. /\ next \in Job /\ next.doomed = job.doomed /\ next.asking = job.asking
      /\ next.lending = job.lending /\ next.gone = job.gone
      /\ next.answered = job.answered /\ next.after = {}
  BY <1>1 DEF DemandInv, Ranged, Job
<1>4. \A rec \in records \ S : Fitting(rec.row, next)
  BY <1>1, <1>3 DEF DemandInv, Current, Fitting
<1>5. /\ S \in SUBSET records
      /\ \A rec \in S : rec.row \in job.answered \cup job.after
                         \/ rec.row.on \cap job.gone # {}
  BY <1>1
<1> QED
  BY <1>2, <1>3, <1>4, <1>5, WithdrawKeeps

LEMMA DropNeedsKeeps ==
  ASSUME DemandInv, DropNeeds
  PROVE  DemandInv'
<1>1. PICK doomed : doomed = job.doomed
  OBVIOUS
<1>2. /\ order' = Stripped(order, doomed)
      /\ UNCHANGED <<lent, records, proof, late, unserved, adrift>>
      /\ job' = [job EXCEPT !.gone = doomed, !.doomed = {}] /\ job.gone = {}
  BY <1>1 DEF DropNeeds, Stripped
<1>3. /\ job'.gone = doomed /\ job'.doomed = {} /\ job'.asking = job.asking
      /\ job'.lending = job.lending /\ job'.answered = job.answered
      /\ job'.after = job.after /\ job' \in Job
  BY <1>1, <1>2 DEF DemandInv, Ranged, Job
<1>4. Orderly(order') /\ Stored' = Stored \ doomed
  BY <1>2, StrippedFacts DEF DemandInv, Ranged, Stored
<1>5. doomed \subseteq Stored /\ \A n \in doomed : n.says \in Goals
  BY <1>1 DEF DemandInv, Matched, NeedFacts
<1>6. doomed \cap lent = {}
  BY <1>5, HereFacts DEF DemandInv
<1>7. Graph' = Graph \ doomed
  BY <1>2, <1>4, <1>6 DEF Graph, Stored
<1>8. Claimed(Graph') = Claimed(Graph)
  BY <1>5, <1>7, DemandAssumption DEF Claimed
<1>9. \A r : Shaped(r) => (Met(r, Graph') <=> Met(r, Graph))
  <2>1. Claimed(Graph) \subseteq Graph' /\ Claimed(Graph') \subseteq Graph
    BY <1>8 DEF Claimed
  <2> QED
    BY <2>1, MetSame
<1>10. Ranged' /\ Small'
  BY <1>2, <1>3, <1>4 DEF DemandInv, Ranged, Small, Owners
<1>11. NeedFacts' = NeedFacts \ doomed
  BY <1>4 DEF NeedFacts
<1>12. NeedsBacked'
  BY <1>1, <1>2, <1>3, <1>11 DEF DemandInv, NeedsBacked
<1>13. Matched'
  BY <1>2, <1>3 DEF DemandInv, Matched
<1>14. Departed'
  BY <1>2, <1>3, <1>7, <1>9 DEF DemandInv, Departed
<1>15. Current'
  <2> SUFFICES ASSUME NEW rec \in records
               PROVE  \/ rec.row \in Unmet(Graph') \cup late
                      \/ rec.row \in job.answered \cup job.after
                      \/ rec.row.on \cap doomed # {}
    BY <1>2, <1>3 DEF Current, Fitting
  <2>1. rec.row \in Unmet(Graph) \cup late \cup job.answered \cup job.after
    BY <1>2 DEF DemandInv, Current, Fitting
  <2>2. CASE rec.row \in Unmet(Graph)
    <3>1. Shaped(rec.row) /\ rec.row.on \subseteq Graph /\ ~Met(rec.row, Graph)
      BY <2>2, UnmetIn
    <3>2. CASE rec.row.on \cap doomed = {}
      <4>1. rec.row.on \subseteq Graph' /\ ~Met(rec.row, Graph')
        BY <1>7, <1>9, <3>1, <3>2
      <4> QED
        BY <3>1, <4>1, UnmetIn
    <3> QED
      BY <3>2
  <2> QED
    BY <2>1, <2>2
<1>16. Served'
  <2> SUFFICES ASSUME NEW r \in Unmet(Stored')
               PROVE  r \in Owners \cup unserved \cup job.asking
    BY <1>2, <1>3 DEF Served, Owners
  <2>1. Shaped(r) /\ r.on \subseteq Graph' /\ ~Met(r, Graph') /\ r.on \subseteq Stored'
    BY <1>2, <1>4, ThereFacts, UnmetIn DEF DemandInv, Ranged, Small
  <2>2. r \in Unmet(Graph) /\ r.on \subseteq Stored
    BY <1>4, <1>7, <1>9, <2>1, UnmetIn
  <2>3. r \in Unmet(Stored)
    BY <2>2, HereFacts DEF DemandInv
  <2> QED
    BY <2>3 DEF DemandInv, Served
<1>17. Apart'
  BY <1>1, <1>2, <1>3, <1>11 DEF DemandInv, Apart
<1> QED
  BY <1>10, <1>12, <1>13, <1>14, <1>15, <1>16, <1>17 DEF DemandInv

----------------------------------------------------------------------------
\* Mutations.

LEMMA OpenKeeps ==
  ASSUME DemandInv, AtRest, lent' = lent, Orderly(order'), NeedFacts' = NeedFacts,
         NEW op \in {"assert", "retract", "modify"}, NEW gone, gone \subseteq Items,
         NEW answered, NEW asking, Open(op, gone, answered, asking),
         gone \cap Graph' = {},
         asking \subseteq RowsOn(Graph) \cup RowsOn(Graph'),
         \A r \in answered : r \in RowsOn(Graph') /\ Met(r, Graph'),
         \A r \in Unmet(Graph') : r \in Unmet(Graph) \cup asking,
         \A r \in Unmet(Graph) : \/ r \in Unmet(Graph') \cup answered
                                 \/ r.on \cap gone # {}
  PROVE  DemandInv'
<1>1. PICK own, told :
        /\ own \in BOOLEAN /\ (own => proof # NoQuestion)
        /\ told = IF proof = NoQuestion THEN answered ELSE {}
        /\ job' = [NoJob EXCEPT !.op = op, !.gone = gone, !.asking = asking,
                     !.answered = told, !.lending = own]
        /\ late' = IF proof = NoQuestion THEN late ELSE late \cup (answered \cap Owners)
        /\ UNCHANGED <<records, proof, unserved, adrift>>
  BY DEF Open
<1>2. /\ job = NoJob /\ job.gone = {} /\ job.doomed = {} /\ job.asking = {}
      /\ job.answered = {} /\ job.after = {}
  BY DEF AtRest, NoJob
<1>3. /\ job'.gone = gone /\ job'.doomed = {} /\ job'.asking = asking
      /\ job'.answered = told /\ job'.after = {} /\ job'.lending = own /\ job'.op = op
      /\ job' = [op |-> op, gone |-> gone, doomed |-> {}, answered |-> told,
                 asking |-> asking, after |-> {}, lending |-> own]
  BY <1>1 DEF NoJob
<1>4. /\ Graph' \subseteq Items /\ IsFiniteSet(Graph') /\ Stored' \cap lent = {}
      /\ \A r : r \in Unmet(Stored') <=> r \in Unmet(Graph') /\ r.on \subseteq Stored'
  BY ThereFacts DEF DemandInv, Ranged, Small
<1>5. Graph \subseteq Items /\ IsFiniteSet(Graph)
  BY HereFacts DEF DemandInv
<1>6. asking \subseteq Rows /\ answered \subseteq Rows
  BY <1>4, <1>5, RowsTyped
<1>7. IsFiniteSet(asking) /\ \A r \in asking : IsFiniteSet(r.on)
  <2>1. IsFiniteSet(RowsOn(Graph) \cup RowsOn(Graph'))
    BY <1>4, <1>5, RowsFinite, FS_Union
  <2> QED
    BY <1>4, <1>5, <2>1, RowsFinite, FS_Subset
<1>8. Owners' = Owners /\ late \subseteq late' /\ late' \subseteq late \cup Owners
  BY <1>1 DEF Owners
<1>9. Ranged'
  <2>1. job' \in Job
    BY <1>1, <1>3, <1>6 DEF Job
  <2>2. late' \subseteq Rows
    BY <1>1, <1>6 DEF DemandInv, Ranged
  <2> QED
    BY <1>1, <1>3, <2>1, <2>2 DEF DemandInv, Ranged
<1>10. Small'
  <2>1. IsFiniteSet(Owners)
    <3>1. PICK f : f = [rec \in records |-> rec.row]
      OBVIOUS
    <3>2. IsFiniteSet({f[rec] : rec \in records}) /\ {f[rec] : rec \in records} = Owners
      BY <3>1, ImageFinite DEF DemandInv, Small, Owners
    <3> QED
      BY <3>2
  <2>2. IsFiniteSet(late')
    BY <1>8, <2>1, FS_Union, FS_Subset DEF DemandInv, Small
  <2>3. \A r \in Owners' \cup job'.asking \cup late' \cup unserved' : IsFiniteSet(r.on)
    BY <1>1, <1>3, <1>7, <1>8 DEF DemandInv, Small
  <2> QED
    BY <1>1, <1>3, <1>7, <2>2, <2>3 DEF DemandInv, Small
<1>11. NeedsBacked'
  BY <1>1, <1>2, <1>3 DEF DemandInv, NeedsBacked
<1>12. Matched'
  BY <1>1, <1>3 DEF DemandInv, Matched
<1>13. Departed'
  BY <1>1, <1>3, RowsIn DEF Departed
<1>14. Current'
  <2> SUFFICES ASSUME NEW rec \in records
               PROVE  \/ rec.row \in Unmet(Graph') \cup late' \cup told
                      \/ rec.row.on \cap gone # {}
    BY <1>1, <1>3 DEF Current, Fitting
  <2>1. rec.row \in Unmet(Graph) \cup late
    BY <1>2 DEF DemandInv, Current, Fitting
  <2>2. rec.row \in Owners
    BY DEF Owners
  <2> QED
    BY <1>1, <1>8, <2>1, <2>2
<1>15. Served'
  <2> SUFFICES ASSUME NEW r \in Unmet(Stored')
               PROVE  r \in Owners \cup unserved \cup asking
    BY <1>1, <1>3, <1>8 DEF Served
  <2>1. r \in Unmet(Graph') /\ r.on \subseteq Stored'
    BY <1>4
  <2>2. CASE r \in Unmet(Graph)
    <3>1. r.on \subseteq Stored \cup lent
      BY <2>2, UnmetIn DEF Graph
    <3>2. r \in Unmet(Stored)
      BY <1>4, <2>1, <2>2, <3>1, HereFacts DEF DemandInv
    <3> QED
      BY <1>2, <3>2 DEF DemandInv, Served
  <2> QED
    BY <2>1, <2>2
<1>16. Apart'
  BY <1>1, <1>2, <1>3 DEF DemandInv, Apart, NeedsBacked
<1> QED
  BY <1>9, <1>10, <1>11, <1>12, <1>13, <1>14, <1>15, <1>16 DEF DemandInv

\* One claim joins a graph.
LEMMA JoinRows ==
  ASSUME NEW G, NEW i, NEW H, H = G \cup {i}
  PROVE  /\ \A r \in AnsweredBy(i, G) : r \in RowsOn(H) /\ Met(r, H)
         /\ \A r \in Unmet(G) : r \in Unmet(H) \cup AnsweredBy(i, G)
<1>1. \A r \in AnsweredBy(i, G) : r \in RowsOn(H) /\ Met(r, H)
  BY AnswersMet, RowsIn
<1>2. ASSUME NEW r \in Unmet(G)
      PROVE  r \in Unmet(H) \cup AnsweredBy(i, G)
  BY AnswersMet, UnmetIn
<1> QED
  BY <1>1, <1>2

\* One claim leaves a graph.
LEMMA LeaveRows ==
  ASSUME NEW G, NEW i, NEW H, H = G \ {i}
  PROVE  \A r \in Unmet(G) : r \in Unmet(H) \/ r.on \cap {i} # {}
<1> SUFFICES ASSUME NEW r \in Unmet(G), i \notin r.on PROVE r \in Unmet(H)
  OBVIOUS
<1>1. Shaped(r) /\ r.on \subseteq G /\ ~Met(r, G)
  BY UnmetIn
<1>2. ~Met(r, H)
  BY <1>1 DEF Met
<1> QED
  BY <1>1, <1>2, UnmetIn

LEMMA AsksRows ==
  ASSUME NEW G, NEW H
  PROVE  /\ Asked(G, H) \subseteq RowsOn(H)
         /\ \A r \in Unmet(H) : r \in Unmet(G) \cup Asked(G, H)
BY DEF Asked, Unmet

LEMMA AssertClaimKeeps ==
  ASSUME DemandInv, AssertClaim
  PROVE  DemandInv'
<1>1. PICK c \in Claims :
        /\ Unsaid(c)
        /\ order' = Append(order, Copy(c))
        /\ Open("assert", {}, AnsweredBy(Copy(c), Graph), Asked(Graph, Graph'))
  BY DEF AssertClaim
<1>2. PICK i, answered, asking :
        i = Copy(c) /\ answered = AnsweredBy(i, Graph) /\ asking = Asked(Graph, Graph')
  OBVIOUS
<1>3. lent' = lent /\ AtRest
  BY DEF AssertClaim, Mutable
<1>4. i \in Items /\ i.says = c /\ i.copy # 0
  BY <1>2, CopyFacts DEF DemandInv
<1>5. Orderly(order') /\ Stored' = Stored \cup {i}
  <2>1. \A j \in ItemsOf(order) : j.says # i.says
    BY <1>1, <1>4 DEF Unsaid, Stored
  <2>2. order' = Append(order, i)
    BY <1>1, <1>2
  <2> QED
    BY <1>4, <2>1, <2>2, OrderlyAppend DEF DemandInv, Ranged, Stored
<1>6. Graph' = Graph \cup {i}
  BY <1>3, <1>5 DEF Graph, Stored
<1>7. NeedFacts' = NeedFacts
  BY <1>4, <1>5, DemandAssumption DEF NeedFacts
<1>8. Open("assert", {}, answered, asking)
  BY <1>1, <1>2 DEF Open
<1>9. /\ asking \subseteq RowsOn(Graph) \cup RowsOn(Graph')
      /\ \A r \in Unmet(Graph') : r \in Unmet(Graph) \cup asking
  BY <1>2, AsksRows
<1>10. /\ \A r \in answered : r \in RowsOn(Graph') /\ Met(r, Graph')
       /\ \A r \in Unmet(Graph) : r \in Unmet(Graph') \cup answered
  BY <1>2, <1>6, JoinRows
<1>11. /\ \A r \in Unmet(Graph) : \/ r \in Unmet(Graph') \cup answered
                                  \/ r.on \cap {} # {}
       /\ {} \cap Graph' = {} /\ {} \subseteq Items
  BY <1>10
<1> QED
  BY <1>3, <1>5, <1>7, <1>8, <1>9, <1>10, <1>11, OpenKeeps

LEMMA RetractClaimKeeps ==
  ASSUME DemandInv, RetractClaim
  PROVE  DemandInv'
<1>1. PICK i \in Stored :
        /\ i.says \in Claims
        /\ order' = Stripped(order, {i})
        /\ Open("retract", {i}, {}, Asked(Graph, Graph'))
  BY DEF RetractClaim
<1>2. PICK asking : asking = Asked(Graph, Graph')
  OBVIOUS
<1>3. lent' = lent /\ AtRest
  BY DEF RetractClaim, Mutable
<1>4. Orderly(order') /\ Stored' = Stored \ {i}
  BY <1>1, StrippedFacts DEF DemandInv, Ranged, Stored
<1>5. i \notin lent /\ {i} \subseteq Items
  BY <1>1, HereFacts DEF DemandInv
<1>6. Graph' = Graph \ {i}
  BY <1>3, <1>4, <1>5 DEF Graph, Stored
<1>7. NeedFacts' = NeedFacts
  BY <1>1, <1>4, DemandAssumption DEF NeedFacts
<1>8. Open("retract", {i}, {}, asking)
  BY <1>1, <1>2 DEF Open
<1>9. /\ asking \subseteq RowsOn(Graph) \cup RowsOn(Graph')
      /\ \A r \in Unmet(Graph') : r \in Unmet(Graph) \cup asking
  BY <1>2, AsksRows
<1>10. /\ \A r \in {} : r \in RowsOn(Graph') /\ Met(r, Graph')
       /\ \A r \in Unmet(Graph) : \/ r \in Unmet(Graph') \cup {}
                                  \/ r.on \cap {i} # {}
       /\ {i} \cap Graph' = {}
  BY <1>6, LeaveRows
<1> QED
  BY <1>3, <1>4, <1>5, <1>7, <1>8, <1>9, <1>10, OpenKeeps

LEMMA ModifyClaimKeeps ==
  ASSUME DemandInv, ModifyClaim
  PROVE  DemandInv'
<1>1. PICK k \in DOMAIN order, c \in Claims :
        /\ Unsaid(c) /\ order[k].says \in Claims
        /\ order' = [order EXCEPT ![k] = Copy(c)]
        /\ LET between == Graph \ {order[k]}
           IN  Open("modify", {order[k]}, AnsweredBy(Copy(c), between),
                     Asked(Graph, between) \cup Asked(between, Graph'))
  BY DEF ModifyClaim
<1>2. PICK i, old, between, answered, asking :
        /\ i = Copy(c) /\ old = order[k] /\ between = Graph \ {old}
        /\ answered = AnsweredBy(i, between)
        /\ asking = Asked(Graph, between) \cup Asked(between, Graph')
  OBVIOUS
<1>3. lent' = lent /\ AtRest
  BY DEF ModifyClaim, Mutable
<1>4. i \in Items /\ i.says = c /\ i.copy # 0
  BY <1>2, CopyFacts DEF DemandInv
<1>5. old \in Stored /\ old.says \in Claims
  BY <1>1, <1>2 DEF Stored, ItemsOf
<1>6. Orderly(order') /\ Stored' = (Stored \ {old}) \cup {i}
  <2>1. \A j \in ItemsOf(order) : j.says # i.says
    BY <1>1, <1>4 DEF Unsaid, Stored
  <2>2. order' = [order EXCEPT ![k] = i]
    BY <1>1, <1>2
  <2>3. Orderly(order) /\ i.says \in Claims /\ order[k].says \in Claims
    BY <1>1, <1>4 DEF DemandInv, Ranged
  <2>4. /\ Orderly([order EXCEPT ![k] = i])
        /\ ItemsOf([order EXCEPT ![k] = i]) = (ItemsOf(order) \ {order[k]}) \cup {i}
    <3>1. PICK s : s = order
      OBVIOUS
    <3>2. Orderly(s) /\ k \in DOMAIN s /\ s[k].says \in Claims
      BY <1>1, <2>3, <3>1
    <3>3. \A j \in ItemsOf(s) : j.says # i.says
      BY <2>1, <3>1
    <3>4. /\ Orderly([s EXCEPT ![k] = i])
          /\ ItemsOf([s EXCEPT ![k] = i]) = (ItemsOf(s) \ {s[k]}) \cup {i}
      BY <1>4, <2>3, <3>2, <3>3, OrderlyExcept
    <3> QED
      BY <3>1, <3>4
  <2> QED
    BY <1>2, <2>2, <2>4 DEF Stored
<1>7. old \notin lent /\ {old} \subseteq Items /\ i # old
  BY <1>1, <1>4, <1>5, HereFacts DEF DemandInv, Unsaid
<1>8. Graph' = between \cup {i}
  BY <1>2, <1>3, <1>6, <1>7 DEF Graph, Stored
<1>9. NeedFacts' = NeedFacts
  BY <1>4, <1>5, <1>6, DemandAssumption DEF NeedFacts
<1>10. Open("modify", {old}, answered, asking)
  BY <1>1, <1>2 DEF Open
<1>11. /\ asking \subseteq RowsOn(Graph) \cup RowsOn(Graph')
       /\ \A r \in Unmet(Graph') : r \in Unmet(Graph) \cup asking
  <2>1. RowsOn(between) \subseteq RowsOn(Graph)
    <3>1. between \subseteq Graph
      BY <1>2
    <3> QED
      BY <3>1, RowsIn
  <2> QED
    BY <1>2, <2>1, AsksRows
<1>12. /\ \A r \in answered : r \in RowsOn(Graph') /\ Met(r, Graph')
       /\ \A r \in Unmet(between) : r \in Unmet(Graph') \cup answered
  BY <1>2, <1>8, JoinRows
<1>13. \A r \in Unmet(Graph) : \/ r \in Unmet(Graph') \cup answered
                               \/ r.on \cap {old} # {}
  BY <1>2, <1>12, LeaveRows
<1>14. {old} \cap Graph' = {}
  BY <1>2, <1>7, <1>8
<1> QED
  BY <1>3, <1>6, <1>7, <1>9, <1>10, <1>11, <1>12, <1>13, <1>14, OpenKeeps

----------------------------------------------------------------------------
\* Requests.

LEMMA FlushKeeps ==
  ASSUME DemandInv, Flush
  PROVE  DemandInv'
<1>1. PICK T, N : T = {Copy(g) : g \in Missing} /\ N = Cardinality(Missing)
  OBVIOUS
<1>2. PICK s \in [1 .. N -> T] : ItemsOf(s) = T /\ order' = order \o s
  BY <1>1 DEF Flush
<1>3. /\ lent' = lent /\ UNCHANGED <<proof, unserved, adrift>>
      /\ job.gone = {} /\ job.doomed = {} /\ job.answered = {} /\ job.asking # {}
  BY DEF Flush, Flushing, Steady
<1>4. PICK need : need = [r \in job.asking |-> CHOOSE n \in Stored' : n.says = Goal(r)]
  OBVIOUS
<1>5. records' = records \cup {Record(r, need[r]) : r \in job.asking \ Owners}
  BY <1>4 DEF Flush
<1>6. PICK more : more = IF proof # NoQuestion THEN {}
                 ELSE job.after \cup
                        UNION {AnsweredBy(n, Graph' \ {n}) : n \in Stored' \ Stored}
  OBVIOUS
<1>7. PICK asked : asked = Asked(Graph, Graph')
  OBVIOUS
<1>8. /\ job' = [job EXCEPT !.asking = asked, !.after = more]
      /\ late' = late \cup {r \in job.asking \ Owners : r \notin Unmet(Graph)}
  BY <1>6, <1>7 DEF Flush
<1>9. /\ job.asking \subseteq Rows /\ \A r \in job.asking : Goal(r) \in Goals
  BY DemandAssumption DEF DemandInv, Ranged, Job, Rows, Goal
\* What is put in.
<1>10. \A i \in T : /\ i \in Items /\ i.says \in Goals /\ i.copy # 0
                    /\ \A n \in Stored : n.says # i.says
                    /\ \E r \in job.asking : Goal(r) = i.says
  <2> SUFFICES ASSUME NEW i \in T
               PROVE  /\ i \in Items /\ i.says \in Goals /\ i.copy # 0
                      /\ \A n \in Stored : n.says # i.says
                      /\ \E r \in job.asking : Goal(r) = i.says
    OBVIOUS
  <2>1. PICK g \in Missing : i = Copy(g)
    BY <1>1
  <2>2. g \in Goals /\ NeedsIn(Stored, g) = {} /\ \E r \in job.asking : Goal(r) = g
    BY DEF Missing
  <2>3. i \in Items /\ i.says = g /\ i.copy # 0
    BY <2>1, <2>2, CopyFacts DEF DemandInv
  <2> QED
    BY <2>2, <2>3 DEF NeedsIn
<1>11. \A i, j \in T : i.says = j.says => i = j
  <2> SUFFICES ASSUME NEW i \in T, NEW j \in T, i.says = j.says
               PROVE  i = j
    OBVIOUS
  <2>1. PICK g \in Missing, h \in Missing : i = Copy(g) /\ j = Copy(h)
    BY <1>1
  <2>2. Copy(g).says = g /\ Copy(h).says = h
    BY CopyFacts DEF Missing, DemandInv
  <2> QED
    BY <2>1, <2>2
<1>12. N \in Nat
  <2>1. PICK f : f = [r \in job.asking |-> Goal(r)]
    OBVIOUS
  <2>2. PICK A : A = job.asking
    OBVIOUS
  <2>3. IsFiniteSet(A) /\ DOMAIN f = A
    BY <2>1, <2>2 DEF DemandInv, Small
  <2>4. IsFiniteSet({f[r] : r \in A})
    BY <2>3, ImageFinite
  <2>5. Missing \subseteq {f[r] : r \in A}
    BY <2>1, <2>2 DEF Missing
  <2> QED
    BY <1>1, <2>4, <2>5, FS_Subset, FS_CardinalityType
<1>13. Orderly(order') /\ Stored' = Stored \cup T
  <2>1. T \subseteq Items /\ \A i \in T : i.says \in Goals /\ i.copy # 0
    BY <1>10
  <2>2. PICK o : o = order
    OBVIOUS
  <2>3. Orderly(o) /\ ItemsOf(s) = T
    BY <1>2, <2>2 DEF DemandInv, Ranged
  <2>4. s \in Seq(Items)
    BY <1>12, <2>1
  <2>5. Orderly(o \o s) /\ ItemsOf(o \o s) = ItemsOf(o) \cup ItemsOf(s)
    BY <2>1, <2>3, <2>4, OrderlyConcat
  <2> QED
    BY <1>2, <2>2, <2>3, <2>5 DEF Stored
<1>14. Graph' = Graph \cup T /\ NeedFacts' = NeedFacts \cup T
  BY <1>3, <1>10, <1>13 DEF Graph, Stored, NeedFacts
<1>15. Claimed(Graph') = Claimed(Graph)
  BY <1>10, <1>14, DemandAssumption DEF Claimed
<1>16. \A r : Shaped(r) => (Met(r, Graph') <=> Met(r, Graph))
  <2>1. Claimed(Graph) \subseteq Graph' /\ Claimed(Graph') \subseteq Graph
    BY <1>15 DEF Claimed
  <2> QED
    BY <2>1, MetSame
<1>17. \A r \in Unmet(Graph) : r \in Unmet(Graph')
  BY <1>14, <1>16, UnmetIn
\* Every row that asks has its need fact.
<1>18. ASSUME NEW r \in job.asking
       PROVE  \E n \in Stored' : n.says = Goal(r)
  <2>1. CASE NeedsIn(Stored, Goal(r)) = {}
    <3>1. Goal(r) \in Missing
      BY <1>9, <2>1 DEF Missing
    <3>2. PICK i : i = Copy(Goal(r))
      OBVIOUS
    <3>3. i \in T
      BY <1>1, <3>1, <3>2
    <3>4. i.says = Goal(r)
      BY <1>9, <3>2, CopyFacts DEF DemandInv
    <3> QED
      BY <1>13, <3>3, <3>4
  <2>2. CASE NeedsIn(Stored, Goal(r)) # {}
    BY <1>13, <2>2 DEF NeedsIn
  <2> QED
    BY <2>1, <2>2
<1>19. \A r \in job.asking : /\ need[r] \in NeedFacts' /\ need[r].says = Goal(r)
                             /\ need[r] \in Items
  <2>1. \A r \in job.asking : need[r] \in Stored' /\ need[r].says = Goal(r)
    BY <1>4, <1>18
  <2>2. Stored' \subseteq Items
    BY <1>10, <1>13, HereFacts DEF DemandInv
  <2> QED
    BY <1>9, <2>1, <2>2 DEF NeedFacts
<1>20. \A rec \in records' :
         \/ rec \in records
         \/ \E r \in job.asking \ Owners : rec = [row |-> r, need |-> need[r]]
  BY <1>5 DEF Record
<1>21. /\ \A r \in job.asking \ Owners : [row |-> r, need |-> need[r]] \in records'
       /\ records \subseteq records'
  BY <1>5 DEF Record
<1>22. Owners' = Owners \cup job.asking
  <2>1. \A r \in Owners' : r \in Owners \cup job.asking
    BY <1>20 DEF Owners
  <2>2. \A r \in Owners : r \in Owners'
    BY <1>21 DEF Owners
  <2>3. ASSUME NEW r \in job.asking \ Owners
        PROVE  r \in Owners'
    <3>1. PICK rec : rec = [row |-> r, need |-> need[r]]
      OBVIOUS
    <3>2. rec \in records' /\ rec.row = r
      BY <1>21, <3>1
    <3> QED
      BY <3>2 DEF Owners
  <2> QED
    BY <2>1, <2>2, <2>3
<1>23. /\ Graph' \subseteq Items /\ IsFiniteSet(Graph') /\ Stored' \cap lent = {}
       /\ \A r : r \in Unmet(Stored') <=> r \in Unmet(Graph') /\ r.on \subseteq Stored'
  BY <1>3, <1>13, ThereFacts DEF DemandInv, Ranged, Small
<1>24. asked \subseteq RowsOn(Graph') /\ asked \subseteq Rows
  BY <1>7, <1>23, AsksRows, RowsTyped
<1>25. \A r \in more : Shaped(r) /\ Met(r, Graph') /\ r \in Rows
  <2> SUFFICES ASSUME NEW r \in more PROVE Shaped(r) /\ Met(r, Graph') /\ r \in Rows
    OBVIOUS
  <2>1. CASE r \in job.after
    BY <1>16, <2>1 DEF DemandInv, Departed, Ranged, Job
  <2>2. CASE r \notin job.after
    <3>1. PICK n \in Stored' : r \in AnsweredBy(n, Graph' \ {n})
      BY <1>6, <2>2
    <3>2. PICK G : G = Graph' \ {n}
      OBVIOUS
    <3>3. G \cup {n} = Graph' /\ r \in AnsweredBy(n, G)
      BY <3>1, <3>2 DEF Graph
    <3>4. Shaped(r) /\ r.on \subseteq G \cup {n} /\ Met(r, G \cup {n})
      BY <3>3, AnswersMet
    <3>5. r \in RowsOn(G \cup {n})
      BY <3>4, RowsIn
    <3>6. r \in Rows
      BY <1>23, <3>3, <3>5, RowsTyped
    <3> QED
      BY <3>3, <3>4, <3>6
  <2> QED
    BY <2>1, <2>2
<1>26. /\ job'.asking = asked /\ job'.after = more /\ job'.gone = {} /\ job'.doomed = {}
       /\ job'.answered = {} /\ job'.lending = job.lending /\ job' \in Job
  BY <1>3, <1>8, <1>24, <1>25 DEF DemandInv, Ranged, Job
<1>27. Ranged'
  <2>1. records' \subseteq [row : Rows, need : Items]
    BY <1>9, <1>19, <1>20 DEF DemandInv, Ranged
  <2>2. \A a, b \in records' : a.row = b.row => a = b
    BY <1>20 DEF DemandInv, Ranged, Owners
  <2>3. late' \subseteq Rows
    BY <1>8, <1>9 DEF DemandInv, Ranged
  <2> QED
    BY <1>3, <1>13, <1>26, <2>1, <2>2, <2>3 DEF DemandInv, Ranged
<1>28. Small'
  <2>1. IsFiniteSet(asked) /\ \A r \in asked : IsFiniteSet(r.on)
    BY <1>23, <1>24, RowsFinite, FS_Subset
  <2>2. IsFiniteSet(records')
    <3>1. PICK A : A = job.asking \ Owners
      OBVIOUS
    <3>2. IsFiniteSet(A)
      BY <3>1, FS_Subset DEF DemandInv, Small
    <3>3. PICK f : f = [r \in A |-> Record(r, need[r])]
      OBVIOUS
    <3>4. /\ IsFiniteSet({f[r] : r \in A})
          /\ {f[r] : r \in A} = {Record(r, need[r]) : r \in A}
      BY <3>2, <3>3, ImageFinite
    <3> QED
      BY <1>5, <3>1, <3>4, FS_Union DEF DemandInv, Small
  <2>3. late' \subseteq late \cup job.asking
    BY <1>8
  <2>4. IsFiniteSet(late')
    BY <2>3, FS_Union, FS_Subset DEF DemandInv, Small
  <2>5. \A r \in Owners' \cup job'.asking \cup late' \cup unserved' : IsFiniteSet(r.on)
    BY <1>3, <1>22, <1>26, <2>1, <2>3 DEF DemandInv, Small
  <2> QED
    BY <1>3, <1>26, <2>1, <2>2, <2>4, <2>5 DEF DemandInv, Small
<1>29. \A m, n \in NeedFacts' : m.says = n.says => m = n
  <2>1. \A n \in NeedFacts : n \in Stored
    BY DEF NeedFacts
  <2> QED
    BY <1>10, <1>11, <1>14, <2>1 DEF DemandInv, NeedsBacked
<1>30. \A r \in job.asking : \E rec \in records' :
         rec.need \in NeedFacts' /\ rec.need.says = Goal(r)
  <2> SUFFICES ASSUME NEW r \in job.asking
               PROVE  \E rec \in records' :
                        rec.need \in NeedFacts' /\ rec.need.says = Goal(r)
    OBVIOUS
  <2>1. CASE r \in Owners
    <3>1. PICK rec \in records : rec.row = r
      BY <2>1 DEF Owners
    <3> QED
      BY <1>14, <1>21, <3>1 DEF DemandInv, Matched, NeedsBacked
  <2>2. CASE r \notin Owners
    <3>1. PICK rec : rec = [row |-> r, need |-> need[r]]
      OBVIOUS
    <3> QED
      BY <1>19, <1>21, <2>2, <3>1
  <2> QED
    BY <2>1, <2>2
<1>31. NeedsBacked'
  <2>1. ASSUME NEW n \in NeedFacts'
        PROVE  n \in adrift \/ \E rec \in records' : rec.need = n
    <3>1. CASE \E r \in job.asking : Goal(r) = n.says
      BY <1>29, <1>30, <3>1
    <3>2. CASE ~ \E r \in job.asking : Goal(r) = n.says
      BY <1>3, <1>10, <1>14, <1>21, <3>2 DEF DemandInv, NeedsBacked
    <3> QED
      BY <3>1, <3>2
  <2>2. \A rec \in records' : rec.need \in NeedFacts'
    <3>1. \A rec \in records : rec.need \in NeedFacts'
      BY <1>14 DEF DemandInv, NeedsBacked
    <3> QED
      BY <1>19, <1>20, <3>1
  <2> QED
    BY <1>3, <1>26, <1>29, <2>1, <2>2 DEF NeedsBacked
<1>32. Matched'
  <2>1. \A rec \in records' : rec.need.says = Goal(rec.row)
    BY <1>19, <1>20 DEF DemandInv, Matched
  <2> QED
    BY <1>26, <2>1 DEF Matched
<1>33. Departed'
  <2>1. proof' # NoQuestion => more = {}
    BY <1>3, <1>6
  <2> QED
    BY <1>25, <1>26, <2>1 DEF Departed
<1>34. Current'
  <2> SUFFICES ASSUME NEW rec \in records'
               PROVE  rec.row \in Unmet(Graph') \cup late' \cup more
    BY <1>26 DEF Current, Fitting
  <2>1. CASE rec \in records
    <3>1. rec.row \in Unmet(Graph) \cup late \cup job.after
      BY <1>3, <2>1 DEF DemandInv, Current, Fitting
    <3>2. job.after \subseteq more
      BY <1>6 DEF DemandInv, Departed
    <3> QED
      BY <1>8, <1>17, <3>1, <3>2
  <2>2. CASE rec \notin records
    <3>1. rec.row \in job.asking \ Owners
      BY <1>20, <2>2
    <3> QED
      BY <1>8, <1>17, <3>1
  <2> QED
    BY <2>1, <2>2
<1>35. Served'
  <2> SUFFICES ASSUME NEW r \in Unmet(Stored')
               PROVE  r \in Owners' \cup unserved \cup asked
    BY <1>3, <1>26 DEF Served
  <2>1. r \in Unmet(Graph') /\ r.on \subseteq Stored'
    BY <1>23
  <2>2. CASE r \in Unmet(Graph)
    <3>1. r.on \subseteq Stored \cup lent
      BY <2>2, UnmetIn DEF Graph
    <3>2. r \in Unmet(Stored)
      BY <1>23, <2>1, <2>2, <3>1, HereFacts DEF DemandInv
    <3> QED
      BY <1>22, <3>2 DEF DemandInv, Served
  <2> QED
    BY <1>7, <2>1, <2>2, AsksRows
<1>36. Apart'
  <2>1. ~job.lending
    BY DEF Flush
  <2> QED
    BY <1>26, <2>1 DEF Apart
<1> QED
  BY <1>27, <1>28, <1>31, <1>32, <1>33, <1>34, <1>35, <1>36 DEF DemandInv

\* More is lent, and what is stored stays: the rows on it have the matches they had.
LEMMA LendRows ==
  ASSUME DemandInv, order' = order, lent' \subseteq Items, IsFiniteSet(lent'),
         \A i \in lent' : i.copy = 0 /\ i.says \notin Claims
  PROVE  /\ Stored' = Stored /\ NeedFacts' = NeedFacts /\ Orderly(order')
         /\ Graph' \subseteq Items /\ IsFiniteSet(Graph') /\ Graph' = Stored \cup lent'
         /\ \A r : Shaped(r) => (Met(r, Graph') <=> Met(r, Graph))
         /\ \A r \in Unmet(Graph) : r.on \subseteq Graph' => r \in Unmet(Graph')
<1>1. Stored' = Stored /\ Graph' = Stored \cup lent' /\ NeedFacts' = NeedFacts
  BY DEF Stored, Graph, NeedFacts
<1>2. Orderly(order')
  BY DEF DemandInv, Ranged
<1>3. /\ Graph' \subseteq Items /\ IsFiniteSet(Graph')
      /\ Claimed(Graph') = Claimed(Stored')
  BY <1>2, ThereFacts
<1>4. Claimed(Graph') = Claimed(Graph)
  BY <1>1, <1>3, HereFacts DEF DemandInv
<1>5. \A r : Shaped(r) => (Met(r, Graph') <=> Met(r, Graph))
  <2>1. Claimed(Graph) \subseteq Graph' /\ Claimed(Graph') \subseteq Graph
    BY <1>4 DEF Claimed
  <2> QED
    BY <2>1, MetSame
<1>6. \A r \in Unmet(Graph) : r.on \subseteq Graph' => r \in Unmet(Graph')
  BY <1>5, UnmetIn
<1> QED
  BY <1>1, <1>2, <1>3, <1>5, <1>6

LEMMA AskedFinite ==
  ASSUME NEW G, NEW H, H \subseteq Items, IsFiniteSet(H)
  PROVE  /\ Asked(G, H) \subseteq Rows /\ IsFiniteSet(Asked(G, H))
         /\ \A r \in Asked(G, H) : IsFiniteSet(r.on)
BY AsksRows, RowsTyped, RowsFinite, FS_Subset

LEMMA FlushToProofKeeps ==
  ASSUME DemandInv, FlushToProof
  PROVE  DemandInv'
<1>1. PICK more : more = {Lent(g) : g \in {h \in Missing : NeedsIn(lent, h) = {}}}
  OBVIOUS
<1>2. PICK asked : asked = Asked(Graph, Graph')
  OBVIOUS
<1>3. /\ lent' = lent \cup more /\ order' = order
      /\ job' = [job EXCEPT !.asking = asked]
      /\ unserved' = unserved \cup {r \in job.asking : r.on \subseteq Stored}
      /\ UNCHANGED <<records, proof, late, adrift>>
      /\ job.lending
  BY <1>1, <1>2 DEF FlushToProof
<1>4. more \subseteq Items /\ \A i \in more : i.copy = 0 /\ i.says \notin Claims
  BY <1>1, DemandAssumption DEF Missing, Lent, Items, Sayable
<1>5. IsFiniteSet(more)
  <2>1. PICK A, f : A = job.asking /\ f = [r \in A |-> Lent(Goal(r))]
    OBVIOUS
  <2>2. IsFiniteSet(A) /\ DOMAIN f = A
    BY <2>1 DEF DemandInv, Small
  <2>3. IsFiniteSet({f[r] : r \in A})
    BY <2>2, ImageFinite
  <2>4. more \subseteq {f[r] : r \in A}
    BY <1>1, <2>1 DEF Missing
  <2> QED
    BY <2>3, <2>4, FS_Subset
<1>6. /\ lent' \subseteq Items /\ IsFiniteSet(lent')
      /\ \A i \in lent' : i.copy = 0 /\ i.says \notin Claims
  BY <1>3, <1>4, <1>5, FS_Union DEF DemandInv, Ranged, Small
<1>7. /\ Stored' = Stored /\ NeedFacts' = NeedFacts /\ Orderly(order')
      /\ Graph' \subseteq Items /\ IsFiniteSet(Graph') /\ Graph' = Stored \cup lent'
      /\ \A r : Shaped(r) => (Met(r, Graph') <=> Met(r, Graph))
      /\ \A r \in Unmet(Graph) : r.on \subseteq Graph' => r \in Unmet(Graph')
  BY <1>3, <1>6, LendRows
<1>8. Graph \subseteq Graph'
  BY <1>3, <1>7 DEF Graph
<1>9. asked \subseteq Rows /\ IsFiniteSet(asked) /\ \A r \in asked : IsFiniteSet(r.on)
  BY <1>2, <1>7, AskedFinite
<1>10. /\ job'.asking = asked /\ job'.after = job.after /\ job'.gone = job.gone
       /\ job'.doomed = job.doomed /\ job'.answered = job.answered
       /\ job'.lending = job.lending /\ job' \in Job
  BY <1>3, <1>9 DEF DemandInv, Ranged, Job
<1>11. Owners' = Owners
  BY <1>3 DEF Owners
<1>12. Ranged'
  <2>1. unserved' \subseteq Rows
    BY <1>3 DEF DemandInv, Ranged, Job
  <2>2. proof # NoQuestion
    BY <1>3 DEF DemandInv, Ranged
  <2> QED
    BY <1>3, <1>6, <1>7, <1>10, <2>1, <2>2 DEF DemandInv, Ranged
<1>13. Small'
  <2>1. unserved' \subseteq unserved \cup job.asking
    BY <1>3
  <2>2. IsFiniteSet(unserved')
    BY <2>1, FS_Union, FS_Subset DEF DemandInv, Small
  <2>3. \A r \in Owners' \cup job'.asking \cup late' \cup unserved' : IsFiniteSet(r.on)
    BY <1>3, <1>9, <1>10, <1>11, <2>1 DEF DemandInv, Small
  <2> QED
    BY <1>3, <1>6, <1>9, <1>10, <2>2, <2>3 DEF DemandInv, Small
<1>14. NeedsBacked'
  BY <1>3, <1>7, <1>10 DEF DemandInv, NeedsBacked, Apart
<1>15. Matched' /\ Apart'
  BY <1>3, <1>7, <1>10 DEF DemandInv, Matched, Apart
<1>16. Departed'
  <2>1. job.gone = {}
    BY DEF FlushToProof, Flushing, Steady
  <2> QED
    BY <1>3, <1>7, <1>10, <2>1 DEF DemandInv, Departed
<1>17. Current'
  <2>1. \A r \in Unmet(Graph) : r \in Unmet(Graph')
    BY <1>7, <1>8, UnmetIn
  <2> QED
    BY <1>3, <1>10, <2>1 DEF DemandInv, Current, Fitting
<1>18. Served'
  <2> SUFFICES ASSUME NEW r \in Unmet(Stored) PROVE r \in Owners \cup unserved'
    BY <1>7, <1>11 DEF Served
  <2>1. r.on \subseteq Stored
    BY UnmetIn
  <2> QED
    BY <1>3, <2>1 DEF DemandInv, Served
<1> QED
  BY <1>12, <1>13, <1>14, <1>15, <1>16, <1>17, <1>18 DEF DemandInv

LEMMA FinishKeeps ==
  ASSUME DemandInv, Finish
  PROVE  DemandInv'
<1>1. /\ job.gone = {} /\ job.doomed = {} /\ job.answered = {} /\ job.asking = {}
      /\ job.after = {}
      /\ job' = NoJob /\ UNCHANGED <<order, lent, records, proof>>
      /\ late' = (late \cap Owners) \ Unmet(Graph)
      /\ unserved' = (unserved \cap Unmet(Stored)) \ Owners
      /\ adrift' = {n \in adrift \cap Stored : \A rec \in records : rec.need # n}
  BY DEF Finish, Flushed, Steady
<1>2. /\ job'.gone = {} /\ job'.doomed = {} /\ job'.answered = {} /\ job'.asking = {}
      /\ job'.after = {} /\ job'.lending = FALSE /\ job' \in Job
  BY <1>1 DEF NoJob, Job
<1>3. /\ Stored' = Stored /\ Graph' = Graph /\ NeedFacts' = NeedFacts /\ Owners' = Owners
      /\ NeedFacts \subseteq Stored
  BY <1>1 DEF Stored, Graph, NeedFacts, Owners
<1>4. Ranged'
  BY <1>1, <1>2 DEF DemandInv, Ranged
<1>5. Small'
  <2>1. late' \subseteq late /\ unserved' \subseteq unserved /\ adrift' \subseteq adrift
    BY <1>1
  <2>2. IsFiniteSet(late') /\ IsFiniteSet(unserved') /\ IsFiniteSet(adrift')
    BY <2>1, FS_Subset DEF DemandInv, Small
  <2> QED
    BY <1>1, <1>2, <1>3, <2>1, <2>2, FS_EmptySet DEF DemandInv, Small
<1>6. NeedsBacked'
  BY <1>1, <1>2, <1>3 DEF DemandInv, NeedsBacked
<1>7. Matched' /\ Departed' /\ Apart'
  BY <1>1, <1>2 DEF DemandInv, Matched, Departed, Apart
<1>8. Current'
  BY <1>1, <1>2, <1>3 DEF DemandInv, Current, Fitting, Owners
<1>9. Served'
  BY <1>1, <1>2, <1>3 DEF DemandInv, Served
<1> QED
  BY <1>4, <1>5, <1>6, <1>7, <1>8, <1>9 DEF DemandInv

LEMMA BeginProofKeeps ==
  ASSUME DemandInv, BeginProof
  PROVE  DemandInv'
<1>1. PICK q \in Questions : proof' = q /\ lent' = {Lent(q)}
  BY DEF BeginProof
<1>2. PICK asked : asked = Asked(Graph, Graph')
  OBVIOUS
<1>3. /\ proof = NoQuestion /\ order' = order /\ job = NoJob
      /\ job' = [NoJob EXCEPT !.op = "query", !.asking = asked, !.lending = TRUE]
      /\ UNCHANGED <<records, late, unserved, adrift>>
  BY <1>2 DEF BeginProof, Mutable, AtRest
<1>4. /\ lent' \subseteq Items /\ IsFiniteSet(lent')
      /\ \A i \in lent' : i.copy = 0 /\ i.says \notin Claims
  <2>1. PICK i : i = Lent(q)
    OBVIOUS
  <2>2. i \in Items /\ i.copy = 0 /\ i.says = q
    BY <2>1 DEF Lent, Items, Sayable
  <2>3. i.says \notin Claims
    BY <2>2, DemandAssumption
  <2>4. IsFiniteSet({i})
    BY FS_Singleton
  <2> QED
    BY <1>1, <2>1, <2>2, <2>3, <2>4
<1>5. /\ Stored' = Stored /\ NeedFacts' = NeedFacts /\ Orderly(order')
      /\ Graph' \subseteq Items /\ IsFiniteSet(Graph') /\ Graph' = Stored \cup lent'
      /\ \A r \in Unmet(Graph) : r.on \subseteq Graph' => r \in Unmet(Graph')
  BY <1>3, <1>4, LendRows
<1>6. Graph = Stored /\ Graph \subseteq Graph' /\ Owners' = Owners
  BY <1>3, <1>5 DEF DemandInv, Ranged, Graph, Owners
<1>7. asked \subseteq Rows /\ IsFiniteSet(asked) /\ \A r \in asked : IsFiniteSet(r.on)
  BY <1>2, <1>5, AskedFinite
<1>8. /\ job'.gone = {} /\ job'.doomed = {} /\ job'.answered = {} /\ job'.asking = asked
      /\ job'.after = {} /\ job'.lending = TRUE /\ job' \in Job
      /\ job.gone = {} /\ job.doomed = {} /\ job.answered = {} /\ job.asking = {}
      /\ job.after = {}
  BY <1>3, <1>7 DEF NoJob, Job
<1>9. Ranged'
  <2>1. proof' \in Questions /\ proof' # NoQuestion
    BY <1>1, DemandAssumption
  <2> QED
    BY <1>3, <1>4, <1>5, <1>8, <2>1 DEF DemandInv, Ranged
<1>10. Small'
  BY <1>3, <1>4, <1>6, <1>7, <1>8 DEF DemandInv, Small
<1>11. NeedsBacked' /\ Matched' /\ Departed' /\ Apart'
  BY <1>3, <1>5, <1>8 DEF DemandInv, NeedsBacked, Matched, Departed, Apart
<1>12. Current'
  <2>1. \A r \in Unmet(Graph) : r \in Unmet(Graph')
    BY <1>5, <1>6, UnmetIn
  <2> QED
    BY <1>3, <1>8, <2>1 DEF DemandInv, Current, Fitting
<1>13. Served'
  BY <1>3, <1>5, <1>6, <1>8 DEF DemandInv, Served
<1> QED
  BY <1>9, <1>10, <1>11, <1>12, <1>13 DEF DemandInv

LEMMA EndProofKeeps ==
  ASSUME DemandInv, EndProof
  PROVE  DemandInv'
<1>1. /\ job = NoJob /\ proof' = NoQuestion /\ lent' = {} /\ order' = order
      /\ late' = late \cup {r \in Owners : r.on \cap lent # {}}
      /\ UNCHANGED <<records, job, unserved, adrift>>
  BY DEF EndProof, AtRest
<1>2. /\ job.gone = {} /\ job.doomed = {} /\ job.answered = {} /\ job.asking = {}
      /\ job.after = {} /\ job.lending = FALSE
  BY <1>1 DEF NoJob
<1>3. /\ Stored' = Stored /\ NeedFacts' = NeedFacts /\ Graph' = Stored
      /\ \A r \in Unmet(Graph) : r.on \subseteq Graph' => r \in Unmet(Graph')
  BY <1>1, LendRows, FS_EmptySet
<1>4. Owners' = Owners /\ late' \subseteq late \cup Owners
  BY <1>1 DEF Owners
<1>5. Ranged'
  <2>1. Owners \subseteq Rows
    BY DEF DemandInv, Ranged, Owners
  <2> QED
    BY <1>1, <1>2, <1>4, <2>1 DEF DemandInv, Ranged
<1>6. Small'
  <2>1. IsFiniteSet(Owners)
    <3>1. PICK R, f : R = records /\ f = [rec \in R |-> rec.row]
      OBVIOUS
    <3>2. IsFiniteSet(R) /\ DOMAIN f = R
      BY <3>1 DEF DemandInv, Small
    <3>3. IsFiniteSet({f[rec] : rec \in R})
      BY <3>2, ImageFinite
    <3>4. {f[rec] : rec \in R} = Owners
      BY <3>1 DEF Owners
    <3> QED
      BY <3>3, <3>4
  <2>2. IsFiniteSet(late')
    BY <1>4, <2>1, FS_Union, FS_Subset DEF DemandInv, Small
  <2> QED
    BY <1>1, <1>4, <2>2, FS_EmptySet DEF DemandInv, Small
<1>7. NeedsBacked' /\ Matched' /\ Departed' /\ Apart'
  BY <1>1, <1>2, <1>3 DEF DemandInv, NeedsBacked, Matched, Departed, Apart
<1>8. Current'
  <2> SUFFICES ASSUME NEW rec \in records PROVE rec.row \in Unmet(Graph') \cup late'
    BY <1>1 DEF Current, Fitting
  <2>1. rec.row \in Unmet(Graph) \cup late /\ rec.row \in Owners
    BY <1>2 DEF DemandInv, Current, Fitting, Owners
  <2>2. rec.row \in Unmet(Graph) => rec.row.on \subseteq Stored \cup lent
    BY UnmetIn DEF Graph
  <2> QED
    BY <1>1, <1>3, <2>1, <2>2
<1>9. Served'
  BY <1>1, <1>3, <1>4 DEF DemandInv, Served
<1> QED
  BY <1>5, <1>6, <1>7, <1>8, <1>9 DEF DemandInv

----------------------------------------------------------------------------
\* Sessions that are built from facts.

\* What asks in a row of additions is a row of the whole, and every row that is
\* without a match in the end has asked when it came.
LEMMA TurnsFacts ==
  ASSUME NEW s, Orderly(s)
  PROVE  /\ AskedInTurn(s) \subseteq RowsOn(ItemsOf(s))
         /\ Unmet(ItemsOf(s)) \subseteq AskedInTurn(s)
<1>1. DOMAIN s = 1 .. Len(s) /\ Len(s) \in Nat
  BY DEF Orderly
<1>2. \A k \in DOMAIN s : Prefix(s, k) \subseteq ItemsOf(s)
  BY <1>1 DEF Prefix, ItemsOf
<1>3. ASSUME NEW r \in AskedInTurn(s)
      PROVE  r \in RowsOn(ItemsOf(s))
  <2>1. PICK k \in DOMAIN s : r \in Asked(Prefix(s, k - 1), Prefix(s, k))
    BY DEF AskedInTurn
  <2>2. Shaped(r) /\ r.on \subseteq Prefix(s, k)
    BY <2>1, AsksUnmet
  <2> QED
    BY <1>2, <2>2, RowsIn
<1>4. ASSUME NEW r \in Unmet(ItemsOf(s))
      PROVE  r \in AskedInTurn(s)
  <2>1. Shaped(r) /\ r.on \subseteq ItemsOf(s) /\ ~Met(r, ItemsOf(s)) /\ r.on # {}
    BY UnmetIn, ShapedFacts
  <2> DEFINE Turns == {k \in Nat : k <= Len(s) /\ r.on \subseteq Prefix(s, k)}
  <2>2. Len(s) \in Turns
    BY <1>1, <2>1 DEF Prefix, ItemsOf
  <2>3. Turns \in SUBSET Nat
    OBVIOUS
  <2>4. PICK k \in Turns : \A m \in Turns : k <= m
    <3> HIDE DEF Turns
    <3> QED
      BY <2>2, <2>3, Least
  <2>5. k \in Nat /\ k <= Len(s) /\ r.on \subseteq Prefix(s, k)
    OBVIOUS
  <2>6. k # 0
    <3>1. Prefix(s, 0) = {}
      BY DEF Prefix
    <3> QED
      BY <2>1, <2>5, <3>1
  <2>7. k \in DOMAIN s /\ k - 1 \in Nat /\ k - 1 <= Len(s) /\ ~(k <= k - 1)
    BY <1>1, <2>5, <2>6
  <2>8. ~(r.on \subseteq Prefix(s, k - 1))
    BY <2>4, <2>7
  <2>9. ~Met(r, Prefix(s, k))
    BY <1>2, <2>1, <2>7 DEF Met
  <2>10. r \in Unmet(Prefix(s, k)) /\ r \notin Unmet(Prefix(s, k - 1))
    BY <2>1, <2>5, <2>8, <2>9, UnmetIn
  <2> QED
    BY <2>7, <2>10 DEF AskedInTurn, Asked
<1> QED
  BY <1>3, <1>4

\* A new session has no record, but a request for each it should have.
LEMMA NewKeeps ==
  ASSUME NEW s, NEW after, NEW spare, Orderly(s),
         order' = s,
         job' = [NoJob EXCEPT !.op = "rebuild", !.asking = AskedInTurn(s), !.after = after],
         lent' = {}, records' = {}, proof' = NoQuestion, late' = {}, unserved' = {},
         adrift' = spare, spare \subseteq ItemsOf(s),
         \A r \in after : r \in RowsOn(ItemsOf(s)) /\ Met(r, ItemsOf(s)),
         \A n \in ItemsOf(s) : n.says \in Goals =>
           n \in spare \/ \E r \in AskedInTurn(s) : Goal(r) = n.says,
         \A m, n \in ItemsOf(s) : m.says \in Goals /\ m.says = n.says => m = n
  PROVE  DemandInv'
<1>1. /\ Stored' = ItemsOf(s) /\ Graph' = ItemsOf(s) /\ Owners' = {}
      /\ NeedFacts' = {i \in ItemsOf(s) : i.says \in Goals}
  BY DEF Stored, Graph, Owners, NeedFacts
<1>2. ItemsOf(s) \subseteq Items /\ IsFiniteSet(ItemsOf(s))
  <2>1. s \in Seq(Items)
    BY DEF Orderly
  <2>2. ItemsOf(s) \subseteq Items
    BY <2>1 DEF ItemsOf
  <2> QED
    BY <2>1, <2>2, SequenceFinite
<1>3. PICK asked : asked = AskedInTurn(s)
  OBVIOUS
<1>4. /\ asked \subseteq RowsOn(ItemsOf(s)) /\ Unmet(ItemsOf(s)) \subseteq asked
  BY <1>3, TurnsFacts
<1>5. asked \subseteq Rows /\ after \subseteq Rows
  BY <1>2, <1>4, RowsTyped
<1>6. IsFiniteSet(asked) /\ \A r \in asked : IsFiniteSet(r.on)
  BY <1>2, <1>4, RowsFinite, FS_Subset
<1>7. /\ job'.gone = {} /\ job'.doomed = {} /\ job'.answered = {} /\ job'.asking = asked
      /\ job'.after = after /\ job'.lending = FALSE /\ job' \in Job
  BY <1>3, <1>5 DEF NoJob, Job
<1>8. Ranged'
  BY <1>2, <1>7 DEF Ranged
<1>9. Small'
  <2>1. IsFiniteSet(spare)
    BY <1>2, FS_Subset
  <2> QED
    BY <1>1, <1>6, <1>7, <2>1, FS_EmptySet DEF Small
<1>10. NeedsBacked'
  BY <1>1, <1>3, <1>7 DEF NeedsBacked
<1>11. Matched' /\ Current' /\ Apart'
  BY <1>1, <1>7 DEF Matched, Current, Apart
<1>12. Departed'
  <2>1. \A r \in after : Shaped(r)
    BY RowsIn
  <2> QED
    BY <1>1, <1>7, <2>1 DEF Departed
<1>13. Served'
  BY <1>1, <1>4, <1>7 DEF Served
<1> QED
  BY <1>8, <1>9, <1>10, <1>11, <1>12, <1>13 DEF DemandInv

\* What is stored is put in again: a need fact that came with a current record
\* finds a row that asks for it.
LEMMA AgainKeeps ==
  ASSUME DemandInv, AtRest, proof = NoQuestion, NEW after, Rebuild(order, after),
         after \subseteq MetOn(Stored)
  PROVE  DemandInv'
<1>1. PICK s : s = order
  OBVIOUS
<1>2. Orderly(s) /\ Stored = ItemsOf(s) /\ Graph = ItemsOf(s)
  BY <1>1 DEF DemandInv, Ranged, Stored, Graph
<1>3. /\ job.gone = {} /\ job.doomed = {} /\ job.answered = {} /\ job.after = {}
  BY DEF AtRest, NoJob
<1>4. PICK spare : spare = {n \in ItemsOf(s) : n.says \in Goals /\
                \A rec \in records : rec.need = n => rec.row \in late}
  OBVIOUS
<1>5. /\ order' = s
      /\ job' = [NoJob EXCEPT !.op = "rebuild", !.asking = AskedInTurn(s), !.after = after]
      /\ lent' = {} /\ records' = {} /\ proof' = NoQuestion /\ late' = {} /\ unserved' = {}
      /\ adrift' = spare
  BY <1>1, <1>4 DEF Rebuild
<1>6. ASSUME NEW n \in ItemsOf(s), n.says \in Goals, n \notin spare
      PROVE  \E r \in AskedInTurn(s) : Goal(r) = n.says
  <2>1. PICK rec \in records : rec.need = n /\ rec.row \notin late
    BY <1>4, <1>6
  <2>2. rec.row \in Unmet(ItemsOf(s)) /\ Goal(rec.row) = n.says
    BY <1>2, <1>3, <2>1 DEF DemandInv, Current, Fitting, Matched
  <2> QED
    BY <1>2, <2>2, TurnsFacts
<1>7. \A m, n \in ItemsOf(s) : m.says \in Goals /\ m.says = n.says => m = n
  BY <1>2 DEF DemandInv, NeedsBacked, NeedFacts
<1>8. \A r \in after : r \in RowsOn(ItemsOf(s)) /\ Met(r, ItemsOf(s))
  BY <1>2 DEF MetOn, Unmet
<1>9. spare \subseteq ItemsOf(s)
  BY <1>4
<1> QED
  BY <1>2, <1>5, <1>6, <1>7, <1>8, <1>9, NewKeeps

LEMMA FirstFactsOrderly ==
  /\ Orderly(FirstFacts)
  /\ \A n \in ItemsOf(FirstFacts) : n.says \notin Goals
<1>1. /\ DOMAIN Initials = 1 .. Len(Initials) /\ Len(Initials) \in Nat
      /\ \A k \in DOMAIN Initials : Initials[k] \in Claims
      /\ \A j, k \in DOMAIN Initials : Initials[j] = Initials[k] => j = k
  BY DemandAssumption
<1>2. /\ DOMAIN FirstFacts = DOMAIN Initials
      /\ \A k \in DOMAIN Initials : FirstFacts[k] = [says |-> Initials[k], copy |-> 1]
  BY DEF FirstFacts
<1>3. \A k \in DOMAIN FirstFacts :
        /\ FirstFacts[k] \in Items /\ FirstFacts[k].says = Initials[k]
        /\ FirstFacts[k].says \in Claims /\ FirstFacts[k].copy # 0
  BY <1>1, <1>2 DEF Items, Sayable
<1>4. FirstFacts \in Seq(Items)
  <2>1. FirstFacts = [k \in 1 .. Len(Initials) |-> FirstFacts[k]]
    BY <1>1 DEF FirstFacts
  <2>2. \A k \in 1 .. Len(Initials) : FirstFacts[k] \in Items
    BY <1>1, <1>2, <1>3
  <2> QED
    BY <1>1, <2>1, <2>2
<1>5. Orderly(FirstFacts)
  BY <1>1, <1>2, <1>3, <1>4 DEF Orderly
<1>6. \A n \in ItemsOf(FirstFacts) : n.says \in Claims
  BY <1>3 DEF ItemsOf
<1> QED
  BY <1>5, <1>6, DemandAssumption

LEMMA ForkDemandKeeps ==
  ASSUME DemandInv, ForkDemand
  PROVE  DemandInv'
BY AgainKeeps DEF ForkDemand, Mutable

LEMMA RestoreDemandKeeps ==
  ASSUME DemandInv, RestoreDemand
  PROVE  DemandInv'
BY AgainKeeps DEF RestoreDemand, Mutable

LEMMA ResetDemandKeeps ==
  ASSUME ResetDemand
  PROVE  DemandInv'
<1>1. PICK s, after, spare :
        /\ s = FirstFacts /\ after = MetOn(ItemsOf(FirstFacts))
        /\ spare = {n \in ItemsOf(FirstFacts) : n.says \in Goals /\
                \A rec \in records : rec.need = n => rec.row \in late}
  OBVIOUS
<1>2. /\ order' = s
      /\ job' = [NoJob EXCEPT !.op = "rebuild", !.asking = AskedInTurn(s), !.after = after]
      /\ lent' = {} /\ records' = {} /\ proof' = NoQuestion /\ late' = {} /\ unserved' = {}
      /\ adrift' = spare
  BY <1>1 DEF ResetDemand, Rebuild
<1>3. Orderly(s) /\ spare \subseteq ItemsOf(s) /\ \A n \in ItemsOf(s) : n.says \notin Goals
  BY <1>1, FirstFactsOrderly
<1>4. \A r \in after : r \in RowsOn(ItemsOf(s)) /\ Met(r, ItemsOf(s))
  BY <1>1 DEF MetOn, Unmet
<1> QED
  BY <1>2, <1>3, <1>4, NewKeeps

LEMMA DemandStart ==
  ASSUME InitDemand
  PROVE  DemandInv
<1>1. PICK s, after : s = FirstFacts /\ after = MetOn(ItemsOf(FirstFacts))
  OBVIOUS
<1>2. /\ order = s /\ lent = {} /\ records = {} /\ proof = NoQuestion
      /\ late = {} /\ unserved = {} /\ adrift = {}
      /\ job = [NoJob EXCEPT !.op = "rebuild", !.asking = AskedInTurn(s), !.after = after]
  BY <1>1 DEF InitDemand
<1>3. Orderly(s) /\ \A n \in ItemsOf(s) : n.says \notin Goals
  BY <1>1, FirstFactsOrderly
<1>4. Stored = ItemsOf(s) /\ Graph = ItemsOf(s) /\ Owners = {} /\ NeedFacts = {}
  BY <1>2, <1>3 DEF Stored, Graph, Owners, NeedFacts
<1>5. ItemsOf(s) \subseteq Items /\ IsFiniteSet(ItemsOf(s))
  <2>1. s \in Seq(Items)
    BY <1>3 DEF Orderly
  <2>2. ItemsOf(s) \subseteq Items
    BY <2>1 DEF ItemsOf
  <2> QED
    BY <2>1, <2>2, SequenceFinite
<1>6. PICK asked : asked = AskedInTurn(s)
  OBVIOUS
<1>7. /\ asked \subseteq RowsOn(ItemsOf(s)) /\ Unmet(ItemsOf(s)) \subseteq asked
  BY <1>3, <1>6, TurnsFacts
<1>8. \A r \in after : r \in RowsOn(ItemsOf(s)) /\ Met(r, ItemsOf(s)) /\ Shaped(r)
  BY <1>1, RowsIn DEF MetOn, Unmet
<1>9. asked \subseteq Rows /\ after \subseteq Rows
  BY <1>5, <1>7, <1>8, RowsTyped
<1>10. IsFiniteSet(asked) /\ \A r \in asked : IsFiniteSet(r.on)
  BY <1>5, <1>7, RowsFinite, FS_Subset
<1>11. /\ job.gone = {} /\ job.doomed = {} /\ job.answered = {} /\ job.asking = asked
       /\ job.after = after /\ job.lending = FALSE /\ job \in Job
  BY <1>2, <1>6, <1>9 DEF NoJob, Job
<1>12. Ranged
  BY <1>2, <1>3, <1>11 DEF Ranged
<1>13. Small
  BY <1>2, <1>4, <1>10, <1>11, FS_EmptySet DEF Small
<1>14. NeedsBacked /\ Matched /\ Current /\ Apart
  BY <1>2, <1>4, <1>11 DEF NeedsBacked, Matched, Current, Apart
<1>15. Departed
  BY <1>2, <1>4, <1>8, <1>11 DEF Departed
<1>16. Served
  BY <1>4, <1>7, <1>11 DEF Served
<1> QED
  BY <1>12, <1>13, <1>14, <1>15, <1>16 DEF DemandInv

LEMMA DemandIdle ==
  ASSUME DemandInv, UNCHANGED demandVars
  PROVE  DemandInv'
<1>1. UNCHANGED <<order, lent, records, job, proof, late, unserved, adrift>>
  BY DEF demandVars
<1>2. Stored' = Stored /\ Graph' = Graph /\ NeedFacts' = NeedFacts /\ Owners' = Owners
  BY <1>1 DEF Stored, Graph, NeedFacts, Owners
<1>3. Ranged' /\ Small' /\ Matched' /\ Departed'
  BY <1>1, <1>2 DEF DemandInv, Ranged, Small, Matched, Departed
<1>4. NeedsBacked' /\ Apart'
  BY <1>1, <1>2 DEF DemandInv, NeedsBacked, Apart
<1>5. Current' /\ Served'
  BY <1>1, <1>2 DEF DemandInv, Current, Fitting, Served
<1> QED
  BY <1>3, <1>4, <1>5 DEF DemandInv

LEMMA DemandStep ==
  ASSUME DemandInv, [NextDemand]_demandVars
  PROVE  DemandInv'
<1>1. CASE AssertClaim \/ RetractClaim \/ ModifyClaim
  BY <1>1, AssertClaimKeeps, RetractClaimKeeps, ModifyClaimKeeps
<1>2. CASE Release \/ DropNeeds \/ Resolve \/ ResolveAfter \/ Finish
  BY <1>2, ReleaseKeeps, DropNeedsKeeps, ResolveKeeps, ResolveAfterKeeps, FinishKeeps
<1>3. CASE Flush \/ FlushToProof
  BY <1>3, FlushKeeps, FlushToProofKeeps
<1>4. CASE BeginProof \/ EndProof
  BY <1>4, BeginProofKeeps, EndProofKeeps
<1>5. CASE ForkDemand \/ RestoreDemand \/ ResetDemand
  BY <1>5, ForkDemandKeeps, RestoreDemandKeeps, ResetDemandKeeps
<1>6. CASE UNCHANGED demandVars
  BY <1>6, DemandIdle
<1> QED
  BY <1>1, <1>2, <1>3, <1>4, <1>5, <1>6 DEF NextDemand

LEMMA DemandInvariant == SpecDemand => []DemandInv
<1>1. InitDemand => DemandInv
  BY DemandStart
<1>2. DemandInv /\ [NextDemand]_demandVars => DemandInv'
  BY DemandStep
<1> QED
  BY <1>1, <1>2, PTL DEF SpecDemand

----------------------------------------------------------------------------
\* What holds in every state.

\* Every variable of the demand support stays in its range, and a row has one record
\* at most (demandOwnerRecords is by owner).
THEOREM DemandTyped == SpecDemand => []DemandTypeOK
<1>1. DemandInv => DemandTypeOK
  BY DEF DemandInv, Ranged, Orderly, DemandTypeOK
<1> QED
  BY <1>1, DemandInvariant, PTL

\* Whatever is asserted, retracted, modified, proved, forked and restored: a need
\* fact in the store is one that a record of demandOwnerRecords needs, or that is
\* being asked for, or about to go; no record is on a need fact that is not there;
\* and there are not two need facts for one goal.
THEOREM NeedsAreBacked == SpecDemand => []NeedsBacked
<1>1. DemandInv => NeedsBacked
  BY DEF DemandInv
<1> QED
  BY <1>1, DemandInvariant, PTL

\* When no operation is under way, a record is on the need fact for its row's goal,
\* and its row is in the graph and has no match, but for the rows that late lists.
THEOREM RecordsAreCurrent == SpecDemand => []RecordsCurrent
<1>1. ASSUME DemandInv
      PROVE  RecordsCurrent
  <2> SUFFICES ASSUME AtRest, NEW rec \in records
               PROVE  /\ rec.need.says = Goal(rec.row)
                      /\ rec.row \in Unmet(Graph) \cup late
    BY DEF RecordsCurrent
  <2>1. job.gone = {} /\ job.answered = {} /\ job.after = {}
    BY DEF AtRest, NoJob
  <2>2. Fitting(rec.row, job) /\ rec.need.says = Goal(rec.row)
    BY <1>1 DEF DemandInv, Current, Matched
  <2> QED
    BY <2>1, <2>2 DEF Fitting
<1> QED
  BY <1>1, DemandInvariant, PTL

\* When no operation is under way, a row of stored facts that has no match has a
\* record, and so its need fact, unless its request went to a query proof; and facts
\* are lent to the graph only while a proof is active.
THEOREM RowsAreServed == SpecDemand => []RowsServed
<1>1. ASSUME DemandInv
      PROVE  RowsServed
  <2>1. ASSUME AtRest PROVE job.asking = {}
    BY <2>1 DEF AtRest, NoJob
  <2> QED
    BY <1>1, <2>1 DEF DemandInv, Ranged, Served, RowsServed
<1> QED
  BY <1>1, DemandInvariant, PTL
==============================================================================
