-------------------------- MODULE ExplainLogProofs ---------------------------
(***************************************************************************)
(* What ExplainLogProps says of the log, proved for any facts, activations *)
(* and bounds: a fact's entries are its mutations among the newest, its    *)
(* mark tells that one is lost, and the bindings are those of the last     *)
(* firings.                                                                *)
(***************************************************************************)
EXTENDS ExplainLogProps, NumberLemmas, SequenceTheorems

----------------------------------------------------------------------------
\* What is kept of a fact, for any mutations and any number of them dropped.

Mutations == [of : Subjects, entry : Nat]

KeptOf(r, f, d) ==
  LET inOrder[i \in d..Len(r)] ==
        IF i = d THEN <<>>
        ELSE IF r[i].of = f THEN Append(inOrder[i - 1], r[i].entry)
        ELSE inOrder[i - 1]
  IN  inOrder[Len(r)]

\* k is how the entries of f come together, one mutation after the other.
Keeping(k, r, f, d) ==
  /\ k \in [d .. Len(r) -> Seq(Nat)] /\ k[d] = <<>>
  /\ \A n \in d + 1 .. Len(r) :
       k[n] = IF r[n].of = f THEN Append(k[n - 1], r[n].entry) ELSE k[n - 1]

LEMMA KeepingIsOne ==
  ASSUME NEW r \in Seq(Mutations), NEW f, NEW d \in 0 .. Len(r),
         NEW k, NEW l, Keeping(k, r, f, d),
         DOMAIN l = d .. Len(r), l[d] = <<>>,
         \A n \in d + 1 .. Len(r) :
           l[n] = IF r[n].of = f THEN Append(l[n - 1], r[n].entry) ELSE l[n - 1]
  PROVE  \A n \in d .. Len(r) : l[n] = k[n]
<1> DEFINE E == {n \in Nat : d + n <= Len(r) => l[d + n] = k[d + n]}
<1>1. Len(r) \in Nat /\ d \in Nat
  OBVIOUS
<1>2. 0 \in E
  BY <1>1 DEF Keeping
<1>3. ASSUME NEW n \in Nat, n \in E
      PROVE  n + 1 \in E
  <2> SUFFICES ASSUME d + (n + 1) <= Len(r)
               PROVE  l[d + (n + 1)] = k[d + (n + 1)]
    OBVIOUS
  <2>1. PICK m : m = d + (n + 1)
    OBVIOUS
  <2>2. m \in d + 1 .. Len(r) /\ m - 1 = d + n /\ d + n <= Len(r)
    BY <1>1, <2>1
  <2>3. l[m - 1] = k[m - 1]
    BY <1>3, <2>2
  <2>4. l[m] = IF r[m].of = f THEN Append(l[m - 1], r[m].entry) ELSE l[m - 1]
    BY <2>2
  <2>5. k[m] = IF r[m].of = f THEN Append(k[m - 1], r[m].entry) ELSE k[m - 1]
    BY <2>2 DEF Keeping
  <2> QED
    BY <2>1, <2>3, <2>4, <2>5
<1>4. Nat \subseteq E
  <2> HIDE DEF E
  <2> QED
    BY <1>2, <1>3, Counting
<1>5. ASSUME NEW n \in d .. Len(r)
      PROVE  l[n] = k[n]
  <2>1. n - d \in E
    BY <1>1, <1>4
  <2> QED
    BY <1>1, <2>1
<1> QED
  BY <1>5

\* The entries kept are made that way.
LEMMA KeptSteps ==
  ASSUME NEW r \in Seq(Mutations), NEW f, NEW d \in 0 .. Len(r)
  PROVE  \E k : Keeping(k, r, f, d) /\ KeptOf(r, f, d) = k[Len(r)]
<1> DEFINE N == Len(r)
           X == Seq(Nat)
           G == [x \in X \X (1 .. N - d) |->
                   IF r[d + x[2]].of = f THEN Append(x[1], r[d + x[2]].entry) ELSE x[1]]
           Is(g) == g = [i \in d .. Len(r) |->
                           IF i = d THEN <<>>
                           ELSE IF r[i].of = f THEN Append(g[i - 1], r[i].entry)
                           ELSE g[i - 1]]
           kept == CHOOSE g : Is(g)
<1>1. /\ N \in Nat /\ d \in Nat /\ N - d \in Nat
      /\ \A k \in 1 .. N - d : d + k \in 1 .. N
      /\ \A k \in 1 .. N : r[k].entry \in Nat
  <2>1. N \in Nat /\ d \in Nat /\ d <= N
    OBVIOUS
  <2>2. \A k \in 1 .. N : r[k] \in Mutations
    OBVIOUS
  <2>3. \A k \in 1 .. N : r[k].entry \in Nat
    BY <2>2 DEF Mutations
  <2> HIDE DEF N
  <2> QED
    BY <2>1, <2>3
<1>2. G \in [X \X (1 .. N - d) -> X]
  <2>1. \A x \in X \X (1 .. N - d) : x[1] \in X /\ x[2] \in 1 .. N - d
    OBVIOUS
  <2>2. \A t \in X, i \in Nat : Append(t, i) \in X
    OBVIOUS
  <2> HIDE DEF X, N
  <2> QED
    BY <1>1, <2>1, <2>2
<1>3. PICK b : Builds(b, N - d, X, <<>>, G)
  <2>1. <<>> \in X
    OBVIOUS
  <2> HIDE DEF G, N, X
  <2> QED
    BY <1>1, <1>2, <2>1, Recursion
<1>4. ASSUME NEW n \in 1 .. N - d
      PROVE  b[n] = IF r[d + n].of = f THEN Append(b[n - 1], r[d + n].entry) ELSE b[n - 1]
  <2>1. b[n - 1] \in X
    <3>1. n - 1 \in 0 .. N - d
      BY <1>1
    <3> HIDE DEF X, N, G
    <3> QED
      BY <1>3, <3>1 DEF Builds
  <2> HIDE DEF X, N
  <2>2. <<b[n - 1], n>> \in X \X (1 .. N - d)
    BY <2>1
  <2>3. G[<<b[n - 1], n>>] =
          IF r[d + n].of = f THEN Append(b[n - 1], r[d + n].entry) ELSE b[n - 1]
    BY <2>2
  <2> HIDE DEF G
  <2> QED
    BY <1>3, <2>3 DEF Builds
<1> DEFINE g == [i \in d .. Len(r) |-> b[i - d]]
<1>5. /\ g \in [d .. N -> X] /\ g[d] = <<>>
      /\ \A n \in d + 1 .. N :
           g[n] = IF r[n].of = f THEN Append(g[n - 1], r[n].entry) ELSE g[n - 1]
  <2>1. g \in [d .. N -> X] /\ g[d] = <<>>
    <3>1. b \in [0 .. N - d -> X] /\ b[0] = <<>>
      BY <1>3 DEF Builds
    <3>2. d \in d .. N /\ d - d = 0 /\ \A i \in d .. N : i - d \in 0 .. N - d
      BY <1>1
    <3> HIDE DEF X
    <3> QED
      BY <3>1, <3>2
  <2>2. ASSUME NEW n \in d + 1 .. N
        PROVE  g[n] = IF r[n].of = f THEN Append(g[n - 1], r[n].entry) ELSE g[n - 1]
    <3>1. PICK m : m = n - d
      OBVIOUS
    <3>2. m \in 1 .. N - d /\ d + m = n /\ n \in d .. N /\ n - 1 \in d .. N /\ (n - 1) - d = m - 1
      BY <1>1, <3>1
    <3>3. g[n] = b[m] /\ g[n - 1] = b[m - 1]
      BY <3>1, <3>2
    <3> QED
      BY <1>4, <3>2, <3>3
  <2> QED
    BY <2>1, <2>2
<1>6. Is(g)
  <2>1. \A i \in d .. N : i # d => i \in d + 1 .. N
    BY <1>1
  <2>2. \A i \in d .. N : g[i] = IF i = d THEN <<>>
                                 ELSE IF r[i].of = f THEN Append(g[i - 1], r[i].entry)
                                 ELSE g[i - 1]
    <3> HIDE DEF g, X, G
    <3> QED
      BY <1>5, <2>1
  <2>3. g = [i \in d .. N |-> g[i]]
    <3>1. \A i \in d .. Len(r) : g[i] = b[i - d]
      OBVIOUS
    <3> QED
      BY <1>5
  <2> HIDE DEF g, X, G
  <2> QED
    BY <2>2, <2>3, Zenon
<1>7. Is(kept)
  <2> HIDE DEF Is, g
  <2> QED
    BY <1>6
<1>8. KeptOf(r, f, d) = kept[N]
  BY DEF KeptOf
<1>9. Keeping(g, r, f, d)
  <2> HIDE DEF g
  <2> QED
    BY <1>5 DEF Keeping
<1> HIDE DEF kept, g
<1>10. /\ DOMAIN kept = d .. Len(r) /\ kept[d] = <<>>
       /\ \A n \in d + 1 .. Len(r) :
            kept[n] = IF r[n].of = f THEN Append(kept[n - 1], r[n].entry) ELSE kept[n - 1]
  <2>1. d \in d .. N /\ \A n \in d + 1 .. N : n \in d .. N /\ n # d
    BY <1>1
  <2>2. DOMAIN kept = d .. Len(r)
    BY <1>7, Zenon
  <2>3. \A i \in d .. Len(r) : kept[i] = IF i = d THEN <<>>
                                 ELSE IF r[i].of = f THEN Append(kept[i - 1], r[i].entry)
                                 ELSE kept[i - 1]
    BY <1>7, Zenon
  <2> HIDE DEF Is
  <2> QED
    BY <2>1, <2>2, <2>3
<1>11. N \in d .. Len(r)
  BY <1>1
<1>12. kept[N] = g[N]
  <2> HIDE DEF Is, N
  <2> QED
    BY <1>9, <1>10, <1>11, KeepingIsOne
<1> QED
  BY <1>8, <1>9, <1>12

LEMMA KeptIs ==
  ASSUME NEW r \in Seq(Mutations), NEW f, NEW d \in 0 .. Len(r), NEW k, Keeping(k, r, f, d)
  PROVE  KeptOf(r, f, d) = k[Len(r)]
<1>1. PICK l : Keeping(l, r, f, d) /\ KeptOf(r, f, d) = l[Len(r)]
  BY KeptSteps
<1>2. /\ DOMAIN l = d .. Len(r) /\ l[d] = <<>>
      /\ \A n \in d + 1 .. Len(r) :
           l[n] = IF r[n].of = f THEN Append(l[n - 1], r[n].entry) ELSE l[n - 1]
  BY <1>1 DEF Keeping
<1>3. Len(r) \in d .. Len(r)
  OBVIOUS
<1>4. \A n \in d .. Len(r) : l[n] = k[n]
  BY <1>2, KeepingIsOne
<1> QED
  BY <1>1, <1>3, <1>4

\* A mutation more.
LEMMA KeptAppend ==
  ASSUME NEW r \in Seq(Mutations), NEW x \in Mutations, NEW f, NEW d \in 0 .. Len(r)
  PROVE  KeptOf(Append(r, x), f, d) =
           IF x.of = f THEN Append(KeptOf(r, f, d), x.entry) ELSE KeptOf(r, f, d)
<1> DEFINE N == Len(r)
           q == Append(r, x)
<1>1. PICK k : Keeping(k, r, f, d) /\ KeptOf(r, f, d) = k[N]
  BY KeptSteps
<1> DEFINE last == IF x.of = f THEN Append(k[N], x.entry) ELSE k[N]
           l == [i \in d .. N + 1 |-> IF i = N + 1 THEN last ELSE k[i]]
<1>2. /\ N \in Nat /\ d \in Nat /\ d <= N
      /\ q \in Seq(Mutations) /\ Len(q) = N + 1 /\ d \in 0 .. Len(q)
      /\ q[N + 1] = x /\ \A i \in 1 .. N : q[i] = r[i]
  BY AppendProperties
<1>3. k \in [d .. N -> Seq(Nat)] /\ x.entry \in Nat
  BY <1>1 DEF Keeping, Mutations
<1>4. last \in Seq(Nat)
  BY <1>2, <1>3
<1> HIDE DEF last, q, N
<1>5. l \in [d .. N + 1 -> Seq(Nat)]
  BY <1>2, <1>3, <1>4
<1>6. l[d] = <<>>
  BY <1>1, <1>2 DEF Keeping, N
<1>7. ASSUME NEW n \in d + 1 .. N + 1
      PROVE  l[n] = IF q[n].of = f THEN Append(l[n - 1], q[n].entry) ELSE l[n - 1]
  <2>1. n - 1 \in d .. N + 1 /\ n - 1 # N + 1
    BY <1>2
  <2>2. l[n - 1] = k[n - 1]
    BY <2>1
  <2>3. CASE n = N + 1
    <3>1. n - 1 = N /\ q[n] = x /\ l[n] = last
      BY <1>2, <2>3
    <3> QED
      BY <2>2, <3>1 DEF last
  <2>4. CASE n # N + 1
    <3>1. n \in d + 1 .. N /\ n \in 1 .. N /\ l[n] = k[n]
      BY <1>2, <2>4
    <3>2. k[n] = IF r[n].of = f THEN Append(k[n - 1], r[n].entry) ELSE k[n - 1]
      BY <1>1, <3>1 DEF Keeping, N
    <3> QED
      BY <1>2, <2>2, <3>1, <3>2
  <2> QED
    BY <2>3, <2>4
<1>8. l[N + 1] = last
  BY <1>2
<1> HIDE DEF l
<1>9. Keeping(l, q, f, d)
  BY <1>2, <1>5, <1>6, <1>7 DEF Keeping
<1>10. KeptOf(q, f, d) = l[Len(q)]
  BY <1>2, <1>9, KeptIs
<1> QED
  BY <1>1, <1>2, <1>8, <1>10 DEF last, q

\* What is kept of a fact has its mutations of d + 1 and after: nothing if there are none.
LEMMA KeptNothing ==
  ASSUME NEW r \in Seq(Mutations), NEW f, NEW d \in 0 .. Len(r)
  PROVE  /\ KeptOf(r, f, d) \in Seq(Nat)
         /\ KeptOf(r, f, d) = <<>> <=> \A i \in d + 1 .. Len(r) : r[i].of # f
<1> DEFINE N == Len(r)
<1>1. PICK k : Keeping(k, r, f, d) /\ KeptOf(r, f, d) = k[N]
  BY KeptSteps
<1>2. N \in Nat /\ d \in Nat /\ d <= N /\ N - d \in Nat
  OBVIOUS
<1> DEFINE E == {n \in Nat : d + n <= N =>
                   (k[d + n] = <<>> <=> \A i \in d + 1 .. d + n : r[i].of # f)}
<1>3. 0 \in E
  BY <1>1, <1>2 DEF Keeping
<1>4. ASSUME NEW n \in Nat, n \in E
      PROVE  n + 1 \in E
  <2> SUFFICES ASSUME d + (n + 1) <= N
               PROVE  k[d + (n + 1)] = <<>> <=> \A i \in d + 1 .. d + (n + 1) : r[i].of # f
    OBVIOUS
  <2>1. PICK m : m = d + (n + 1)
    OBVIOUS
  <2>2. m \in d + 1 .. N /\ m - 1 = d + n /\ m - 1 \in d .. N /\ d + n <= N
    BY <1>2, <2>1
  <2>3. k[m] = IF r[m].of = f THEN Append(k[m - 1], r[m].entry) ELSE k[m - 1]
    BY <1>1, <2>2 DEF Keeping
  <2>4. k[m - 1] = <<>> <=> \A i \in d + 1 .. m - 1 : r[i].of # f
    BY <1>4, <2>2
  <2>5. k[m - 1] \in Seq(Nat) /\ r[m].entry \in Nat
    <3>1. k \in [d .. N -> Seq(Nat)] /\ m \in 1 .. N
      BY <1>1, <1>2, <2>2 DEF Keeping
    <3>2. r[m] \in Mutations
      BY <3>1
    <3> QED
      BY <2>2, <3>1, <3>2 DEF Mutations
  <2>6. d + 1 .. m = (d + 1 .. m - 1) \cup {m}
    BY <1>2, <2>2
  <2>7. r[m].of = f => k[m] # <<>>
    <3>1. \A s \in Seq(Nat), e \in Nat : Append(s, e) # <<>>
      BY AppendProperties
    <3> HIDE DEF N, E
    <3> QED
      BY <2>3, <2>5, <3>1
  <2> HIDE DEF N, E
  <2>8. k[m] = <<>> <=> \A i \in d + 1 .. m : r[i].of # f
    BY <2>3, <2>4, <2>6, <2>7
  <2> QED
    BY <2>1, <2>8
<1>5. Nat \subseteq E
  <2> HIDE DEF E
  <2> QED
    BY <1>3, <1>4, Counting
<1>6. N - d \in E
  BY <1>2, <1>5
<1>7. d + (N - d) = N
  BY <1>2
<1>8. k[N] = <<>> <=> \A i \in d + 1 .. N : r[i].of # f
  <2> HIDE DEF N
  <2> QED
    BY <1>2, <1>6, <1>7
<1>9. k[N] \in Seq(Nat)
  <2>1. k \in [d .. N -> Seq(Nat)]
    BY <1>1 DEF Keeping
  <2> HIDE DEF N
  <2> QED
    BY <1>2, <2>1
<1> QED
  BY <1>1, <1>8, <1>9

\* The oldest mutation dropped: the oldest entry of its fact goes.
LEMMA KeptDrop ==
  ASSUME NEW r \in Seq(Mutations), NEW f, NEW d \in Nat, d + 1 <= Len(r)
  PROVE  KeptOf(r, f, d + 1) =
           IF r[d + 1].of = f THEN Tail(KeptOf(r, f, d)) ELSE KeptOf(r, f, d)
<1> DEFINE N == Len(r)
<1>1. N \in Nat /\ d \in 0 .. N /\ d + 1 \in 0 .. N /\ d + 1 \in 1 .. N
  OBVIOUS
<1>2. PICK k : Keeping(k, r, f, d) /\ KeptOf(r, f, d) = k[N]
  BY <1>1, KeptSteps
<1> DEFINE gone == r[d + 1].of = f
           l == [i \in d + 1 .. N |-> IF gone THEN Tail(k[i]) ELSE k[i]]
<1>3. /\ k \in [d .. N -> Seq(Nat)] /\ k[d] = <<>>
      /\ \A n \in d + 1 .. N :
           k[n] = IF r[n].of = f THEN Append(k[n - 1], r[n].entry) ELSE k[n - 1]
  BY <1>2 DEF Keeping
<1>4. \A n \in 1 .. N : r[n].entry \in Nat
  <2>1. \A n \in 1 .. N : r[n] \in Mutations
    OBVIOUS
  <2> QED
    BY <2>1 DEF Mutations
<1> HIDE DEF N
<1>5. k[d + 1] = IF gone THEN <<r[d + 1].entry>> ELSE <<>>
  <2>1. d + 1 \in d + 1 .. N /\ (d + 1) - 1 = d
    BY <1>1
  <2>2. Append(<<>>, r[d + 1].entry) = <<r[d + 1].entry>>
    OBVIOUS
  <2> QED
    BY <1>3, <2>1, <2>2
<1> DEFINE E == {n \in Nat : (d + 1) + n <= N => (gone => k[(d + 1) + n] # <<>>)}
<1>6. 0 \in E
  <2>1. (d + 1) + 0 = d + 1
    BY <1>1
  <2>2. <<r[d + 1].entry>> # <<>>
    OBVIOUS
  <2>3. gone => k[d + 1] # <<>>
    <3> HIDE DEF gone
    <3> QED
      BY <1>5, <2>2
  <2> QED
    BY <2>1, <2>3
<1>7. ASSUME NEW n \in Nat, n \in E
      PROVE  n + 1 \in E
  <2> SUFFICES ASSUME (d + 1) + (n + 1) <= N, gone
               PROVE  k[(d + 1) + (n + 1)] # <<>>
    BY DEF E
  <2>1. PICK m : m = (d + 1) + (n + 1)
    OBVIOUS
  <2>2. /\ m \in d + 1 .. N /\ m - 1 = (d + 1) + n /\ m - 1 \in d .. N /\ m \in 1 .. N
        /\ (d + 1) + n <= N
    BY <1>1, <2>1
  <2>3. k[m - 1] # <<>> /\ k[m - 1] \in Seq(Nat) /\ r[m].entry \in Nat
    BY <1>3, <1>4, <1>7, <2>2
  <2>4. Append(k[m - 1], r[m].entry) # <<>>
    BY <2>3, AppendProperties
  <2> QED
    BY <1>3, <2>1, <2>2, <2>3, <2>4
<1>8. Nat \subseteq E
  <2> HIDE DEF E
  <2> QED
    BY <1>6, <1>7, Counting
<1>9. ASSUME NEW n \in d + 1 .. N, gone
      PROVE  k[n] # <<>>
  <2>1. n - (d + 1) \in Nat /\ (d + 1) + (n - (d + 1)) = n /\ n <= N
    BY <1>1
  <2> QED
    BY <1>8, <1>9, <2>1
<1> HIDE DEF E
<1>10. l \in [d + 1 .. N -> Seq(Nat)]
  <2>1. \A n \in d + 1 .. N : k[n] \in Seq(Nat)
    BY <1>1, <1>3
  <2>2. \A n \in d + 1 .. N : gone => Tail(k[n]) \in Seq(Nat)
    BY <1>9, <2>1, HeadTailProperties
  <2> HIDE DEF gone
  <2> QED
    BY <2>1, <2>2
<1>11. l[d + 1] = <<>>
  <2>1. Tail(<<r[d + 1].entry>>) = <<>>
    OBVIOUS
  <2>2. d + 1 \in d + 1 .. N
    BY <1>1
  <2> HIDE DEF gone
  <2> QED
    BY <1>5, <2>1, <2>2
<1>12. ASSUME NEW n \in (d + 1) + 1 .. N
       PROVE  l[n] = IF r[n].of = f THEN Append(l[n - 1], r[n].entry) ELSE l[n - 1]
  <2>1. n \in d + 1 .. N /\ n - 1 \in d + 1 .. N /\ n - 1 \in d .. N /\ n \in 1 .. N
    BY <1>1
  <2>2. k[n] = IF r[n].of = f THEN Append(k[n - 1], r[n].entry) ELSE k[n - 1]
    BY <1>3, <2>1
  <2>3. gone => k[n - 1] # <<>> /\ k[n - 1] \in Seq(Nat)
    BY <1>3, <1>9, <2>1
  <2>4. gone => Tail(Append(k[n - 1], r[n].entry)) = Append(Tail(k[n - 1]), r[n].entry)
    BY <2>3, HeadTailAppend
  <2>5. /\ l[n] = IF gone THEN Tail(k[n]) ELSE k[n]
        /\ l[n - 1] = IF gone THEN Tail(k[n - 1]) ELSE k[n - 1]
    BY <2>1
  <2> HIDE DEF gone, l
  <2> QED
    BY <2>2, <2>4, <2>5
<1>13. N \in d + 1 .. N
  BY <1>1
<1>14. l[N] = IF gone THEN Tail(k[N]) ELSE k[N]
  BY <1>13
<1> HIDE DEF l, gone
<1>15. Keeping(l, r, f, d + 1)
  BY <1>10, <1>11, <1>12 DEF Keeping, N
<1>16. KeptOf(r, f, d + 1) = l[N]
  BY <1>1, <1>15, KeptIs DEF N
<1> QED
  BY <1>2, <1>14, <1>16 DEF gone

----------------------------------------------------------------------------
\* The mark of a fact, for any mutations and any number of them dropped.

OfIn(r, f, from, to) == {i \in DOMAIN r : i \in from..to /\ r[i].of = f}

WholeFrom(r, f, i) ==
  \A j \in OfIn(r, f, i, Len(r)) :
    \/ OfIn(r, f, j + 1, Len(r)) = {}
    \/ OfIn(r, f, j + 1, j + MaxEntries) # {}

Lost(r, f, d) == \E i \in OfIn(r, f, 1, d) : WholeFrom(r, f, i)

\* The mutations of a fact before one more, and after it.
LEMMA OneMore ==
  ASSUME NEW r \in Seq(Mutations), NEW x \in Mutations, NEW f, NEW a \in Nat, NEW b \in Nat
  PROVE  /\ OfIn(Append(r, x), f, a, b) \ {Len(r) + 1} = OfIn(r, f, a, b)
         /\ Len(r) + 1 \in OfIn(Append(r, x), f, a, b)
              <=> x.of = f /\ Len(r) + 1 \in a .. b
         /\ OfIn(r, f, a, b) \in SUBSET (1 .. Len(r))
<1> DEFINE N == Len(r)
           q == Append(r, x)
<1>1. /\ N \in Nat /\ DOMAIN r = 1 .. N /\ DOMAIN q = 1 .. N + 1
      /\ q[N + 1] = x /\ \A i \in 1 .. N : q[i] = r[i]
  OBVIOUS
<1> HIDE DEF N, q
<1>2. OfIn(q, f, a, b) \ {N + 1} = OfIn(r, f, a, b)
  <2>1. \A i \in 1 .. N + 1 : i # N + 1 <=> i \in 1 .. N
    BY <1>1
  <2> QED
    BY <1>1, <2>1 DEF OfIn
<1>3. N + 1 \in OfIn(q, f, a, b) <=> x.of = f /\ N + 1 \in a .. b
  BY <1>1 DEF OfIn
<1>4. OfIn(r, f, a, b) \in SUBSET (1 .. N)
  BY <1>1 DEF OfIn
<1> QED
  BY <1>2, <1>3, <1>4 DEF N, q

\* A mutation of another fact breaks no history and mends none.
LEMMA WholeOfOther ==
  ASSUME NEW r \in Seq(Mutations), NEW x \in Mutations, NEW f, x.of # f, NEW i \in Nat
  PROVE  WholeFrom(Append(r, x), f, i) <=> WholeFrom(r, f, i)
<1> DEFINE N == Len(r)
           q == Append(r, x)
<1>1. MaxEntries \in Nat /\ N \in Nat /\ Len(q) = N + 1
  BY LogAssumption
<1>2. ASSUME NEW a \in Nat, NEW b \in Nat
      PROVE  OfIn(q, f, a, b) = OfIn(r, f, a, b)
  <2>1. /\ OfIn(q, f, a, b) \ {N + 1} = OfIn(r, f, a, b)
        /\ N + 1 \in OfIn(q, f, a, b) <=> x.of = f /\ N + 1 \in a .. b
    BY OneMore
  <2> HIDE DEF q, N
  <2> QED
    BY <2>1
<1>3. ASSUME NEW a \in Nat
      PROVE  OfIn(r, f, a, N + 1) = OfIn(r, f, a, N)
  BY <1>1 DEF OfIn
<1> HIDE DEF q, N
<1>4. \A a \in Nat : OfIn(q, f, a, N + 1) = OfIn(r, f, a, N)
  BY <1>1, <1>2, <1>3
<1>5. OfIn(q, f, i, N + 1) = OfIn(r, f, i, N)
  BY <1>4
<1>6. ASSUME NEW j \in OfIn(r, f, i, N)
      PROVE  /\ OfIn(q, f, j + 1, N + 1) = OfIn(r, f, j + 1, N)
             /\ OfIn(q, f, j + 1, j + MaxEntries) = OfIn(r, f, j + 1, j + MaxEntries)
  <2>1. j \in Nat
    BY <1>1 DEF OfIn
  <2>2. j + 1 \in Nat /\ j + MaxEntries \in Nat
    BY <1>1, <2>1
  <2> QED
    BY <1>2, <1>4, <2>2
<1> QED
  BY <1>1, <1>5, <1>6 DEF WholeFrom, q, N

\* One of the fact itself mends none, and breaks the history unless the fact has
\* an entry among the newest.
LEMMA WholeOfOwn ==
  ASSUME NEW r \in Seq(Mutations), NEW x \in Mutations, NEW f, x.of = f,
         NEW d \in Nat, Len(r) = d + MaxEntries, NEW i \in OfIn(r, f, 1, d)
  PROVE  WholeFrom(Append(r, x), f, i)
           <=> WholeFrom(r, f, i) /\ OfIn(r, f, d + 1, Len(r)) # {}
<1> DEFINE N == Len(r)
           q == Append(r, x)
           M == MaxEntries
<1>1. M \in Nat /\ M # 0 /\ N \in Nat /\ Len(q) = N + 1 /\ N = d + M
  BY LogAssumption
<1>2. i \in Nat /\ i \in 1 .. d /\ i \in 1 .. N /\ r[i].of = f
  BY <1>1 DEF OfIn
<1>3. ASSUME NEW a \in Nat, NEW b \in Nat
      PROVE  /\ OfIn(q, f, a, b) \ {N + 1} = OfIn(r, f, a, b)
             /\ N + 1 \in OfIn(q, f, a, b) <=> N + 1 \in a .. b
             /\ OfIn(r, f, a, b) \in SUBSET (1 .. N)
  BY OneMore
<1>4. \A a, b, k \in Nat : k \in OfIn(r, f, a, b) <=> k \in 1 .. N /\ k \in a .. b /\ r[k].of = f
  BY <1>1 DEF OfIn
<1> HIDE DEF q, N, M
<1>5. PICK l \in OfIn(r, f, i, N) : \A j \in OfIn(r, f, i, N) : j <= l
  <2>1. i \in OfIn(r, f, i, N)
    BY <1>1, <1>2, <1>4
  <2>2. OfIn(r, f, i, N) \in SUBSET (0 .. N)
    BY <1>1, <1>2, <1>3
  <2> HIDE DEF OfIn
  <2> QED
    BY <1>1, <2>1, <2>2, Greatest
<1>6. l \in Nat /\ l \in 1 .. N /\ l >= i /\ r[l].of = f
  BY <1>1, <1>2, <1>4, <1>5, <1>3
<1>7. OfIn(r, f, l + 1, N) = {}
  <2> SUFFICES ASSUME NEW j \in OfIn(r, f, l + 1, N) PROVE FALSE
    OBVIOUS
  <2>1. j \in Nat /\ j \in 1 .. N /\ j \in l + 1 .. N /\ r[j].of = f
    BY <1>1, <1>6 DEF OfIn, N
  <2>2. j \in OfIn(r, f, i, N)
    BY <1>1, <1>2, <1>4, <1>6, <2>1
  <2> QED
    BY <1>5, <1>6, <2>1, <2>2
<1>8. OfIn(r, f, d + 1, N) # {} <=> l >= d + 1
  <2>1. ASSUME l >= d + 1
        PROVE  l \in OfIn(r, f, d + 1, N)
    BY <1>1, <1>4, <1>6, <2>1
  <2>2. ASSUME NEW j \in OfIn(r, f, d + 1, N)
        PROVE  l >= d + 1
    <3>1. j \in Nat /\ j \in 1 .. N /\ j \in d + 1 .. N /\ r[j].of = f
      BY <1>1 DEF OfIn, N
    <3>2. j \in OfIn(r, f, i, N)
      BY <1>1, <1>2, <1>4, <3>1
    <3> QED
      BY <1>5, <1>6, <3>1, <3>2
  <2> QED
    BY <2>1, <2>2
<1>9. OfIn(q, f, i, N + 1) = OfIn(r, f, i, N) \cup {N + 1}
  <2>1. OfIn(r, f, i, N + 1) = OfIn(r, f, i, N)
    BY <1>1, <1>2 DEF OfIn, N
  <2>2. N + 1 \in i .. N + 1 /\ N + 1 \in Nat
    BY <1>1, <1>2
  <2> QED
    BY <1>2, <1>3, <2>1, <2>2
<1>10. ASSUME NEW j \in OfIn(r, f, i, N)
       PROVE  \/ OfIn(q, f, j + 1, N + 1) = {}
              \/ OfIn(q, f, j + 1, j + M) # {}
              <=> IF j = l THEN l >= d + 1 ELSE OfIn(r, f, j + 1, j + M) # {}
  <2>1. j \in Nat /\ j \in 1 .. N /\ j >= i /\ j <= l
    BY <1>1, <1>2, <1>5 DEF OfIn, N
  <2>2. OfIn(q, f, j + 1, N + 1) # {}
    <3>1. N + 1 \in j + 1 .. N + 1 /\ j + 1 \in Nat /\ N + 1 \in Nat
      BY <1>1, <2>1
    <3> QED
      BY <1>3, <3>1
  <2>3. j + 1 \in Nat /\ j + M \in Nat
    BY <1>1, <2>1
  <2>4. N + 1 \in OfIn(q, f, j + 1, j + M) <=> j >= d + 1
    <3>1. N + 1 \in j + 1 .. j + M <=> j >= d + 1
      BY <1>1, <2>1
    <3> QED
      BY <1>3, <2>3, <3>1
  <2>5. CASE j = l
    <3>1. OfIn(r, f, l + 1, l + M) = {}
      <4> SUFFICES ASSUME NEW k \in OfIn(r, f, l + 1, l + M) PROVE FALSE
        OBVIOUS
      <4>1. k \in 1 .. N /\ k \in l + 1 .. l + M /\ r[k].of = f
        BY <1>1, <1>6 DEF OfIn, N
      <4>2. k \in OfIn(r, f, l + 1, N)
        BY <1>1, <1>4, <1>6, <4>1
      <4> QED
        BY <1>7, <4>2
    <3>2. OfIn(q, f, l + 1, l + M) # {} <=> N + 1 \in OfIn(q, f, l + 1, l + M)
      BY <1>3, <2>3, <2>5, <3>1
    <3> QED
      BY <2>2, <2>4, <2>5, <3>2
  <2>6. CASE j # l
    <3>1. j < l
      BY <2>1, <2>6, <1>6
    <3>2. OfIn(r, f, j + 1, j + M) # {} => OfIn(q, f, j + 1, j + M) # {}
      BY <1>3, <2>3
    <3>3. ASSUME OfIn(r, f, j + 1, j + M) = {}
          PROVE  OfIn(q, f, j + 1, j + M) = {}
      <4>1. l > j + M
        <5>1. l \notin j + 1 .. j + M
          BY <1>4, <1>6, <2>3, <3>3
        <5> QED
          BY <1>1, <1>6, <2>1, <3>1, <5>1
      <4>2. ~ (j >= d + 1)
        BY <1>1, <1>6, <2>1, <4>1
      <4> QED
        BY <1>3, <2>3, <2>4, <3>3, <4>2
    <3> QED
      BY <2>2, <2>6, <3>2, <3>3
  <2> QED
    BY <2>5, <2>6
<1>11. ASSUME NEW j \in OfIn(r, f, i, N)
       PROVE  \/ OfIn(r, f, j + 1, N) = {}
              \/ OfIn(r, f, j + 1, j + M) # {}
              <=> IF j = l THEN TRUE ELSE OfIn(r, f, j + 1, j + M) # {}
  <2>1. CASE j = l
    BY <1>7, <2>1
  <2>2. CASE j # l
    <3>1. j \in Nat /\ j \in 1 .. N /\ j < l
      BY <1>1, <1>2, <1>5, <1>6, <2>2 DEF OfIn, N
    <3>2. l \in OfIn(r, f, j + 1, N)
      BY <1>1, <1>4, <1>6, <3>1
    <3> QED
      BY <2>2, <3>2
  <2> QED
    BY <2>1, <2>2
<1>12. OfIn(q, f, (N + 1) + 1, N + 1) = {}
  BY <1>1 DEF OfIn
<1>13. WholeFrom(q, f, i)
         <=> \A j \in OfIn(r, f, i, N) : IF j = l THEN l >= d + 1
                                         ELSE OfIn(r, f, j + 1, j + M) # {}
  <2>1. WholeFrom(q, f, i)
          <=> \A j \in OfIn(r, f, i, N) : \/ OfIn(q, f, j + 1, N + 1) = {}
                                          \/ OfIn(q, f, j + 1, j + M) # {}
    BY <1>1, <1>9, <1>12 DEF WholeFrom, M
  <2> QED
    BY <2>1, <1>10
<1>14. WholeFrom(r, f, i)
         <=> \A j \in OfIn(r, f, i, N) : IF j = l THEN TRUE
                                         ELSE OfIn(r, f, j + 1, j + M) # {}
  <2>1. WholeFrom(r, f, i)
          <=> \A j \in OfIn(r, f, i, N) : \/ OfIn(r, f, j + 1, N) = {}
                                          \/ OfIn(r, f, j + 1, j + M) # {}
    BY DEF WholeFrom, M, N
  <2> QED
    BY <2>1, <1>11
<1> QED
  BY <1>5, <1>8, <1>13, <1>14 DEF q, N

----------------------------------------------------------------------------
\* The invariant: the queue of arrivals are the facts of the newest mutations.

DroppedOf(n) == IF n <= MaxEntries THEN 0 ELSE n - MaxEntries

Newest(r) == [i \in 1 .. Len(r) - DroppedOf(Len(r)) |-> r[DroppedOf(Len(r)) + i].of]

FactsTold ==
  /\ recorded \in Seq(Mutations)
  /\ arrivals = Newest(recorded)
  /\ byFact = [f \in Subjects |-> KeptOf(recorded, f, DroppedOf(Len(recorded)))]
  /\ truncatedFacts \in SUBSET Subjects
  /\ \A f \in Subjects : f \in truncatedFacts <=>
       byFact[f] # <<>> /\ Lost(recorded, f, DroppedOf(Len(recorded)))

BindingsTold ==
  /\ captured \in [Authors -> Nat] /\ completed \in [Authors -> Nat]
  /\ bindingArrivals \in Seq(Authors)
  /\ \A a \in Authors : captured[a] \in {0, completed[a]}
  /\ \A a \in Authors :
       captured[a] # 0 <=> \E i \in 1 .. Len(bindingArrivals) : bindingArrivals[i] = a
  /\ \A i, j \in 1 .. Len(bindingArrivals) : bindingArrivals[i] = bindingArrivals[j] => i = j

LogInv == clock \in Nat /\ FactsTold /\ BindingsTold

\* What a step of Note does, for any log.
LEMMA NoteTells ==
  ASSUME FactsTold, clock' \in Nat, NEW h \in Subjects, Note(h)
  PROVE  FactsTold'
<1>1. PICK x : x = [of |-> h, entry |-> clock']
  OBVIOUS
<1>2. PICK r : r = recorded
  OBVIOUS
<1>3. PICK d : d = DroppedOf(Len(r))
  OBVIOUS
<1>4. PICK q : q = Append(r, x)
  OBVIOUS
<1>5. PICK e : e = DroppedOf(Len(q))
  OBVIOUS
<1>6. /\ r \in Seq(Mutations) /\ x \in Mutations /\ x.of = h /\ x.entry = clock'
      /\ MaxEntries \in Nat /\ MaxEntries # 0 /\ Len(r) \in Nat
  BY <1>1, <1>2, LogAssumption DEF FactsTold, Mutations
<1>7. /\ q \in Seq(Mutations) /\ Len(q) = Len(r) + 1 /\ q[Len(r) + 1] = x
      /\ \A i \in 1 .. Len(r) : q[i] = r[i]
  BY <1>4, <1>6, AppendProperties
<1>8. recorded' = q
  BY <1>1, <1>2, <1>4 DEF Note
<1>9. d \in Nat /\ d <= Len(r) /\ Len(r) - d <= MaxEntries /\ d \in 0 .. Len(r)
  BY <1>3, <1>6 DEF DroppedOf
<1>10. PICK kept : kept = [byFact EXCEPT ![h] = Append(@, clock')]
  OBVIOUS
<1>11. PICK queue : queue = Append(arrivals, h)
  OBVIOUS
<1>12. byFact = [f \in Subjects |-> KeptOf(r, f, d)]
  BY <1>2, <1>3 DEF FactsTold
<1>13. kept = [f \in Subjects |-> KeptOf(q, f, d)]
  <2>1. \A f \in Subjects : KeptOf(q, f, d) =
          IF h = f THEN Append(KeptOf(r, f, d), clock') ELSE KeptOf(r, f, d)
    BY <1>4, <1>6, <1>9, KeptAppend
  <2> QED
    BY <1>10, <1>12, <2>1
<1>14. /\ queue \in Seq(Subjects) /\ Len(queue) = Len(q) - d
       /\ queue = [i \in 1 .. Len(q) - d |-> q[d + i].of]
  <2>1. arrivals = [i \in 1 .. Len(r) - d |-> r[d + i].of]
    BY <1>2, <1>3 DEF FactsTold, Newest
  <2>2. \A i \in 1 .. Len(r) - d : d + i \in 1 .. Len(r)
    BY <1>6, <1>9
  <2>3. \A i \in 1 .. Len(r) : r[i] \in Mutations
    BY <1>6
  <2>4. Len(r) - d \in Nat /\ \A i \in 1 .. Len(r) - d : r[d + i].of \in Subjects
    BY <1>6, <1>9, <2>2, <2>3 DEF Mutations
  <2>5. PICK s : s = arrivals
    OBVIOUS
  <2>6. s \in Seq(Subjects) /\ Len(s) = Len(r) - d
    BY <2>1, <2>4, <2>5
  <2>7. /\ queue \in Seq(Subjects) /\ Len(queue) = Len(s) + 1 /\ queue[Len(s) + 1] = h
        /\ \A i \in 1 .. Len(s) : queue[i] = s[i]
    BY <1>11, <2>5, <2>6, AppendProperties
  <2>8. Len(queue) = Len(q) - d
    BY <1>6, <1>7, <1>9, <2>6, <2>7
  <2>9. ASSUME NEW i \in 1 .. Len(q) - d
        PROVE  queue[i] = q[d + i].of
    <3>1. CASE i = Len(s) + 1
      <4>1. d + i = Len(r) + 1
        BY <1>6, <1>9, <2>6, <3>1
      <4> QED
        BY <1>6, <1>7, <2>7, <3>1, <4>1
    <3>2. CASE i # Len(s) + 1
      <4>1. i \in 1 .. Len(r) - d
        BY <1>6, <1>7, <1>9, <2>6, <3>2
      <4>2. s[i] = r[d + i].of
        BY <2>1, <2>5, <4>1
      <4> QED
        BY <1>7, <2>2, <2>6, <2>7, <4>1, <4>2
    <3> QED
      BY <3>1, <3>2
  <2>10. DOMAIN queue = 1 .. Len(queue) /\ queue = [i \in DOMAIN queue |-> queue[i]]
    BY <2>7
  <2> QED
    BY <2>7, <2>8, <2>9, <2>10
<1>15. \A f \in Subjects : f \in truncatedFacts <=> byFact[f] # <<>> /\ Lost(r, f, d)
  BY <1>2, <1>3 DEF FactsTold
<1>16. truncatedFacts \in SUBSET Subjects
  BY DEF FactsTold
<1>17. CASE Len(queue) <= MaxEntries
  <2>1. byFact' = kept /\ arrivals' = queue /\ truncatedFacts' = truncatedFacts
    BY <1>10, <1>11, <1>17 DEF Note
  <2>2. d = 0 /\ e = 0
    BY <1>3, <1>5, <1>6, <1>7, <1>9, <1>14, <1>17 DEF DroppedOf
  <2>3. \A s, f : ~ Lost(s, f, 0)
    BY DEF Lost, OfIn
  <2>4. truncatedFacts' = {}
    BY <1>15, <1>16, <2>1, <2>2, <2>3
  <2>5. arrivals' = Newest(recorded')
    BY <1>5, <1>8, <1>14, <2>1, <2>2 DEF Newest
  <2>6. byFact' = [f \in Subjects |-> KeptOf(recorded', f, DroppedOf(Len(recorded')))]
    BY <1>5, <1>8, <1>13, <2>1, <2>2
  <2>7. \A f \in Subjects : ~ Lost(recorded', f, DroppedOf(Len(recorded')))
    BY <1>5, <1>8, <2>2, <2>3
  <2> QED
    BY <1>7, <1>8, <2>4, <2>5, <2>6, <2>7 DEF FactsTold
<1>18. CASE ~ (Len(queue) <= MaxEntries)
  <2>1. Len(r) = d + MaxEntries /\ e = d + 1 /\ Len(r) - d >= 1
    BY <1>3, <1>5, <1>6, <1>7, <1>9, <1>14, <1>18 DEF DroppedOf
  <2>2. PICK g : g = Head(queue)
    OBVIOUS
  <2>3. g = q[d + 1].of /\ d + 1 \in 1 .. Len(r) /\ g \in Subjects
    <3>1. 1 \in 1 .. Len(q) - d
      BY <1>6, <1>7, <2>1, <1>9
    <3>2. Head(queue) = queue[1]
      OBVIOUS
    <3>3. g = q[d + 1].of
      BY <1>14, <2>2, <3>1, <3>2
    <3>4. d + 1 \in 1 .. Len(r) /\ d + 1 \in 1 .. Len(q)
      BY <1>6, <1>7, <1>9, <2>1
    <3>5. q[d + 1] \in Mutations
      BY <1>7, <3>4
    <3> QED
      BY <3>3, <3>4, <3>5 DEF Mutations
  <2>4. /\ byFact' = [kept EXCEPT ![g] = Tail(@)]
        /\ truncatedFacts' = IF Len(kept[g]) = 1 THEN truncatedFacts \ {g}
                             ELSE truncatedFacts \cup {g}
        /\ arrivals' = Tail(queue)
    <3>1. /\ byFact' = Evicted(kept, truncatedFacts, g).byFact
          /\ truncatedFacts' = Evicted(kept, truncatedFacts, g).truncatedFacts
          /\ arrivals' = Tail(queue)
      BY <1>10, <1>11, <1>18, <2>2 DEF Note
    <3> QED
      BY <3>1 DEF Evicted
  <2>5. byFact' = [f \in Subjects |-> KeptOf(q, f, e)]
    <3>1. \A f \in Subjects : KeptOf(q, f, d + 1) =
            IF g = f THEN Tail(KeptOf(q, f, d)) ELSE KeptOf(q, f, d)
      BY <1>6, <1>7, <1>9, <2>1, <2>3, KeptDrop
    <3> QED
      BY <1>13, <2>1, <2>4, <3>1
  <2>6. arrivals' = Newest(q)
    <3>1. /\ Len(queue) \in Nat /\ Len(queue) - 1 = Len(q) - e
          /\ DOMAIN queue = 1 .. Len(queue)
      BY <1>6, <1>7, <1>9, <1>14, <2>1
    <3>2. \A i \in 1 .. Len(q) - e : i + 1 \in 1 .. Len(q) - d /\ d + (i + 1) = e + i
      BY <1>6, <1>7, <1>9, <2>1
    <3>3. queue # <<>>
      <4>1. Len(<<>>) = 0
        OBVIOUS
      <4>2. Len(queue) # 0
        BY <1>6, <1>7, <1>9, <1>14, <2>1
      <4> QED
        BY <4>1, <4>2
    <3>4. /\ Tail(queue) \in Seq(Subjects) /\ Len(Tail(queue)) = Len(queue) - 1
          /\ \A i \in 1 .. Len(Tail(queue)) : Tail(queue)[i] = queue[i + 1]
      BY <1>14, <3>3, HeadTailProperties
    <3>5. PICK t : t = Tail(queue)
      OBVIOUS
    <3>6. t = [i \in 1 .. Len(t) |-> t[i]] /\ Len(t) = Len(q) - e
      <4>1. t \in Seq(Subjects) /\ Len(t) = Len(queue) - 1
        BY <3>4, <3>5
      <4> QED
        BY <3>1, <4>1
    <3>7. \A i \in 1 .. Len(q) - e : t[i] = q[e + i].of
      BY <1>14, <3>2, <3>4, <3>5, <3>6
    <3> QED
      BY <1>5, <2>4, <3>5, <3>6, <3>7 DEF Newest
  <2>7. e \in 0 .. Len(q) /\ d \in 0 .. Len(q) /\ e \in Nat
    BY <1>6, <1>7, <1>9, <2>1
  <2>8. ASSUME NEW f \in Subjects
        PROVE  f \in truncatedFacts' <=> byFact'[f] # <<>> /\ Lost(q, f, e)
    <3>1. byFact'[f] = KeptOf(q, f, e) /\ byFact[f] = KeptOf(r, f, d) /\ kept[f] = KeptOf(q, f, d)
      BY <1>12, <1>13, <2>5
    <3>2. CASE f = g
      <4>1. KeptOf(q, f, e) = Tail(kept[f])
        BY <2>4, <3>1, <3>2, <1>13
      <4>2. kept[f] \in Seq(Nat) /\ kept[f] # <<>>
        <5>1. /\ KeptOf(q, f, d) \in Seq(Nat)
              /\ KeptOf(q, f, d) = <<>> <=> \A i \in d + 1 .. Len(q) : q[i].of # f
          BY <1>7, <2>7, KeptNothing
        <5>2. d + 1 \in d + 1 .. Len(q)
          BY <1>6, <1>7, <1>9, <2>1
        <5> QED
          BY <2>3, <3>1, <3>2, <5>1, <5>2
      <4>3. Len(kept[f]) = 1 <=> byFact'[f] = <<>>
        <5>1. ASSUME NEW s \in Seq(Nat), s # <<>>
              PROVE  Len(s) = 1 <=> Tail(s) = <<>>
          <6>1. Tail(s) \in Seq(Nat) /\ Len(Tail(s)) = Len(s) - 1 /\ Len(s) \in Nat
            BY <5>1, HeadTailProperties
          <6>2. PICK t : t = Tail(s)
            OBVIOUS
          <6>3. t \in Seq(Nat) /\ Len(t) = Len(s) - 1
            BY <6>1, <6>2
          <6>4. (t # <<>>) => Len(t) \in Nat \ {0}
            BY <6>3, EmptySeq
          <6>5. t = <<>> => Len(t) = 0
            OBVIOUS
          <6>6. t = <<>> <=> Len(t) = 0
            BY <6>4, <6>5
          <6>7. Len(t) = 0 <=> Len(s) = 1
            BY <6>1, <6>3
          <6> QED
            BY <6>2, <6>6, <6>7
        <5>2. Len(kept[f]) = 1 <=> Tail(kept[f]) = <<>>
          BY <4>2, <5>1
        <5> QED
          BY <3>1, <4>1, <5>2
      <4>4. Lost(q, f, e)
        <5>1. e \in OfIn(q, f, 1, e)
          <6>1. e \in DOMAIN q /\ e \in 1 .. e
            BY <1>6, <1>7, <1>9, <2>1
          <6> QED
            BY <2>1, <2>3, <3>2, <6>1 DEF OfIn
        <5>2. ASSUME NEW j \in OfIn(q, f, e, Len(q)), OfIn(q, f, j + 1, Len(q)) # {}
              PROVE  OfIn(q, f, j + 1, j + MaxEntries) # {}
          <6>1. j \in Nat /\ j >= e
            BY <2>7 DEF OfIn
          <6>2. PICK k : k \in OfIn(q, f, j + 1, Len(q))
            BY <5>2
          <6>3. k \in DOMAIN q /\ q[k].of = f /\ k \in j + 1 .. Len(q) /\ Len(q) <= j + MaxEntries
            BY <1>6, <1>7, <1>9, <2>1, <6>1, <6>2 DEF OfIn
          <6>4. k \in j + 1 .. j + MaxEntries
            BY <1>6, <1>7, <6>1, <6>3
          <6>5. k \in OfIn(q, f, j + 1, j + MaxEntries)
            BY <6>3, <6>4 DEF OfIn
          <6> QED
            BY <6>5
        <5>3. WholeFrom(q, f, e)
          BY <5>2 DEF WholeFrom
        <5> QED
          BY <5>1, <5>3 DEF Lost
      <4> QED
        BY <2>4, <3>2, <4>3, <4>4
    <3>3. CASE f # g
      <4>1. OfIn(q, f, 1, e) = OfIn(r, f, 1, d)
        <5>1. 1 \in Nat /\ Len(q) = Len(r) + 1 /\ e = d + 1 /\ d + 1 <= Len(r)
          BY <1>6, <1>7, <1>9, <2>1
        <5>2. DOMAIN q = 1 .. Len(r) + 1 /\ DOMAIN r = 1 .. Len(r)
          BY <1>6, <1>7
        <5>3. q[d + 1].of # f
          BY <2>3, <3>3
        <5>4. \A i \in 1 .. d : i \in 1 .. Len(r) /\ i \in 1 .. Len(r) + 1 /\ i \in 1 .. d + 1
          BY <1>6, <1>9
        <5>5. \A i \in 1 .. d + 1 : i # d + 1 => i \in 1 .. d
          BY <1>9
        <5> QED
          BY <1>7, <5>1, <5>2, <5>3, <5>4, <5>5 DEF OfIn
      <4>2. byFact'[f] = kept[f]
        BY <1>13, <2>4, <3>3
      <4>3. f \in truncatedFacts' <=> f \in truncatedFacts
        BY <2>4, <3>3
      <4>4. CASE h # f
        <5>1. byFact'[f] = byFact[f]
          BY <1>10, <1>12, <4>2, <4>4
        <5>2. \A i \in OfIn(r, f, 1, d) : i \in Nat
          BY <1>9 DEF OfIn
        <5>3. \A i \in OfIn(r, f, 1, d) : WholeFrom(q, f, i) <=> WholeFrom(r, f, i)
          BY <1>4, <1>6, <4>4, <5>2, WholeOfOther
        <5> QED
          BY <1>15, <4>1, <4>3, <5>1, <5>3 DEF Lost
      <4>5. CASE h = f
        <5>1. byFact'[f] # <<>>
          <6>1. KeptOf(q, f, e) = <<>> <=> \A i \in e + 1 .. Len(q) : q[i].of # f
            BY <1>7, <2>7, KeptNothing
          <6>2. Len(q) \in e + 1 .. Len(q) /\ q[Len(q)].of = f
            <7>1. e + 1 <= Len(q) \/ d + 1 = Len(q)
              BY <1>6, <1>7, <1>9, <2>1
            <7>2. d + 1 # Len(q)
              BY <1>6, <1>7, <2>3, <3>3, <4>5
            <7> QED
              BY <1>6, <1>7, <4>5, <7>1, <7>2, <2>7
          <6> QED
            BY <3>1, <6>1, <6>2
        <5>2. byFact[f] # <<>> <=> OfIn(r, f, d + 1, Len(r)) # {}
          <6>1. KeptOf(r, f, d) = <<>> <=> \A i \in d + 1 .. Len(r) : r[i].of # f
            BY <1>6, <1>9, KeptNothing
          <6>2. DOMAIN r = 1 .. Len(r) /\ \A i \in d + 1 .. Len(r) : i \in 1 .. Len(r)
            BY <1>6, <1>9
          <6> QED
            BY <3>1, <6>1, <6>2 DEF OfIn
        <5>3. \A i \in OfIn(r, f, 1, d) :
                WholeFrom(q, f, i) <=> WholeFrom(r, f, i) /\ OfIn(r, f, d + 1, Len(r)) # {}
          BY <1>4, <1>6, <1>9, <2>1, <4>5, WholeOfOwn
        <5>4. Lost(q, f, e) <=> Lost(r, f, d) /\ OfIn(r, f, d + 1, Len(r)) # {}
          BY <4>1, <5>3 DEF Lost
        <5> QED
          BY <1>15, <4>3, <5>1, <5>2, <5>4
      <4> QED
        BY <4>4, <4>5
    <3> QED
      BY <3>2, <3>3
  <2>9. truncatedFacts' \in SUBSET Subjects
    BY <1>16, <2>3, <2>4
  <2> QED
    BY <1>5, <1>7, <1>8, <2>5, <2>6, <2>8, <2>9 DEF FactsTold
<1> QED
  BY <1>17, <1>18

\* And a step of Capture: the activation whose bindings go is the one at the head.
LEMMA CaptureTells ==
  ASSUME BindingsTold, clock' \in Nat \ {0}, NEW a \in Authors, Capture(a),
         completed' = [completed EXCEPT ![a] = clock']
  PROVE  BindingsTold'
<1>1. PICK s : s = bindingArrivals
  OBVIOUS
<1>2. PICK queue : queue = Queued(a)
  OBVIOUS
<1>3. PICK now : now = [captured EXCEPT ![a] = clock']
  OBVIOUS
<1>4. /\ s \in Seq(Authors) /\ Len(s) \in Nat
      /\ \A c \in Authors : captured[c] # 0 <=> \E i \in 1 .. Len(s) : s[i] = c
      /\ \A i, j \in 1 .. Len(s) : s[i] = s[j] => i = j
      /\ captured \in [Authors -> Nat] /\ completed \in [Authors -> Nat]
  BY <1>1 DEF BindingsTold
<1>5. /\ now \in [Authors -> Nat] /\ completed' \in [Authors -> Nat]
      /\ \A c \in Authors : now[c] \in {0, completed'[c]}
  <2>1. \A c \in Authors : captured[c] \in {0, completed[c]}
    BY DEF BindingsTold
  <2> QED
    BY <1>3, <1>4, <2>1
<1>6. /\ queue \in Seq(Authors) /\ Len(queue) \in Nat
      /\ \A c \in Authors : now[c] # 0 <=> \E i \in 1 .. Len(queue) : queue[i] = c
      /\ \A i, j \in 1 .. Len(queue) : queue[i] = queue[j] => i = j
  <2>1. now[a] # 0 /\ \A c \in Authors \ {a} : now[c] = captured[c]
    BY <1>3, <1>4
  <2>2. CASE captured[a] = 0
    <3>1. queue = Append(s, a)
      BY <1>1, <1>2, <2>2 DEF Queued
    <3>2. /\ queue \in Seq(Authors) /\ Len(queue) = Len(s) + 1 /\ queue[Len(s) + 1] = a
          /\ \A i \in 1 .. Len(s) : queue[i] = s[i]
      BY <1>4, <3>1, AppendProperties
    <3>3. \A i \in 1 .. Len(s) : s[i] # a
      BY <1>4, <2>2
    <3>4. \A i \in 1 .. Len(queue) : i = Len(s) + 1 \/ i \in 1 .. Len(s)
      BY <1>4, <3>2
    <3>5. Len(s) + 1 \in 1 .. Len(queue) /\ \A i \in 1 .. Len(s) : i \in 1 .. Len(queue)
      BY <1>4, <3>2
    <3>6. ASSUME NEW i \in 1 .. Len(queue), NEW j \in 1 .. Len(queue), queue[i] = queue[j]
          PROVE  i = j
      <4>1. CASE i = Len(s) + 1 /\ j # Len(s) + 1
        <5>1. j \in 1 .. Len(s) /\ queue[j] = s[j] /\ queue[i] = a
          BY <3>2, <3>4, <4>1
        <5> QED
          BY <3>3, <3>6, <5>1
      <4>2. CASE i # Len(s) + 1 /\ j = Len(s) + 1
        <5>1. i \in 1 .. Len(s) /\ queue[i] = s[i] /\ queue[j] = a
          BY <3>2, <3>4, <4>2
        <5> QED
          BY <3>3, <3>6, <5>1
      <4>3. CASE i # Len(s) + 1 /\ j # Len(s) + 1
        <5>1. /\ i \in 1 .. Len(s) /\ queue[i] = s[i]
              /\ j \in 1 .. Len(s) /\ queue[j] = s[j]
          BY <3>2, <3>4, <4>3
        <5> QED
          BY <1>4, <3>6, <5>1
      <4> QED
        BY <4>1, <4>2, <4>3
    <3>7. ASSUME NEW c \in Authors
          PROVE  now[c] # 0 <=> \E i \in 1 .. Len(queue) : queue[i] = c
      <4>1. CASE c = a
        BY <2>1, <3>2, <3>5, <4>1
      <4>2. CASE c # a
        <5>1. now[c] # 0 <=> \E i \in 1 .. Len(s) : s[i] = c
          BY <1>4, <2>1, <4>2
        <5>2. ASSUME NEW i \in 1 .. Len(queue), queue[i] = c
              PROVE  \E k \in 1 .. Len(s) : s[k] = c
          <6>1. i \in 1 .. Len(s) /\ queue[i] = s[i]
            BY <3>2, <3>4, <4>2, <5>2
          <6> QED
            BY <5>2, <6>1
        <5>3. ASSUME NEW i \in 1 .. Len(s), s[i] = c
              PROVE  \E k \in 1 .. Len(queue) : queue[k] = c
          BY <3>2, <3>5, <5>3
        <5> QED
          BY <5>1, <5>2, <5>3
      <4> QED
        BY <4>1, <4>2
    <3> QED
      BY <1>4, <3>2, <3>6, <3>7
  <2>3. CASE captured[a] # 0
    <3>1. queue = s
      BY <1>1, <1>2, <2>3 DEF Queued
    <3> QED
      BY <1>4, <2>1, <2>3, <3>1
  <2> QED
    BY <2>2, <2>3
<1>7. CASE Len(queue) <= MaxEntries
  <2>1. captured' = now /\ bindingArrivals' = queue
    BY <1>2, <1>3, <1>7 DEF Capture
  <2> QED
    BY <1>5, <1>6, <2>1 DEF BindingsTold
<1>8. CASE ~ (Len(queue) <= MaxEntries)
  <2>1. PICK g : g = Head(queue)
    OBVIOUS
  <2>2. PICK t : t = Tail(queue)
    OBVIOUS
  <2>3. captured' = [now EXCEPT ![g] = 0] /\ bindingArrivals' = t
    BY <1>2, <1>3, <1>8, <2>1, <2>2 DEF Capture
  <2>4. queue # <<>> /\ Len(queue) >= 1
    <3>1. <<>> \in Seq(Authors) /\ Len(<<>>) = 0
      OBVIOUS
    <3> QED
      BY <1>6, <1>8, <3>1, LogAssumption
  <2>5. /\ g \in Authors /\ g = queue[1]
        /\ t \in Seq(Authors) /\ Len(t) = Len(queue) - 1
        /\ \A i \in 1 .. Len(t) : t[i] = queue[i + 1]
    BY <1>6, <2>1, <2>2, <2>4, HeadTailProperties
  <2>6. /\ 1 \in 1 .. Len(queue)
        /\ \A i \in 1 .. Len(t) : i + 1 \in 1 .. Len(queue) /\ i + 1 # 1
        /\ \A i \in 1 .. Len(queue) : i # 1 => i - 1 \in 1 .. Len(t) /\ (i - 1) + 1 = i
    BY <1>6, <2>4, <2>5
  <2>7. \A i, j \in 1 .. Len(t) : t[i] = t[j] => i = j
    <3>1. \A i, j \in 1 .. Len(t) : i + 1 = j + 1 => i = j
      OBVIOUS
    <3> QED
      BY <1>6, <2>5, <2>6, <3>1
  <2>8. ASSUME NEW c \in Authors
        PROVE  captured'[c] # 0 <=> \E i \in 1 .. Len(t) : t[i] = c
    <3>1. CASE c = g
      <4>1. captured'[c] = 0
        BY <1>5, <2>3, <2>5, <3>1
      <4>2. \A i \in 1 .. Len(t) : t[i] # c
        BY <1>6, <2>5, <2>6, <3>1
      <4> QED
        BY <4>1, <4>2
    <3>2. CASE c # g
      <4>1. captured'[c] = now[c]
        BY <1>5, <2>3, <3>2
      <4>2. ASSUME NEW i \in 1 .. Len(queue), queue[i] = c
            PROVE  \E k \in 1 .. Len(t) : t[k] = c
        <5>1. i # 1
          BY <2>5, <3>2, <4>2
        <5> QED
          BY <2>5, <2>6, <4>2, <5>1
      <4>3. ASSUME NEW i \in 1 .. Len(t), t[i] = c
            PROVE  \E k \in 1 .. Len(queue) : queue[k] = c
        BY <2>5, <2>6, <4>3
      <4> QED
        BY <1>6, <4>1, <4>2, <4>3
    <3> QED
      BY <3>1, <3>2
  <2>9. captured' \in [Authors -> Nat] /\ \A c \in Authors : captured'[c] \in {0, completed'[c]}
    BY <1>5, <2>3
  <2> QED
    BY <1>5, <2>3, <2>5, <2>7, <2>8, <2>9 DEF BindingsTold
<1> QED
  BY <1>7, <1>8

\* A log with nothing in it tells the truth.
LEMMA BlankFacts ==
  ASSUME NEW r, r = <<>>
  PROVE  /\ r \in Seq(Mutations) /\ DroppedOf(Len(r)) = 0 /\ Newest(r) = <<>>
         /\ \A f : KeptOf(r, f, DroppedOf(Len(r))) = <<>>
<1>1. r \in Seq(Mutations) /\ Len(r) = 0 /\ 0 \in 0 .. Len(r)
  OBVIOUS
<1>2. DroppedOf(Len(r)) = 0
  BY <1>1, LogAssumption DEF DroppedOf
<1>3. \A f : KeptOf(r, f, 0) = <<>>
  <2> SUFFICES ASSUME NEW f PROVE KeptOf(r, f, 0) = <<>>
    OBVIOUS
  <2>1. PICK d : d = 0
    OBVIOUS
  <2>2. d \in 0 .. Len(r) /\ \A i \in d + 1 .. Len(r) : r[i].of # f
    BY <1>1, <2>1
  <2>3. KeptOf(r, f, d) = <<>> <=> \A i \in d + 1 .. Len(r) : r[i].of # f
    BY <1>1, <2>2, KeptNothing
  <2> QED
    BY <2>1, <2>2, <2>3
<1>4. Newest(r) = <<>>
  <2>1. Newest(r) = [i \in 1 .. 0 |-> r[0 + i].of]
    BY <1>1, <1>2 DEF Newest
  <2>2. PICK n : n = Newest(r)
    OBVIOUS
  <2>3. n \in [1 .. 0 -> Subjects]
    BY <2>1, <2>2
  <2>4. n \in Seq(Subjects) /\ Len(n) = 0
    BY <2>3
  <2>5. (n # <<>>) => Len(n) \in Nat \ {0}
    BY <2>4, EmptySeq
  <2> QED
    BY <2>2, <2>4, <2>5
<1> QED
  BY <1>1, <1>2, <1>3, <1>4

LEMMA LogInit ==
  ASSUME InitLog
  PROVE  LogInv
<1>1. PICK r : r = recorded
  OBVIOUS
<1>2. /\ r = <<>> /\ byFact = [f \in Subjects |-> <<>>] /\ arrivals = <<>>
      /\ truncatedFacts = {} /\ clock = 0
      /\ captured = [a \in Authors |-> 0] /\ completed = [a \in Authors |-> 0]
      /\ bindingArrivals = <<>>
  BY <1>1 DEF InitLog, Blanked
<1>3. FactsTold
  <2>1. /\ r \in Seq(Mutations) /\ DroppedOf(Len(r)) = 0 /\ Newest(r) = <<>>
        /\ \A f : KeptOf(r, f, DroppedOf(Len(r))) = <<>>
    BY <1>2, BlankFacts
  <2> QED
    BY <1>1, <1>2, <2>1 DEF FactsTold
<1>4. BindingsTold
  BY <1>2 DEF BindingsTold
<1> QED
  BY <1>2, <1>3, <1>4 DEF LogInv

LEMMA LogClear ==
  ASSUME ClearLog
  PROVE  LogInv'
<1>1. PICK r : r = recorded'
  OBVIOUS
<1>2. /\ r = <<>> /\ byFact' = [f \in Subjects |-> <<>>] /\ arrivals' = <<>>
      /\ truncatedFacts' = {} /\ clock' = 0
      /\ captured' = [a \in Authors |-> 0] /\ completed' = [a \in Authors |-> 0]
      /\ bindingArrivals' = <<>>
  BY <1>1 DEF ClearLog, Blanked
<1>3. FactsTold'
  <2>1. /\ r \in Seq(Mutations) /\ DroppedOf(Len(r)) = 0 /\ Newest(r) = <<>>
        /\ \A f : KeptOf(r, f, DroppedOf(Len(r))) = <<>>
    BY <1>2, BlankFacts
  <2> QED
    BY <1>1, <1>2, <2>1 DEF FactsTold
<1>4. BindingsTold'
  BY <1>2 DEF BindingsTold
<1> QED
  BY <1>2, <1>3, <1>4 DEF LogInv

LEMMA LogStep ==
  ASSUME LogInv, [NextLog]_logVars
  PROVE  LogInv'
<1>1. CASE Change
  <2>1. PICK f \in Subjects : Note(f)
    BY <1>1 DEF Change
  <2>2. clock' \in Nat
    BY <1>1 DEF Change, Tick, LogInv
  <2>3. FactsTold'
    BY <2>1, <2>2, NoteTells DEF LogInv
  <2>4. UNCHANGED <<captured, bindingArrivals, completed>>
    BY <1>1 DEF Change
  <2>5. BindingsTold'
    BY <2>4 DEF LogInv, BindingsTold
  <2> QED
    BY <2>2, <2>3, <2>5 DEF LogInv
<1>2. CASE Firing
  <2>1. PICK a \in Authors : Capture(a) /\ completed' = [completed EXCEPT ![a] = clock']
    BY <1>2 DEF Firing
  <2>2. clock' \in Nat \ {0}
    BY <1>2 DEF Firing, Tick, LogInv
  <2>3. BindingsTold'
    BY <2>1, <2>2, CaptureTells DEF LogInv
  <2>4. UNCHANGED <<byFact, arrivals, truncatedFacts, recorded>>
    BY <1>2 DEF Firing
  <2>5. FactsTold'
    BY <2>4 DEF LogInv, FactsTold
  <2> QED
    BY <2>2, <2>3, <2>5 DEF LogInv
<1>3. CASE ClearLog
  BY <1>3, LogClear
<1>4. CASE UNCHANGED logVars
  BY <1>4 DEF logVars, LogInv, FactsTold, BindingsTold
<1> QED
  BY <1>1, <1>2, <1>3, <1>4 DEF NextLog

LEMMA LogAlways == SpecLog => []LogInv
  BY LogInit, LogStep, PTL DEF SpecLog

LEMMA LogInvTells ==
  ASSUME LogInv
  PROVE  LogTells
<1>1. Dropped = DroppedOf(Len(recorded))
  BY DEF Dropped, DroppedOf
<1>2. ASSUME NEW f \in Subjects
      PROVE  byFact[f] = HistoryOf(f)
  <2>1. byFact[f] = KeptOf(recorded, f, DroppedOf(Len(recorded)))
    BY DEF LogInv, FactsTold
  <2>2. HistoryOf(f) = KeptOf(recorded, f, Dropped)
    BY DEF HistoryOf, KeptOf
  <2> QED
    BY <1>1, <2>1, <2>2
<1>3. ASSUME NEW f \in Subjects
      PROVE  f \in truncatedFacts <=> byFact[f] # <<>> /\ \E i \in Of(f, 1, Dropped) : Unbroken(f, i)
  <2>1. f \in truncatedFacts
          <=> byFact[f] # <<>> /\ Lost(recorded, f, DroppedOf(Len(recorded)))
    BY DEF LogInv, FactsTold
  <2>2. Lost(recorded, f, Dropped) <=> \E i \in Of(f, 1, Dropped) : Unbroken(f, i)
    BY Zenon DEF Lost, WholeFrom, OfIn, Of, Unbroken
  <2> QED
    BY <1>1, <2>1, <2>2
<1>4. ASSUME NEW a \in Authors
      PROVE  Cardinality({i \in DOMAIN bindingArrivals : bindingArrivals[i] = a})
               = (IF captured[a] = 0 THEN 0 ELSE 1)
  <2>1. PICK s : s = bindingArrivals
    OBVIOUS
  <2>2. /\ DOMAIN s = 1 .. Len(s)
        /\ captured[a] # 0 <=> \E i \in 1 .. Len(s) : s[i] = a
        /\ \A i, j \in 1 .. Len(s) : s[i] = s[j] => i = j
    BY <2>1 DEF LogInv, BindingsTold
  <2>3. CASE captured[a] = 0
    <3>1. {i \in DOMAIN s : s[i] = a} = {}
      BY <2>2, <2>3
    <3> QED
      BY <2>1, <2>3, <3>1, FS_EmptySet
  <2>4. CASE captured[a] # 0
    <3>1. PICK i \in 1 .. Len(s) : s[i] = a
      BY <2>2, <2>4
    <3>2. {k \in DOMAIN s : s[k] = a} = {i}
      BY <2>2, <3>1
    <3> QED
      BY <2>1, <2>4, <3>2, FS_Singleton
  <2> QED
    BY <2>3, <2>4
<1>5. \A a \in Authors : captured[a] \in {0, completed[a]}
  BY DEF LogInv, BindingsTold
<1> QED
  BY <1>2, <1>3, <1>4, <1>5 DEF LogTells

\* For any facts, activations and bounds, what the log has of a fact are its
\* mutations among the newest, in their order, with a mark exactly if an earlier one
\* is lost since the fact last had no entry; the bindings kept are those of the last
\* firing of each activation, and each is in the queue once.
\* (explainLog.record, evictOldestLocked, captureBindings)
THEOREM LogAlwaysTells == SpecLog => []LogTells
<1>1. LogInv => LogTells
  BY LogInvTells
<1> QED
  BY <1>1, LogAlways, PTL
=============================================================================
