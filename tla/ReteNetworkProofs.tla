------------------------- MODULE ReteNetworkProofs ---------------------------
(***************************************************************************)
(* What ReteNetworkProps says of the memories, proved for any network,     *)
(* facts and predicates: the calls an event makes come to an end with      *)
(* nothing put off, rows and counts are exact at every step, and so are    *)
(* the accumulators.                                                       *)
(***************************************************************************)
EXTENDS ReteNetworkProps, NumberLemmas, SequenceTheorems

----------------------------------------------------------------------------
\* Sequences, whatever their elements.

IsSeq(s) == s \in Seq(Range(s))

LEMMA SeqIsSeq ==
  ASSUME NEW X, NEW s \in Seq(X)
  PROVE  IsSeq(s) /\ \A i \in 1 .. Len(s) : s[i] \in X
BY SeqOfRange DEF IsSeq

LEMMA IsSeqFacts ==
  ASSUME NEW s, IsSeq(s)
  PROVE  /\ Len(s) \in Nat /\ DOMAIN s = 1 .. Len(s)
         /\ s = <<>> <=> Len(s) = 0
<1>1. PICK X : X = Range(s)
  OBVIOUS
<1>2. s \in Seq(X)
  BY <1>1 DEF IsSeq
<1>3. Len(s) \in Nat /\ DOMAIN s = 1 .. Len(s)
  BY <1>2
<1>4. (s # <<>>) => Len(s) \in Nat \ {0}
  BY <1>2, EmptySeq
<1>5. s = <<>> => Len(s) = 0
  OBVIOUS
<1> QED
  BY <1>3, <1>4, <1>5

LEMMA IsSeqConcat ==
  ASSUME NEW s, NEW t, IsSeq(s), IsSeq(t)
  PROVE  /\ IsSeq(s \o t) /\ Len(s \o t) = Len(s) + Len(t)
         /\ \A i \in 1 .. Len(s) : (s \o t)[i] = s[i]
         /\ \A i \in 1 .. Len(t) : (s \o t)[Len(s) + i] = t[i]
<1>1. PICK X : X = Range(s) \cup Range(t)
  OBVIOUS
<1>2. s \in Seq(X) /\ t \in Seq(X)
  BY <1>1, SeqMonotonic DEF IsSeq
<1>3. /\ s \o t \in Seq(X) /\ Len(s \o t) = Len(s) + Len(t)
      /\ Len(s) \in Nat /\ Len(t) \in Nat
      /\ \A i \in 1 .. Len(s) + Len(t) :
           (s \o t)[i] = IF i <= Len(s) THEN s[i] ELSE t[i - Len(s)]
  BY <1>2, ConcatProperties
<1>4. IsSeq(s \o t)
  BY <1>3, SeqIsSeq
<1>5. ASSUME NEW i \in 1 .. Len(s)
      PROVE  (s \o t)[i] = s[i]
  BY <1>3
<1>6. ASSUME NEW i \in 1 .. Len(t)
      PROVE  (s \o t)[Len(s) + i] = t[i]
  <2>1. /\ Len(s) + i \in 1 .. Len(s) + Len(t)
        /\ ~ (Len(s) + i <= Len(s)) /\ (Len(s) + i) - Len(s) = i
    BY <1>3
  <2> QED
    BY <1>3, <2>1
<1> QED
  BY <1>3, <1>4, <1>5, <1>6

LEMMA IsSeqTail ==
  ASSUME NEW s, IsSeq(s), s # <<>>
  PROVE  /\ IsSeq(Tail(s)) /\ Len(Tail(s)) = Len(s) - 1 /\ Head(s) = s[1]
         /\ \A i \in 1 .. Len(s) - 1 : Tail(s)[i] = s[i + 1]
<1>1. PICK X : X = Range(s)
  OBVIOUS
<1>2. s \in Seq(X)
  BY <1>1 DEF IsSeq
<1>3. /\ Tail(s) \in Seq(X) /\ Len(Tail(s)) = Len(s) - 1
      /\ \A i \in 1 .. Len(Tail(s)) : Tail(s)[i] = s[i + 1]
  BY <1>2, HeadTailProperties
<1>4. IsSeq(Tail(s))
  BY <1>3, SeqIsSeq
<1>5. Head(s) = s[1]
  BY <1>2
<1> QED
  BY <1>3, <1>4, <1>5

LEMMA Singles ==
  ASSUME NEW x
  PROVE  IsSeq(<<>>) /\ Len(<<>>) = 0 /\ IsSeq(<<x>>) /\ Len(<<x>>) = 1 /\ <<x>>[1] = x
<1>1. <<x>> \in Seq({x}) /\ <<>> \in Seq({x})
  OBVIOUS
<1> QED
  BY <1>1, SeqIsSeq

LEMMA IsSeqMade ==
  ASSUME NEW n \in Nat, NEW f, DOMAIN f = 1 .. n, f = [i \in 1 .. n |-> f[i]]
  PROVE  IsSeq(f) /\ Len(f) = n
<1>1. PICK X : X = {f[i] : i \in 1 .. n}
  OBVIOUS
<1>2. f \in [1 .. n -> X]
  BY <1>1
<1>3. f \in Seq(X) /\ Len(f) = n
  BY <1>2
<1> QED
  BY <1>3, SeqIsSeq

\* FlattenSeq of sequences over X is one.
LEMMA Flattened ==
  ASSUME NEW X, NEW ss \in Seq(Seq(X))
  PROVE  FlattenSeq(ss) \in Seq(X)
<1> DEFINE N == Len(ss)
           Y == Seq(X)
           Is(g) == g = [i \in 1 .. N |-> IF i = 1 THEN ss[i] ELSE g[i - 1] \o ss[i]]
           flat == CHOOSE g : Is(g)
<1>1. N \in Nat /\ \A i \in 1 .. N : ss[i] \in Y
  OBVIOUS
<1>2. \A a, b \in Y : a \o b \in Y
  BY ConcatProperties
<1>3. CASE N = 0
  <2>1. ss = <<>>
    <3>1. (ss # <<>>) => Len(ss) \in Nat \ {0}
      BY EmptySeq
    <3> QED
      BY <1>3, <3>1
  <2>2. FlattenSeq(ss) = ss
    BY <1>3 DEF FlattenSeq
  <2>3. <<>> \in Seq(X)
    OBVIOUS
  <2> HIDE DEF Y, N, Is, flat
  <2> QED
    BY <2>1, <2>2, <2>3, Zenon
<1>4. CASE N # 0
  <2>1. FlattenSeq(ss) = flat[N]
    BY <1>4 DEF FlattenSeq
  <2> DEFINE G == [x \in Y \X (1 .. N) |-> IF x[2] = 1 THEN ss[1] ELSE x[1] \o ss[x[2]]]
  <2>2. G \in [Y \X (1 .. N) -> Y]
    <3>1. \A x \in Y \X (1 .. N) : x[1] \in Y /\ x[2] \in 1 .. N
      OBVIOUS
    <3>2. 1 \in 1 .. N
      BY <1>1, <1>4
    <3> HIDE DEF Y, N
    <3> QED
      BY <1>1, <1>2, <3>1, <3>2
  <2>3. PICK f : Builds(f, N, Y, <<>>, G)
    <3>1. <<>> \in Y
      OBVIOUS
    <3> HIDE DEF G, N, Y
    <3> QED
      BY <1>1, <2>2, <3>1, Recursion
  <2>4. f \in [0 .. N -> Y] /\ \A n \in 1 .. N : f[n] = G[<<f[n - 1], n>>]
    <3> HIDE DEF G, N, Y
    <3> QED
      BY <2>3 DEF Builds
  <2>5. ASSUME NEW n \in 1 .. N
        PROVE  f[n] = IF n = 1 THEN ss[n] ELSE f[n - 1] \o ss[n]
    <3>1. n - 1 \in 0 .. N
      BY <1>1
    <3>2. f[n - 1] \in Y
      <4> HIDE DEF G, N, Y
      <4> QED
        BY <2>4, <3>1
    <3> HIDE DEF Y, N
    <3>3. <<f[n - 1], n>> \in Y \X (1 .. N)
      BY <3>2
    <3>4. G[<<f[n - 1], n>>] = IF n = 1 THEN ss[1] ELSE f[n - 1] \o ss[n]
      BY <3>3
    <3> HIDE DEF G
    <3> QED
      BY <2>4, <3>4
  <2> DEFINE g == [i \in 1 .. N |-> f[i]]
  <2>6. Is(g)
    <3>1. \A i \in 1 .. N : g[i] = IF i = 1 THEN ss[i] ELSE g[i - 1] \o ss[i]
      <4> SUFFICES ASSUME NEW i \in 1 .. N
                   PROVE  g[i] = IF i = 1 THEN ss[i] ELSE g[i - 1] \o ss[i]
        OBVIOUS
      <4>1. CASE i = 1
        BY <2>5, <4>1
      <4>2. CASE i # 1
        <5>1. i - 1 \in 1 .. N
          BY <1>1, <4>2
        <5>2. g[i] = f[i] /\ g[i - 1] = f[i - 1]
          BY <5>1
        <5> QED
          BY <2>5, <4>2, <5>2
      <4> QED
        BY <4>1, <4>2
    <3>2. g = [i \in 1 .. N |-> g[i]]
      OBVIOUS
    <3> HIDE DEF g, G, Y, N
    <3> QED
      BY <3>1, <3>2, Zenon
  <2>7. Is(flat)
    <3> HIDE DEF Is, g
    <3> QED
      BY <2>6
  <2> HIDE DEF flat, g
  <2>8. \A i \in 1 .. N : flat[i] = IF i = 1 THEN ss[i] ELSE flat[i - 1] \o ss[i]
    BY <2>7, Zenon
  <2> DEFINE E == {n \in Nat : n + 1 <= N => flat[n + 1] \in Y}
  <2> HIDE DEF Is, Y, N, G
  <2>9. 0 \in E
    <3>1. 1 \in 1 .. N /\ 0 + 1 = 1
      BY <1>1, <1>4
    <3>2. flat[1] = ss[1]
      BY <2>8, <3>1
    <3> QED
      BY <1>1, <3>1, <3>2
  <2>10. ASSUME NEW n \in Nat, n \in E
         PROVE  n + 1 \in E
    <3> SUFFICES ASSUME (n + 1) + 1 <= N
                 PROVE  flat[(n + 1) + 1] \in Y
      OBVIOUS
    <3>1. PICK m : m = (n + 1) + 1
      OBVIOUS
    <3>2. m \in 1 .. N /\ m # 1 /\ m - 1 = n + 1 /\ n + 1 <= N
      BY <1>1, <3>1
    <3>3. flat[m - 1] \in Y
      BY <2>10, <3>2
    <3>4. flat[m] = flat[m - 1] \o ss[m]
      BY <2>8, <3>2
    <3> QED
      BY <1>1, <1>2, <3>1, <3>2, <3>3, <3>4
  <2>11. Nat \subseteq E
    <3> HIDE DEF E
    <3> QED
      BY <2>9, <2>10, Counting
  <2>12. N - 1 \in Nat /\ (N - 1) + 1 = N
    BY <1>1, <1>4
  <2>13. flat[N] \in Y
    BY <2>11, <2>12
  <2> QED
    BY <2>1, <2>13 DEF Y
<1> QED
  BY <1>3, <1>4

\* The orders of a finite set have its members and no other.
LEMMA Listed ==
  ASSUME NEW S, IsFiniteSet(S), NEW rs \in SetToSeqs(S)
  PROVE  /\ rs \in Seq(S) /\ IsSeq(rs) /\ Len(rs) = Cardinality(S)
         /\ Range(rs) = S /\ {rs[i] : i \in 1 .. Len(rs)} = S
         /\ S = {} <=> rs = <<>>
<1>1. Cardinality(S) \in Nat
  BY FS_CardinalityType
<1>2. /\ rs \in [1 .. Cardinality(S) -> S]
      /\ \A i, j \in 1 .. Cardinality(S) : i # j => rs[i] # rs[j]
  BY DEF SetToSeqs
<1>3. rs \in Seq(S) /\ Len(rs) = Cardinality(S)
  BY <1>1, <1>2
<1>4. IsSeq(rs)
  BY <1>3, SeqIsSeq
<1>5. rs \in Injection(1 .. Cardinality(S), S)
  BY <1>2 DEF Injection, IsInjective
<1>6. /\ IsFiniteSet(1 .. Cardinality(S))
      /\ Cardinality(1 .. Cardinality(S)) = Cardinality(S)
  BY <1>1, FS_Interval
<1>7. rs \in Surjection(1 .. Cardinality(S), S)
  BY <1>5, <1>6, FS_Injection
<1>8. {rs[i] : i \in 1 .. Len(rs)} = S
  BY <1>2, <1>3, <1>7 DEF Surjection
<1>9. Range(rs) = S
  BY <1>3, <1>8 DEF Range
<1>10. S = {} <=> rs = <<>>
  <2>1. Cardinality(S) = 0 <=> S = {}
    BY FS_EmptySet
  <2>2. rs = <<>> <=> Len(rs) = 0
    BY <1>4, IsSeqFacts
  <2> QED
    BY <1>3, <2>1, <2>2
<1> QED
  BY <1>3, <1>4, <1>8, <1>9, <1>10

LEMMA ListedOnce ==
  ASSUME NEW S, IsFiniteSet(S)
  PROVE  SetToSeq(S) \in Seq(S)
<1>1. Cardinality(S) \in Nat /\ \E f : f \in Bijection(1 .. Cardinality(S), S)
  BY FS_CardinalityType DEF ExistsBijection
<1>2. PICK f : f \in Bijection(1 .. Cardinality(S), S)
  BY <1>1
<1>3. f \in [1 .. Cardinality(S) -> S] /\ IsInjective(f)
  BY <1>2 DEF Bijection, Injection
<1>4. SetToSeq(S) \in [1 .. Cardinality(S) -> S]
  BY <1>3 DEF SetToSeq
<1> QED
  BY <1>1, <1>4

----------------------------------------------------------------------------
\* Scripts: the calls an action puts on the stack.

\* What a call refers to is there.
Sound(c) ==
  /\ c.do \in Calls
  /\ c.do \in {"add", "remove"} => c.at[2] = "terminal" \/ c.at[1] \in Nodes
  /\ c.do \in {"enter", "leave"} => c.at[1] \in Range(Alphas) /\ c.at[2] \in Ids
  /\ c.do = "refresh" => c.at[1] \in Nodes /\ Kind[c.at[1]] = "aggregate"

Ends == {"report", "discard"}

\* Calls that refer to what is there, and end nothing.
Plain(s) ==
  IsSeq(s) /\ \A i \in 1 .. Len(s) : Sound(s[i]) /\ s[i].do \notin Ends

\* Whoever puts the refreshes off lifts that again.
Lifted(s) ==
  \A i \in 1 .. Len(s) : s[i].do = "defer" => \E j \in i .. Len(s) : s[j].do = "lift"

Script(s) == Plain(s) /\ Lifted(s)

LEMMA ScriptNone == Script(<<>>)
<1>1. IsSeq(<<>>) /\ Len(<<>>) = 0
  BY Singles
<1> QED
  BY <1>1 DEF Script, Plain, Lifted

LEMMA PlainOne ==
  ASSUME NEW c, Sound(c), c.do \notin Ends
  PROVE  Plain(<<c>>)
<1>1. IsSeq(<<c>>) /\ Len(<<c>>) = 1 /\ <<c>>[1] = c
  BY Singles
<1>2. \A i \in 1 .. 1 : i = 1
  OBVIOUS
<1> QED
  BY <1>1, <1>2 DEF Plain

LEMMA ScriptOne ==
  ASSUME NEW c, Sound(c), c.do \notin Ends \cup {"defer"}
  PROVE  Script(<<c>>)
<1>1. IsSeq(<<c>>) /\ Len(<<c>>) = 1 /\ <<c>>[1] = c
  BY Singles
<1>2. \A i \in 1 .. 1 : i = 1
  OBVIOUS
<1>3. Lifted(<<c>>)
  BY <1>1, <1>2 DEF Lifted
<1> QED
  BY <1>3, PlainOne DEF Script

LEMMA PlainConcat ==
  ASSUME NEW s, NEW t, Plain(s), Plain(t)
  PROVE  Plain(s \o t)
<1>1. /\ IsSeq(s) /\ IsSeq(t) /\ Len(s) \in Nat /\ Len(t) \in Nat
  BY IsSeqFacts DEF Plain
<1>2. /\ IsSeq(s \o t) /\ Len(s \o t) = Len(s) + Len(t)
      /\ \A i \in 1 .. Len(s) : (s \o t)[i] = s[i]
      /\ \A i \in 1 .. Len(t) : (s \o t)[Len(s) + i] = t[i]
  BY <1>1, IsSeqConcat
<1>3. ASSUME NEW i \in 1 .. Len(s) + Len(t)
      PROVE  Sound((s \o t)[i]) /\ (s \o t)[i].do \notin Ends
  <2>1. CASE i <= Len(s)
    <3>1. i \in 1 .. Len(s)
      BY <1>1, <2>1
    <3> QED
      BY <1>2, <3>1 DEF Plain
  <2>2. CASE ~ (i <= Len(s))
    <3>1. i - Len(s) \in 1 .. Len(t) /\ Len(s) + (i - Len(s)) = i
      BY <1>1, <2>2
    <3>2. (s \o t)[i] = t[i - Len(s)]
      BY <1>2, <3>1
    <3> QED
      BY <3>1, <3>2 DEF Plain
  <2> QED
    BY <2>1, <2>2
<1> QED
  BY <1>2, <1>3 DEF Plain

LEMMA LiftedConcat ==
  ASSUME NEW s, NEW t, IsSeq(s), IsSeq(t), Lifted(s), Lifted(t)
  PROVE  Lifted(s \o t)
<1>1. PICK q : q = s \o t
  OBVIOUS
<1>2. PICK m, n : m = Len(s) /\ n = Len(t)
  OBVIOUS
<1>3. /\ m \in Nat /\ n \in Nat /\ Len(q) = m + n
      /\ \A i \in 1 .. m : q[i] = s[i]
      /\ \A i \in 1 .. n : q[m + i] = t[i]
  BY <1>1, <1>2, IsSeqConcat, IsSeqFacts
<1>4. ASSUME NEW i \in 1 .. m + n, q[i].do = "defer"
      PROVE  \E j \in i .. m + n : q[j].do = "lift"
  <2>1. CASE i <= m
    <3>1. i \in 1 .. m
      BY <1>3, <2>1
    <3>2. PICK j \in i .. m : s[j].do = "lift"
      BY <1>2, <1>3, <1>4, <3>1 DEF Lifted
    <3>3. j \in 1 .. m /\ j \in i .. m + n
      BY <1>3, <3>1
    <3> QED
      BY <1>3, <3>2, <3>3
  <2>2. CASE ~ (i <= m)
    <3>1. PICK k : k = i - m
      OBVIOUS
    <3>2. k \in 1 .. n /\ m + k = i
      BY <1>3, <2>2, <3>1
    <3>3. PICK j \in k .. n : t[j].do = "lift"
      BY <1>2, <1>3, <1>4, <3>2 DEF Lifted
    <3>4. j \in 1 .. n /\ m + j \in i .. m + n
      BY <1>3, <3>2
    <3>5. q[m + j].do = "lift"
      BY <1>3, <3>3, <3>4
    <3> QED
      BY <3>4, <3>5
  <2> QED
    BY <2>1, <2>2
<1> QED
  BY <1>1, <1>3, <1>4 DEF Lifted

LEMMA ScriptConcat ==
  ASSUME NEW s, NEW t, Script(s), Script(t)
  PROVE  Script(s \o t)
<1>1. Plain(s \o t)
  BY PlainConcat DEF Script
<1>2. Lifted(s \o t)
  BY LiftedConcat DEF Script, Plain
<1> QED
  BY <1>1, <1>2 DEF Script

LEMMA ScriptOf ==
  ASSUME NEW X, NEW s \in Seq(X), \A c \in X : Sound(c) /\ c.do \notin Ends \cup {"defer"}
  PROVE  Script(s)
<1>1. IsSeq(s) /\ \A i \in 1 .. Len(s) : s[i] \in X
  BY SeqIsSeq
<1> QED
  BY <1>1 DEF Script, Plain, Lifted

Alongs(s, do, T) == {Call(do, Out[s][j], t) : j \in 1 .. Len(Out[s]), t \in T}

LEMMA AlongsSound ==
  ASSUME NEW s \in Stages, NEW do \in {"add", "remove"}, NEW T
  PROVE  \A c \in Alongs(s, do, T) : Sound(c) /\ c.do \notin Ends /\ c.do = do
<1> SUFFICES ASSUME NEW j \in 1 .. Len(Out[s]), NEW t \in T
             PROVE  Sound(Call(do, Out[s][j], t)) /\ Call(do, Out[s][j], t).do \notin Ends
                    /\ Call(do, Out[s][j], t).do = do
  BY DEF Alongs
<1>1. PICK o : o = Out[s]
  OBVIOUS
<1>2. o \in Seq(Range(o)) /\ \A e \in Range(o) : e[2] = "terminal" \/ e[1] \in Nodes
  BY <1>1, NetworkAssumption
<1>3. o[j] \in Range(o)
  BY <1>1, <1>2, SeqIsSeq
<1>4. PICK e : e = o[j]
  OBVIOUS
<1>5. PICK c : c = Call(do, e, t)
  OBVIOUS
<1>6. c.do = do /\ c.at = e
  BY <1>5 DEF Call
<1>7. Sound(c)
  BY <1>2, <1>3, <1>4, <1>6 DEF Sound, Calls
<1> QED
  BY <1>1, <1>4, <1>5, <1>6, <1>7 DEF Ends

LEMMA AlongTyped ==
  ASSUME NEW s \in Stages, NEW do \in {"add", "remove"}, NEW T, NEW t \in T
  PROVE  Along(s, do, t) \in Seq(Alongs(s, do, T))
<1>1. PICK o : o = Out[s]
  OBVIOUS
<1>2. o \in Seq(Range(o))
  BY <1>1, NetworkAssumption
<1>3. Len(o) \in Nat
  BY <1>2
<1>4. \A j \in 1 .. Len(o) : Call(do, o[j], t) \in Alongs(s, do, T)
  BY <1>1 DEF Alongs
<1>5. Along(s, do, t) = [i \in 1 .. Len(o) |-> Call(do, o[i], t)]
  BY <1>1 DEF Along
<1>6. PICK A : A = Alongs(s, do, T)
  OBVIOUS
<1>7. Along(s, do, t) \in [1 .. Len(o) -> A]
  BY <1>4, <1>5, <1>6
<1> QED
  BY <1>3, <1>6, <1>7

LEMMA AlongScript ==
  ASSUME NEW s \in Stages, NEW do \in {"add", "remove"}, NEW t
  PROVE  /\ Script(Along(s, do, t))
         /\ \A i \in 1 .. Len(Along(s, do, t)) : Along(s, do, t)[i].do = do
<1>1. Along(s, do, t) \in Seq(Alongs(s, do, {t}))
  BY AlongTyped
<1>2. \A c \in Alongs(s, do, {t}) : Sound(c) /\ c.do \notin Ends \cup {"defer"} /\ c.do = do
  BY AlongsSound
<1>3. Script(Along(s, do, t))
  BY <1>1, <1>2, ScriptOf
<1>4. \A i \in 1 .. Len(Along(s, do, t)) : Along(s, do, t)[i] \in Alongs(s, do, {t})
  BY <1>1, SeqIsSeq
<1> QED
  BY <1>2, <1>3, <1>4

LEMMA AlongEachScript ==
  ASSUME NEW s \in Stages, NEW do \in {"add", "remove"}, NEW ts, IsSeq(ts)
  PROVE  /\ Script(AlongEach(s, do, ts))
         /\ \A i \in 1 .. Len(AlongEach(s, do, ts)) : AlongEach(s, do, ts)[i].do = do
<1>1. PICK T : T = {ts[i] : i \in 1 .. Len(ts)}
  OBVIOUS
<1>2. PICK X : X = Alongs(s, do, T)
  OBVIOUS
<1>3. PICK ss : ss = [i \in 1 .. Len(ts) |-> Along(s, do, ts[i])]
  OBVIOUS
<1>4. \A i \in 1 .. Len(ts) : Along(s, do, ts[i]) \in Seq(X)
  <2>1. \A i \in 1 .. Len(ts) : ts[i] \in T
    BY <1>1
  <2> QED
    BY <1>2, <2>1, AlongTyped
<1>5. Len(ts) \in Nat
  BY IsSeqFacts
<1>6. ss \in Seq(Seq(X))
  <2>1. PICK Y : Y = Seq(X)
    OBVIOUS
  <2>2. ss \in [1 .. Len(ts) -> Y]
    BY <1>3, <1>4, <2>1
  <2> QED
    BY <1>5, <2>1, <2>2
<1>7. AlongEach(s, do, ts) \in Seq(X)
  BY <1>3, <1>6, Flattened DEF AlongEach
<1>8. \A c \in X : Sound(c) /\ c.do \notin Ends \cup {"defer"} /\ c.do = do
  BY <1>2, AlongsSound
<1>9. Script(AlongEach(s, do, ts))
  BY <1>7, <1>8, ScriptOf
<1>10. \A i \in 1 .. Len(AlongEach(s, do, ts)) : AlongEach(s, do, ts)[i] \in X
  BY <1>7, SeqIsSeq
<1> QED
  BY <1>8, <1>9, <1>10

\* The calls at alpha nodes.
LEMMA AtAlphasScript ==
  ASSUME NEW taking, NEW do \in {"enter", "leave"}, NEW f \in Ids, NEW c
  PROVE  Script(AtAlphas(taking, do, f, c))
<1>1. PICK N : N = Len(Alphas)
  OBVIOUS
<1>2. PICK as : as = Alphas
  OBVIOUS
<1>3. as \in Seq(Range(as)) /\ N \in Nat /\ \A i \in 1 .. N : as[i] \in Range(as)
  BY <1>1, <1>2, NetworkAssumption, SeqIsSeq
<1>4. PICK X : X = {Call(do, <<a, f>>, <<Entry(f, c)>>) : a \in Range(as)}
  OBVIOUS
<1>5. PICK ss : ss = [i \in 1 .. N |->
                        IF as[i] \in taking THEN <<Call(do, <<as[i], f>>, <<Entry(f, c)>>)>>
                        ELSE <<>>]
  OBVIOUS
<1>6. ss \in Seq(Seq(X))
  <2>1. PICK Y : Y = Seq(X)
    OBVIOUS
  <2>2. \A a \in Range(as) : <<Call(do, <<a, f>>, <<Entry(f, c)>>)>> \in Y
    <3> SUFFICES ASSUME NEW a \in Range(as)
                 PROVE  <<Call(do, <<a, f>>, <<Entry(f, c)>>)>> \in Y
      OBVIOUS
    <3>1. PICK x : x = Call(do, <<a, f>>, <<Entry(f, c)>>)
      OBVIOUS
    <3>2. x \in X
      BY <1>4, <3>1
    <3> QED
      BY <2>1, <3>1, <3>2
  <2>3. <<>> \in Y
    BY <2>1
  <2>4. ss \in [1 .. N -> Y]
    BY <1>3, <1>5, <2>2, <2>3
  <2> QED
    BY <1>3, <2>1, <2>4
<1>7. AtAlphas(taking, do, f, c) \in Seq(X)
  BY <1>1, <1>2, <1>5, <1>6, Flattened DEF AtAlphas
<1>8. ASSUME NEW x \in X
      PROVE  Sound(x) /\ x.do \notin Ends \cup {"defer"}
  <2>1. PICK a \in Range(as) : x = Call(do, <<a, f>>, <<Entry(f, c)>>)
    BY <1>4
  <2>2. x.do = do /\ x.at[1] = a /\ x.at[2] = f
    BY <2>1 DEF Call
  <2> QED
    BY <1>2, <2>2 DEF Sound, Calls, Ends
<1> QED
  BY <1>7, <1>8, ScriptOf

----------------------------------------------------------------------------
\* The stack: all calls refer to what is there, the last one tells the agenda,
\* whoever puts the refreshes off lifts that, and every call before the lift that
\* may put off a refresh has a finalizing one behind it.

Finishes(s) ==
  \A i \in 1 .. Len(s) :
    \/ s[i].do \in Ends \cup {"lift"}
    \/ \E j \in i .. Len(s) : s[j].do = "finalize"

Stacked(s) ==
  /\ IsSeq(s)
  /\ \A i \in 1 .. Len(s) : Sound(s[i])
  /\ \A i \in 1 .. Len(s) : s[i].do \in Ends <=> i = Len(s)
  /\ Lifted(s) /\ Finishes(s)

\* The calls of a rebuild: what is put off is seen to before that is lifted.
LEMMA StackedScript ==
  ASSUME NEW s, Plain(s), NEW e, Sound(e), e.do \in Ends
  PROVE  Stacked(s \o <<Finalizes, Lifts, e>>) /\ s \o <<Finalizes, Lifts, e>> # <<>>
<1>1. PICK f, l : f = Finalizes /\ l = Lifts
  OBVIOUS
<1>2. Sound(f) /\ f.do = "finalize" /\ Sound(l) /\ l.do = "lift"
  BY <1>1 DEF Finalizes, Lifts, Call, Sound, Calls
<1>3. /\ IsSeq(<<f, l, e>>) /\ Len(<<f, l, e>>) = 3
      /\ <<f, l, e>>[1] = f /\ <<f, l, e>>[2] = l /\ <<f, l, e>>[3] = e
  <2>1. <<f, l, e>> \in Seq({f, l, e})
    OBVIOUS
  <2> QED
    BY <2>1, SeqIsSeq
<1>4. PICK t : t = <<f, l, e>>
  OBVIOUS
<1>5. PICK q : q = s \o t
  OBVIOUS
<1>6. PICK m : m = Len(s)
  OBVIOUS
<1>7. IsSeq(s) /\ m \in Nat
  BY <1>6, IsSeqFacts DEF Plain
<1>8. /\ IsSeq(q) /\ Len(q) = m + 3
      /\ \A i \in 1 .. m : q[i] = s[i]
      /\ q[m + 1] = f /\ q[m + 2] = l /\ q[m + 3] = e
  BY <1>3, <1>4, <1>5, <1>6, <1>7, IsSeqConcat
<1>9. ASSUME NEW i \in 1 .. Len(q)
      PROVE  \/ i \in 1 .. m /\ q[i] = s[i]
             \/ i = m + 1 /\ q[i] = f
             \/ i = m + 2 /\ q[i] = l
             \/ i = m + 3 /\ q[i] = e
  BY <1>7, <1>8
<1>10. ASSUME NEW i \in 1 .. m
       PROVE  Sound(s[i]) /\ s[i].do \notin Ends
  BY <1>6 DEF Plain
<1>11. ASSUME NEW i \in 1 .. Len(q)
       PROVE  Sound(q[i]) /\ (q[i].do \in Ends <=> i = Len(q))
  BY <1>2, <1>7, <1>8, <1>9, <1>10 DEF Ends
<1>12. Lifted(q)
  <2>1. ASSUME NEW i \in 1 .. Len(q), q[i].do = "defer"
        PROVE  m + 2 \in i .. Len(q)
    <3>1. i # m + 3
      BY <1>8, <2>1 DEF Ends
    <3> QED
      BY <1>7, <1>8, <3>1
  <2> QED
    BY <1>2, <1>8, <2>1 DEF Lifted
<1>13. Finishes(q)
  <2>1. ASSUME NEW i \in 1 .. Len(q)
        PROVE  \/ q[i].do \in Ends \cup {"lift"}
               \/ \E j \in i .. Len(q) : q[j].do = "finalize"
    <3>1. CASE i = m + 2 \/ i = m + 3
      BY <1>2, <1>8, <3>1
    <3>2. CASE ~ (i = m + 2 \/ i = m + 3)
      <4>1. m + 1 \in i .. Len(q)
        BY <1>7, <1>8, <3>2
      <4> QED
        BY <1>2, <1>8, <4>1
    <3> QED
      BY <3>1, <3>2
  <2> QED
    BY <2>1 DEF Finishes
<1>14. q # <<>>
  BY <1>7, <1>8, IsSeqFacts
<1> QED
  BY <1>1, <1>4, <1>5, <1>8, <1>11, <1>12, <1>13, <1>14 DEF Stacked

\* A call gives way to the calls it makes.  One that finalizes, or lifts, makes
\* none, or a last one that finalizes.
LEMMA StackedThen ==
  ASSUME Stacked(stack), stack # <<>>, Now.do \notin Ends,
         NEW calls, Script(calls), Then(calls),
         \/ Now.do \notin {"finalize", "lift"}
         \/ calls = <<>>
         \/ calls[Len(calls)].do = "finalize"
  PROVE  /\ Stacked(stack') /\ stack' # <<>> /\ Sound(Now)
         /\ \A i \in 2 .. Len(stack) : \E j \in 1 .. Len(stack') : stack'[j] = stack[i]
<1>1. PICK s : s = stack
  OBVIOUS
<1>2. PICK t : t = Tail(s)
  OBVIOUS
<1>3. PICK c : c = calls
  OBVIOUS
<1>4. PICK q : q = c \o t
  OBVIOUS
<1>5. stack' = q
  BY <1>1, <1>2, <1>3, <1>4 DEF Then
<1>6. PICK m, n : m = Len(c) /\ n = Len(s)
  OBVIOUS
<1>7. /\ IsSeq(s) /\ n \in Nat /\ n # 0
      /\ \A i \in 1 .. n : Sound(s[i]) /\ (s[i].do \in Ends <=> i = n)
      /\ Lifted(s) /\ Finishes(s)
  BY <1>1, <1>6, IsSeqFacts DEF Stacked
<1>8. /\ IsSeq(t) /\ Len(t) = n - 1
      /\ \A i \in 1 .. n - 1 : t[i] = s[i + 1]
      /\ Now = s[1]
  BY <1>1, <1>2, <1>6, <1>7, IsSeqTail, IsSeqFacts DEF Now
<1>9. 1 \in 1 .. n /\ n # 1
  BY <1>7, <1>8
<1>10. IsSeq(c) /\ m \in Nat /\ (c = <<>> <=> m = 0)
  <2>1. IsSeq(c)
    BY <1>3 DEF Script, Plain
  <2> QED
    BY <1>6, <2>1, IsSeqFacts
<1>11. /\ IsSeq(q) /\ Len(q) = m + (n - 1)
       /\ \A i \in 1 .. m : q[i] = c[i]
       /\ \A i \in 1 .. n - 1 : q[m + i] = t[i]
  <2>1. /\ IsSeq(c \o t) /\ Len(c \o t) = Len(c) + Len(t)
        /\ \A i \in 1 .. Len(c) : (c \o t)[i] = c[i]
        /\ \A i \in 1 .. Len(t) : (c \o t)[Len(c) + i] = t[i]
    BY <1>8, <1>10, IsSeqConcat
  <2> QED
    BY <1>4, <1>6, <1>8, <2>1
<1>12. ASSUME NEW i \in 2 .. n
       PROVE  m + (i - 1) \in 1 .. Len(q) /\ q[m + (i - 1)] = s[i]
  <2>1. i - 1 \in 1 .. n - 1 /\ (i - 1) + 1 = i
    BY <1>7
  <2>2. q[m + (i - 1)] = t[i - 1] /\ t[i - 1] = s[i]
    BY <1>8, <1>11, <2>1
  <2> QED
    BY <1>7, <1>10, <1>11, <2>2
<1>13. ASSUME NEW i \in 1 .. Len(q)
       PROVE  \/ i \in 1 .. m /\ q[i] = c[i] /\ i # Len(q)
              \/ \E k \in 2 .. n : i = m + (k - 1)
  <2>1. CASE i <= m
    BY <1>7, <1>9, <1>10, <1>11, <2>1
  <2>2. CASE ~ (i <= m)
    <3>1. PICK k : k = (i - m) + 1
      OBVIOUS
    <3>2. k \in 2 .. n /\ i = m + (k - 1)
      BY <1>7, <1>10, <1>11, <2>2, <3>1
    <3> QED
      BY <3>2
  <2> QED
    BY <2>1, <2>2
<1>14. ASSUME NEW i \in 1 .. Len(q)
       PROVE  Sound(q[i]) /\ (q[i].do \in Ends <=> i = Len(q))
  <2>1. CASE i \in 1 .. m /\ q[i] = c[i] /\ i # Len(q)
    BY <1>3, <1>6, <2>1 DEF Script, Plain
  <2>2. CASE \E k \in 2 .. n : i = m + (k - 1)
    <3>1. PICK k \in 2 .. n : i = m + (k - 1)
      BY <2>2
    <3>2. k \in 1 .. n /\ (i = Len(q) <=> k = n)
      BY <1>7, <1>10, <1>11, <3>1
    <3>3. q[i] = s[k]
      BY <1>12, <3>1
    <3> QED
      BY <1>7, <3>2, <3>3
  <2> QED
    BY <1>13, <2>1, <2>2
<1>15. Lifted(q)
  <2>1. Lifted(t)
    <3>1. ASSUME NEW i \in 1 .. Len(t), t[i].do = "defer"
          PROVE  \E j \in i .. Len(t) : t[j].do = "lift"
      <4>1. i \in 1 .. n - 1 /\ i + 1 \in 1 .. n /\ t[i] = s[i + 1]
        BY <1>7, <1>8
      <4>2. PICK k \in i + 1 .. n : s[k].do = "lift"
        BY <1>6, <1>7, <3>1, <4>1 DEF Lifted
      <4>3. PICK j : j = k - 1
        OBVIOUS
      <4>4. j \in i .. Len(t) /\ j \in 1 .. n - 1 /\ j + 1 = k
        BY <1>7, <1>8, <4>1, <4>3
      <4>5. t[j] = s[k]
        BY <1>8, <4>4
      <4> QED
        BY <4>2, <4>4, <4>5
    <3> QED
      BY <3>1 DEF Lifted
  <2>2. Lifted(c)
    BY <1>3 DEF Script
  <2> QED
    BY <1>4, <1>8, <1>10, <2>1, <2>2, LiftedConcat
<1>16. Finishes(q)
  <2>1. ASSUME NEW i \in 1 .. Len(q)
        PROVE  \/ q[i].do \in Ends \cup {"lift"}
               \/ \E j \in i .. Len(q) : q[j].do = "finalize"
    <3>1. CASE i \in 1 .. m /\ Now.do \notin {"finalize", "lift"}
      <4>1. PICK k \in 1 .. n : s[k].do = "finalize"
        BY <1>6, <1>7, <1>8, <1>9, <3>1 DEF Finishes
      <4>2. k # 1
        BY <1>8, <3>1, <4>1
      <4>3. k \in 2 .. n
        BY <1>7, <4>2
      <4>4. q[m + (k - 1)].do = "finalize"
        BY <1>12, <4>1, <4>3
      <4>5. m + (k - 1) \in i .. Len(q)
        BY <1>7, <1>10, <1>11, <3>1, <4>3
      <4> QED
        BY <4>4, <4>5
    <3>2. CASE i \in 1 .. m /\ Now.do \in {"finalize", "lift"}
      <4>1. m # 0
        BY <1>10, <3>2
      <4>2. c[m].do = "finalize"
        BY <1>3, <1>6, <1>10, <3>2, <4>1
      <4>3. m \in 1 .. m /\ m \in i .. Len(q)
        BY <1>7, <1>9, <1>10, <1>11, <3>2, <4>1
      <4>4. q[m] = c[m]
        BY <1>11, <4>3
      <4> QED
        BY <4>2, <4>3, <4>4
    <3>3. CASE \E k \in 2 .. n : i = m + (k - 1)
      <4>1. PICK k \in 2 .. n : i = m + (k - 1)
        BY <3>3
      <4>2. k \in 1 .. n /\ q[i] = s[k]
        BY <1>12, <4>1
      <4>3. CASE s[k].do \in Ends \cup {"lift"}
        BY <4>2, <4>3
      <4>4. CASE s[k].do \notin Ends \cup {"lift"}
        <5>1. PICK h \in k .. n : s[h].do = "finalize"
          BY <1>6, <1>7, <4>2, <4>4 DEF Finishes
        <5>2. h \in 2 .. n
          BY <4>1
        <5>3. q[m + (h - 1)].do = "finalize"
          BY <1>12, <5>1, <5>2
        <5>4. m + (h - 1) \in i .. Len(q)
          BY <1>7, <1>10, <1>11, <4>1, <5>2
        <5> QED
          BY <5>3, <5>4
      <4> QED
        BY <4>3, <4>4
    <3> QED
      BY <1>13, <3>1, <3>2, <3>3
  <2> QED
    BY <2>1 DEF Finishes
<1>17. q # <<>>
  BY <1>7, <1>9, <1>10, <1>11, IsSeqFacts
<1>18. Sound(Now)
  BY <1>7, <1>8, <1>9
<1>19. \A i \in 2 .. n : \E j \in 1 .. Len(q) : q[j] = s[i]
  BY <1>12
<1>20. Stacked(q)
  BY <1>11, <1>14, <1>15, <1>16 DEF Stacked
<1> QED
  BY <1>1, <1>5, <1>6, <1>17, <1>18, <1>19, <1>20

----------------------------------------------------------------------------
\* Every variable stays in its range.  The outputs of a join are part of the
\* shape of its memory: that they are exact makes them finitely many.

BucketShape(n, b) ==
  /\ b = [inputs |-> b.inputs, count |-> b.count, max |-> b.max, out |-> b.out]
  /\ IsFiniteSet(b.inputs) /\ IsFiniteSet(b.out)
  /\ "max" \in Specs[n] => \A t \in b.inputs : Amount(t) \in Int
  /\ b.count = Cardinality(b.inputs)
  /\ b.max = IF "max" \in Specs[n] /\ b.inputs # {}
             THEN Max({Amount(t) : t \in b.inputs}) ELSE 0

JoinShape(n, m) ==
  /\ m = [left |-> m.left, right |-> m.right, links |-> m.links]
  /\ IsFiniteSet(m.left) /\ IsFiniteSet(m.right)
  /\ m.links = {k \in m.left \X m.right : Pairs(n, k[1], k[2])}

NotShape(m) ==
  /\ m = [right |-> m.right, blockers |-> m.blockers, shown |-> m.shown]
  /\ IsFiniteSet(m.right) /\ IsFiniteSet(DOMAIN m.blockers)
  /\ m.shown \in SUBSET (DOMAIN m.blockers)

AggregateShape(n, m) ==
  /\ m = [buckets |-> m.buckets]
  /\ \A p \in DOMAIN m.buckets : BucketShape(n, m.buckets[p])

Shape(n, m) ==
  /\ Kind[n] = "join" => JoinShape(n, m)
  /\ Kind[n] = "not" => NotShape(m)
  /\ Kind[n] = "filter" => m = [left |-> m.left]
  /\ Kind[n] = "union" => m = [support |-> m.support]
  /\ Kind[n] = "aggregate" => AggregateShape(n, m)

FactsOK ==
  /\ facts \in [Ids -> Values \cup {Absent}] /\ before \in [Ids -> Values \cup {Absent}]
  /\ IsFiniteSet(Present(facts)) /\ IsFiniteSet(Present(before))
  /\ routes \in [Ids -> SUBSET Range(Alphas)]

MemOK == mem = [n \in Nodes |-> mem[n]] /\ \A n \in Nodes : Shape(n, mem[n])

DeferredOK(D) ==
  IsFiniteSet(D) /\ \A d \in D : d = <<d[1], d[2]>> /\ d[1] \in Nodes /\ Kind[d[1]] = "aggregate"

FlowOK ==
  /\ Stacked(stack)
  /\ deferring \in BOOLEAN /\ DeferredOK(deferred)
  /\ deferring => \E i \in 1 .. Len(stack) : stack[i].do = "lift"
  /\ deferred # {} => \E i \in 1 .. Len(stack) : stack[i].do = "finalize"
  /\ stack = <<>> => added = EmptyBag /\ removed = EmptyBag

NetworkInv == FactsOK /\ MemOK /\ FlowOK

\* One node's memory changes.
LEMMA MemChanged ==
  ASSUME MemOK, NEW n \in Nodes, NEW m, Shape(n, m), mem' = [mem EXCEPT ![n] = m]
  PROVE  MemOK'
<1>1. mem' = [k \in Nodes |-> mem'[k]] /\ mem'[n] = m /\ \A k \in Nodes \ {n} : mem'[k] = mem[k]
  BY DEF MemOK
<1>2. \A k \in Nodes : Shape(k, mem'[k])
  BY <1>1 DEF MemOK
<1> QED
  BY <1>1, <1>2 DEF MemOK

\* A call that is there, and is not the next one, stays.
LEMMA CallsStay ==
  ASSUME FlowOK, stack # <<>>,
         \A i \in 2 .. Len(stack) : \E j \in 1 .. Len(stack') : stack'[j] = stack[i],
         NEW do, Now.do # do, \E i \in 1 .. Len(stack) : stack[i].do = do
  PROVE  \E j \in 1 .. Len(stack') : stack'[j].do = do
<1>1. PICK s : s = stack
  OBVIOUS
<1>2. IsSeq(s) /\ s # <<>> /\ Len(s) \in Nat
  BY <1>1, IsSeqFacts DEF FlowOK, Stacked
<1>3. Now = s[1]
  BY <1>1, <1>2, IsSeqTail DEF Now
<1>4. PICK i \in 1 .. Len(s) : s[i].do = do
  BY <1>1
<1>5. i \in 2 .. Len(s)
  <2>1. i # 1
    BY <1>3, <1>4
  <2> QED
    BY <1>2, <2>1
<1>6. PICK j \in 1 .. Len(stack') : stack'[j] = s[i]
  BY <1>1, <1>5
<1> QED
  BY <1>4, <1>6

\* What an action that works off a call and changes nothing of the flow but the
\* stack leaves, or puts refreshes off.
LEMMA FlowGoesOn ==
  ASSUME FlowOK, stack # <<>>, Now.do \notin Ends \cup {"finalize", "lift"},
         NEW calls, Script(calls), Then(calls),
         deferring' = deferring \/ (Now.do = "defer" /\ deferring' = TRUE),
         DeferredOK(deferred')
  PROVE  FlowOK'
<1>1. /\ Stacked(stack') /\ stack' # <<>>
      /\ \A i \in 2 .. Len(stack) : \E j \in 1 .. Len(stack') : stack'[j] = stack[i]
  BY StackedThen DEF FlowOK
<1>2. PICK s : s = stack
  OBVIOUS
<1>3. IsSeq(s) /\ s # <<>> /\ Len(s) \in Nat /\ Len(s) # 0 /\ Lifted(s) /\ Finishes(s)
  BY <1>2, IsSeqFacts DEF FlowOK, Stacked
<1>4. Now = s[1] /\ 1 \in 1 .. Len(s)
  BY <1>2, <1>3, IsSeqTail DEF Now
<1>5. \E j \in 1 .. Len(stack') : stack'[j].do = "finalize"
  <2>1. \E i \in 1 .. Len(s) : s[i].do = "finalize"
    BY <1>3, <1>4 DEF Finishes
  <2> QED
    BY <1>1, <1>2, <2>1, CallsStay
<1>6. ASSUME deferring'
      PROVE  \E j \in 1 .. Len(stack') : stack'[j].do = "lift"
  <2>1. \E i \in 1 .. Len(s) : s[i].do = "lift"
    <3>1. CASE deferring' = deferring
      BY <1>2, <1>6, <3>1 DEF FlowOK
    <3>2. CASE Now.do = "defer"
      BY <1>3, <1>4, <3>2 DEF Lifted
    <3> QED
      BY <3>1, <3>2
  <2> QED
    BY <1>1, <1>2, <2>1, CallsStay
<1>7. deferring' \in BOOLEAN
  BY DEF FlowOK
<1> QED
  BY <1>1, <1>5, <1>6, <1>7 DEF FlowOK

\* A call to a side of a node is to one that is there.
LEMMA AtNode ==
  ASSUME FlowOK, NEW do \in {"add", "remove"}, NEW side, side # "terminal", NEW kinds,
         Doing(do, side, kinds)
  PROVE  /\ stack # <<>> /\ Now.do = do /\ Now.do \notin Ends \cup {"finalize", "lift"}
         /\ node \in Nodes /\ node \in Stages /\ Kind[node] \in kinds
<1>1. stack # <<>> /\ Now.do = do /\ Now.at[2] = side /\ Kind[node] \in kinds
  BY DEF Doing
<1>2. PICK s : s = stack
  OBVIOUS
<1>3. IsSeq(s) /\ Len(s) \in Nat /\ Len(s) # 0 /\ \A i \in 1 .. Len(s) : Sound(s[i])
  BY <1>1, <1>2, IsSeqFacts DEF FlowOK, Stacked
<1>4. Now = s[1]
  BY <1>1, <1>2, <1>3, IsSeqTail DEF Now
<1>5. 1 \in 1 .. Len(s)
  BY <1>3
<1>6. Sound(Now)
  BY <1>3, <1>4, <1>5
<1>7. node \in Nodes
  BY <1>1, <1>6 DEF Sound, node
<1> QED
  BY <1>1, <1>7 DEF Ends, Stages

\* The call that is worked off is followed by a script, and memories of this
\* kind only change.
WorksOff(kind) ==
  /\ stack # <<>> /\ Now.do # "refresh"
  /\ \E calls : Script(calls) /\ Then(calls)
  /\ deferred' = deferred
  /\ \A k \in Nodes : Kind[k] # kind => mem'[k] = mem[k]

\* A call to a side of a node changes the memory of that node, or none.
LEMMA NodeStep ==
  ASSUME FlowOK, MemOK, NEW do \in {"add", "remove"}, NEW side, side # "terminal", NEW kind,
         Doing(do, side, {kind}), NEW n, n = node, NEW m,
         (Shape(n, m) /\ mem' = [mem EXCEPT ![n] = m]) \/ mem' = mem,
         NEW calls, Script(calls), Then(calls), deferring' = deferring, deferred' = deferred
  PROVE  MemOK' /\ FlowOK' /\ WorksOff(kind)
<1>1. /\ stack # <<>> /\ Now.do = do /\ Now.do \notin Ends \cup {"finalize", "lift"}
      /\ n \in Nodes /\ Kind[n] = kind
  BY AtNode
<1>2. Now.do \notin Ends \cup {"finalize", "lift", "refresh"}
  BY <1>1 DEF Ends
<1>3. DeferredOK(deferred')
  BY DEF FlowOK
<1>4. FlowOK'
  BY <1>1, <1>3, FlowGoesOn
<1>5. MemOK' /\ \A k \in Nodes : Kind[k] # kind => mem'[k] = mem[k]
  <2>1. CASE mem' = mem
    BY <2>1 DEF MemOK
  <2>2. CASE Shape(n, m) /\ mem' = [mem EXCEPT ![n] = m]
    <3>1. MemOK'
      BY <1>1, <2>2, MemChanged
    <3>2. mem = [k \in Nodes |-> mem[k]]
      BY DEF MemOK
    <3>3. ASSUME NEW k \in Nodes, Kind[k] # kind
          PROVE  mem'[k] = mem[k]
      BY <1>1, <2>2, <3>2, <3>3
    <3> QED
      BY <3>1, <3>3
  <2> QED
    BY <2>1, <2>2
<1> QED
  BY <1>1, <1>2, <1>4, <1>5 DEF WorksOff

\* A token for each member of a set goes along every edge, in some order.
LEMMA EachListed ==
  ASSUME NEW s \in Stages, NEW do \in {"add", "remove"}, NEW S, IsFiniteSet(S),
         NEW rs \in SetToSeqs(S), NEW ts, DOMAIN ts = DOMAIN rs,
         ts = [i \in DOMAIN rs |-> ts[i]]
  PROVE  Script(AlongEach(s, do, ts))
<1>1. IsSeq(rs)
  BY Listed
<1>2. Len(rs) \in Nat /\ DOMAIN rs = 1 .. Len(rs)
  BY <1>1, IsSeqFacts
<1>3. IsSeq(ts)
  BY <1>2, IsSeqMade
<1> QED
  BY <1>3, AlongEachScript

----------------------------------------------------------------------------
\* Joins.

LEMMA JoinLeftStep ==
  ASSUME FlowOK, MemOK, JoinLeft
  PROVE  MemOK' /\ FlowOK' /\ WorksOff("join")
<1>0. Doing("add", "left", {"join"})
  BY DEF JoinLeft
<1>1. node \in Nodes /\ node \in Stages /\ Kind[node] = "join"
  BY <1>0, AtNode
<1>2. PICK n : n = node
  OBVIOUS
<1>3. PICK t : t = Now.token
  OBVIOUS
<1>4. PICK m : m = mem[n]
  OBVIOUS
<1>5. JoinShape(n, m)
  BY <1>1, <1>2, <1>4 DEF MemOK, Shape
<1>6. PICK partners : partners = {r \in m.right : Pairs(n, t, r)}
  OBVIOUS
<1>7. PICK now : now = [left |-> m.left \cup {t}, right |-> m.right,
                        links |-> m.links \cup ({t} \X partners)]
  OBVIOUS
<1>8. /\ mem' = [mem EXCEPT ![n].left = @ \cup {t}, ![n].links = @ \cup ({t} \X partners)]
      /\ \E rs \in SetToSeqs(partners) :
              Then(AlongEach(n, "add", [i \in DOMAIN rs |-> t \o rs[i]]))
      /\ deferring' = deferring /\ deferred' = deferred
  BY <1>2, <1>3, <1>4, <1>6 DEF JoinLeft
<1>9. mem' = [mem EXCEPT ![n] = now]
  <2>1. PICK a, b, c : a = m.left /\ b = m.right /\ c = m.links
    OBVIOUS
  <2>2. m = [left |-> a, right |-> b, links |-> c]
    BY <1>5, <2>1 DEF JoinShape
  <2>3. PICK q : q = [m EXCEPT !.left = @ \cup {t}, !.links = @ \cup ({t} \X partners)]
    OBVIOUS
  <2>4. mem' = [mem EXCEPT ![n] = q]
    BY <1>4, <1>8, <2>3, Zenon
  <2>5. q = [left |-> a \cup {t}, right |-> b, links |-> c \cup ({t} \X partners)]
    BY <2>1, <2>2, <2>3
  <2>6. q = now
    BY <1>7, <2>1, <2>5
  <2> QED
    BY <2>4, <2>6, Zenon
<1>10. Shape(n, now)
  <2>1. now.left = m.left \cup {t} /\ now.right = m.right
        /\ now.links = m.links \cup ({t} \X partners)
        /\ now = [left |-> now.left, right |-> now.right, links |-> now.links]
    BY <1>7
  <2>2. IsFiniteSet(now.left) /\ IsFiniteSet(now.right)
    BY <1>5, <2>1, FS_AddElement DEF JoinShape
  <2>3. now.links = {k \in now.left \X now.right : Pairs(n, k[1], k[2])}
    BY <1>5, <1>6, <2>1 DEF JoinShape
  <2>4. JoinShape(n, now)
    BY <2>1, <2>2, <2>3 DEF JoinShape
  <2> QED
    BY <1>1, <1>2, <2>4 DEF Shape
<1>11. PICK rs \in SetToSeqs(partners) :
          Then(AlongEach(n, "add", [i \in DOMAIN rs |-> t \o rs[i]]))
  BY <1>8
<1>12. IsFiniteSet(partners)
  BY <1>5, <1>6, FS_Subset DEF JoinShape
<1>13. Script(AlongEach(n, "add", [i \in DOMAIN rs |-> t \o rs[i]]))
  <2>1. PICK ts : ts = [i \in DOMAIN rs |-> t \o rs[i]]
    OBVIOUS
  <2> QED
    BY <1>1, <1>2, <1>12, <2>1, EachListed
<1> QED
  BY <1>0, <1>2, <1>8, <1>9, <1>10, <1>11, <1>13, NodeStep

LEMMA JoinRightStep ==
  ASSUME FlowOK, MemOK, JoinRight
  PROVE  MemOK' /\ FlowOK' /\ WorksOff("join")
<1>0. Doing("add", "right", {"join"})
  BY DEF JoinRight
<1>1. node \in Nodes /\ node \in Stages /\ Kind[node] = "join"
  BY <1>0, AtNode
<1>2. PICK n : n = node
  OBVIOUS
<1>3. PICK t : t = Now.token
  OBVIOUS
<1>4. PICK m : m = mem[n]
  OBVIOUS
<1>5. JoinShape(n, m)
  BY <1>1, <1>2, <1>4 DEF MemOK, Shape
<1>6. PICK partners : partners = {l \in m.left : Pairs(n, l, t)}
  OBVIOUS
<1>7. PICK now : now = [left |-> m.left, right |-> m.right \cup {t},
                        links |-> m.links \cup (partners \X {t})]
  OBVIOUS
<1>8. /\ mem' = [mem EXCEPT ![n].right = @ \cup {t}, ![n].links = @ \cup (partners \X {t})]
      /\ \E ls \in SetToSeqs(partners) :
              Then(AlongEach(n, "add", [i \in DOMAIN ls |-> ls[i] \o t]))
      /\ deferring' = deferring /\ deferred' = deferred
  BY <1>2, <1>3, <1>4, <1>6 DEF JoinRight
<1>9. mem' = [mem EXCEPT ![n] = now]
  <2>1. PICK a, b, c : a = m.left /\ b = m.right /\ c = m.links
    OBVIOUS
  <2>2. m = [left |-> a, right |-> b, links |-> c]
    BY <1>5, <2>1 DEF JoinShape
  <2>3. PICK q : q = [m EXCEPT !.right = @ \cup {t}, !.links = @ \cup (partners \X {t})]
    OBVIOUS
  <2>4. mem' = [mem EXCEPT ![n] = q]
    BY <1>4, <1>8, <2>3, Zenon
  <2>5. q = [left |-> a, right |-> b \cup {t}, links |-> c \cup (partners \X {t})]
    BY <2>1, <2>2, <2>3
  <2>6. q = now
    BY <1>7, <2>1, <2>5
  <2> QED
    BY <2>4, <2>6, Zenon
<1>10. Shape(n, now)
  <2>1. now.left = m.left /\ now.right = m.right \cup {t}
        /\ now.links = m.links \cup (partners \X {t})
        /\ now = [left |-> now.left, right |-> now.right, links |-> now.links]
    BY <1>7
  <2>2. IsFiniteSet(now.left) /\ IsFiniteSet(now.right)
    BY <1>5, <2>1, FS_AddElement DEF JoinShape
  <2>3. now.links = {k \in now.left \X now.right : Pairs(n, k[1], k[2])}
    BY <1>5, <1>6, <2>1 DEF JoinShape
  <2>4. JoinShape(n, now)
    BY <2>1, <2>2, <2>3 DEF JoinShape
  <2> QED
    BY <1>1, <1>2, <2>4 DEF Shape
<1>11. PICK ls \in SetToSeqs(partners) :
          Then(AlongEach(n, "add", [i \in DOMAIN ls |-> ls[i] \o t]))
  BY <1>8
<1>12. IsFiniteSet(partners)
  BY <1>5, <1>6, FS_Subset DEF JoinShape
<1>13. Script(AlongEach(n, "add", [i \in DOMAIN ls |-> ls[i] \o t]))
  <2>1. PICK ts : ts = [i \in DOMAIN ls |-> ls[i] \o t]
    OBVIOUS
  <2> QED
    BY <1>1, <1>2, <1>12, <2>1, EachListed
<1> QED
  BY <1>0, <1>2, <1>8, <1>9, <1>10, <1>11, <1>13, NodeStep

LEMMA UnjoinStep ==
  ASSUME FlowOK, MemOK, Unjoin
  PROVE  MemOK' /\ FlowOK' /\ WorksOff("join")
<1>0. PICK side \in {"left", "right"} :
        /\ Doing("remove", side, {"join"})
        /\ LET t == Now.token
               gone == {k \in mem[node].links : k[IF side = "left" THEN 1 ELSE 2] = t}
           IN  /\ mem' = [mem EXCEPT
                    ![node].left = IF side = "left" THEN @ \ {t} ELSE @,
                    ![node].right = IF side = "right" THEN @ \ {t} ELSE @,
                    ![node].links = Unlinked(node, gone)]
               /\ \E ks \in SetToSeqs(gone) :
                    Then(AlongEach(node, "remove", [i \in DOMAIN ks |-> ks[i][1] \o ks[i][2]]))
  BY DEF Unjoin
<1>1. node \in Nodes /\ node \in Stages /\ Kind[node] = "join"
  BY <1>0, AtNode
<1>2. PICK n : n = node
  OBVIOUS
<1>3. PICK t : t = Now.token
  OBVIOUS
<1>4. PICK m : m = mem[n]
  OBVIOUS
<1>5. JoinShape(n, m)
  BY <1>1, <1>2, <1>4 DEF MemOK, Shape
<1>6. PICK gone : gone = {k \in m.links : k[IF side = "left" THEN 1 ELSE 2] = t}
  OBVIOUS
<1>7. PICK x, y : /\ x = IF side = "left" THEN m.left \ {t} ELSE m.left
                  /\ y = IF side = "right" THEN m.right \ {t} ELSE m.right
  OBVIOUS
<1>8. PICK now : now = [left |-> x, right |-> y, links |-> m.links \ gone]
  OBVIOUS
<1>9. /\ mem' = [mem EXCEPT ![n].left = IF side = "left" THEN @ \ {t} ELSE @,
                            ![n].right = IF side = "right" THEN @ \ {t} ELSE @,
                            ![n].links = m.links \ gone]
      /\ \E ks \in SetToSeqs(gone) :
              Then(AlongEach(n, "remove", [i \in DOMAIN ks |-> ks[i][1] \o ks[i][2]]))
  BY <1>0, <1>2, <1>3, <1>4, <1>6 DEF Unlinked
<1>10. mem' = [mem EXCEPT ![n] = now]
  <2>1. PICK a, b, c : a = m.left /\ b = m.right /\ c = m.links
    OBVIOUS
  <2>2. m = [left |-> a, right |-> b, links |-> c]
    BY <1>5, <2>1 DEF JoinShape
  <2>3. PICK q : q = [m EXCEPT !.left = IF side = "left" THEN @ \ {t} ELSE @,
                               !.right = IF side = "right" THEN @ \ {t} ELSE @,
                               !.links = m.links \ gone]
    OBVIOUS
  <2>4. mem' = [mem EXCEPT ![n] = q]
    BY <1>4, <1>9, <2>3, Zenon
  <2>5. PICK z : z = m.links \ gone
    OBVIOUS
  <2>6. q = [m EXCEPT !.left = x, !.right = y, !.links = z]
    BY <1>7, <2>3, <2>5, Zenon
  <2>7. q = [left |-> x, right |-> y, links |-> z]
    BY <2>2, <2>6
  <2>8. q = now
    BY <1>8, <2>5, <2>7
  <2> QED
    BY <2>4, <2>8, Zenon
<1>11. IsFiniteSet(gone)
  <2>1. IsFiniteSet(m.left \X m.right)
    BY <1>5, FS_Product DEF JoinShape
  <2>2. gone \in SUBSET (m.left \X m.right)
    BY <1>5, <1>6 DEF JoinShape
  <2> QED
    BY <2>1, <2>2, FS_Subset
<1>12. Shape(n, now)
  <2>1. /\ now.left = x /\ now.right = y /\ now.links = m.links \ gone
        /\ now = [left |-> now.left, right |-> now.right, links |-> now.links]
    BY <1>8
  <2>2. IsFiniteSet(x) /\ IsFiniteSet(y)
    <3>1. x \in SUBSET m.left /\ y \in SUBSET m.right
      BY <1>7
    <3> QED
      BY <1>5, <3>1, FS_Subset DEF JoinShape
  <2>3. now.links = {k \in x \X y : Pairs(n, k[1], k[2])}
    <3>1. CASE side = "left"
      <4>1. x = m.left \ {t} /\ y = m.right /\ gone = {k \in m.links : k[1] = t}
        BY <1>6, <1>7, <3>1
      <4> QED
        BY <1>5, <2>1, <4>1 DEF JoinShape
    <3>2. CASE side = "right"
      <4>1. x = m.left /\ y = m.right \ {t} /\ gone = {k \in m.links : k[2] = t}
        BY <1>6, <1>7, <3>2
      <4> QED
        BY <1>5, <2>1, <4>1 DEF JoinShape
    <3> QED
      BY <3>1, <3>2
  <2>4. JoinShape(n, now)
    BY <2>1, <2>2, <2>3 DEF JoinShape
  <2> QED
    BY <1>1, <1>2, <2>4 DEF Shape
<1>13. PICK ks \in SetToSeqs(gone) :
          Then(AlongEach(n, "remove", [i \in DOMAIN ks |-> ks[i][1] \o ks[i][2]]))
  BY <1>9
<1>14. Script(AlongEach(n, "remove", [i \in DOMAIN ks |-> ks[i][1] \o ks[i][2]]))
  <2>1. PICK ts : ts = [i \in DOMAIN ks |-> ks[i][1] \o ks[i][2]]
    OBVIOUS
  <2> QED
    BY <1>1, <1>2, <1>11, <2>1, EachListed
<1>15. deferring' = deferring /\ deferred' = deferred
  BY DEF Unjoin
<1> QED
  BY <1>0, <1>2, <1>10, <1>12, <1>13, <1>14, <1>15, NodeStep

----------------------------------------------------------------------------
\* Negative nodes.

\* The blockers of a negative node are counted, and what nothing blocks is shown.
NotExact(n, m) ==
  /\ \A l \in DOMAIN m.blockers :
       m.blockers[l] = Cardinality({r \in m.right : Pairs(n, l, r)})
  /\ m.shown = {l \in DOMAIN m.blockers : m.blockers[l] = 0}

NotsExact == \A n \in Nodes : Kind[n] = "not" => NotExact(n, mem[n])

LEMMA NotKept ==
  ASSUME MemOK, NotsExact, NEW n \in Nodes, Kind[n] = "not", NEW now,
         mem' = [mem EXCEPT ![n] = now], NotExact(n, mem[n]) => NotExact(n, now)
  PROVE  NotsExact'
<1>1. mem = [k \in Nodes |-> mem[k]]
  BY DEF MemOK
<1>2. mem'[n] = now /\ \A k \in Nodes \ {n} : mem'[k] = mem[k]
  BY <1>1
<1>3. \A k \in Nodes : Kind[k] = "not" => NotExact(k, mem'[k])
  BY <1>2 DEF NotsExact
<1> QED
  BY <1>3 DEF NotsExact

LEMMA NotLeftStep ==
  ASSUME FlowOK, MemOK, NotLeft
  PROVE  MemOK' /\ FlowOK' /\ WorksOff("not") /\ (NotsExact => NotsExact')
<1>0. Doing("add", "left", {"not"})
  BY DEF NotLeft
<1>1. node \in Nodes /\ node \in Stages /\ Kind[node] = "not"
  BY <1>0, AtNode
<1>2. PICK n : n = node
  OBVIOUS
<1>3. PICK t : t = Now.token
  OBVIOUS
<1>4. PICK m : m = mem[n]
  OBVIOUS
<1>5. NotShape(m)
  BY <1>1, <1>2, <1>4 DEF MemOK, Shape
<1>6. PICK b : b = Cardinality({r \in m.right : Pairs(n, t, r)})
  OBVIOUS
<1>7. PICK w, v : w = With(m.blockers, t, b) /\ v = IF b = 0 THEN m.shown \cup {t} ELSE m.shown
  OBVIOUS
<1>8. /\ mem' = [mem EXCEPT ![n].blockers = With(@, t, b),
                            ![n].shown = IF b = 0 THEN @ \cup {t} ELSE @]
      /\ Then(IF b = 0 THEN Along(n, "add", t) ELSE <<>>)
      /\ deferring' = deferring /\ deferred' = deferred
  BY <1>2, <1>3, <1>4, <1>6 DEF NotLeft, Blocking
<1>9. PICK now : now = [right |-> m.right, blockers |-> w, shown |-> v]
  OBVIOUS
<1>10. mem' = [mem EXCEPT ![n] = now]
  <2>1. PICK x, y, z : x = m.right /\ y = m.blockers /\ z = m.shown
    OBVIOUS
  <2>2. m = [right |-> x, blockers |-> y, shown |-> z]
    BY <1>5, <2>1 DEF NotShape
  <2>3. PICK q : q = [m EXCEPT !.blockers = With(@, t, b),
                               !.shown = IF b = 0 THEN @ \cup {t} ELSE @]
    OBVIOUS
  <2>4. mem' = [mem EXCEPT ![n] = q]
    BY <1>4, <1>8, <2>3, Zenon
  <2>5. q = [m EXCEPT !.blockers = w, !.shown = v]
    BY <1>7, <2>3, Zenon
  <2>6. q = [right |-> x, blockers |-> w, shown |-> v]
    BY <2>2, <2>5
  <2>7. q = now
    BY <1>9, <2>1, <2>6
  <2> QED
    BY <2>4, <2>7, Zenon
<1>11. now.right = m.right /\ now.blockers = w /\ now.shown = v
  BY <1>9
<1>12. /\ DOMAIN w = DOMAIN m.blockers \cup {t} /\ w[t] = b
       /\ \A l \in DOMAIN m.blockers \ {t} : w[l] = m.blockers[l]
  <2>1. PICK f : f = m.blockers
    OBVIOUS
  <2>2. w = [l \in DOMAIN f \cup {t} |-> IF l = t THEN b ELSE f[l]]
    BY <1>7, <2>1 DEF With
  <2> QED
    BY <2>1, <2>2
<1>13. Shape(n, now)
  <2>1. IsFiniteSet(DOMAIN w)
    BY <1>5, <1>12, FS_AddElement DEF NotShape
  <2>2. v \in SUBSET DOMAIN w
    BY <1>5, <1>7, <1>12 DEF NotShape
  <2>3. now = [right |-> now.right, blockers |-> now.blockers, shown |-> now.shown]
    BY <1>9, <1>11
  <2>4. NotShape(now)
    BY <1>5, <1>11, <1>12, <2>1, <2>2, <2>3 DEF NotShape
  <2> QED
    BY <1>1, <1>2, <2>4 DEF Shape
<1>14. Script(IF b = 0 THEN Along(n, "add", t) ELSE <<>>)
  <2>1. Script(Along(n, "add", t))
    BY <1>1, <1>2, AlongScript
  <2> QED
    BY <2>1, ScriptNone
<1>15. MemOK' /\ FlowOK' /\ WorksOff("not")
  BY <1>0, <1>2, <1>8, <1>10, <1>13, <1>14, NodeStep
<1>16. ASSUME NotExact(n, m)
       PROVE  NotExact(n, now)
  <2>1. ASSUME NEW l \in DOMAIN w
        PROVE  w[l] = Cardinality({r \in m.right : Pairs(n, l, r)})
    <3>1. CASE l = t
      BY <1>6, <1>12, <3>1
    <3>2. CASE l # t
      BY <1>12, <1>16, <2>1, <3>2 DEF NotExact
    <3> QED
      BY <3>1, <3>2
  <2>2. v = {l \in DOMAIN w : w[l] = 0}
    <3>1. ASSUME NEW l \in DOMAIN w
          PROVE  l \in v <=> w[l] = 0
      <4>1. CASE l = t
        <5>1. t \in m.shown => b = 0
          BY <1>6, <1>16 DEF NotExact
        <5> QED
          BY <1>7, <1>12, <4>1, <5>1
      <4>2. CASE l # t
        <5>1. l \in DOMAIN m.blockers /\ w[l] = m.blockers[l]
          BY <1>12, <3>1, <4>2
        <5>2. l \in m.shown <=> m.blockers[l] = 0
          BY <1>16, <5>1 DEF NotExact
        <5> QED
          BY <1>7, <4>2, <5>1, <5>2
      <4> QED
        BY <4>1, <4>2
    <3>2. v \in SUBSET DOMAIN w
      BY <1>5, <1>7, <1>12 DEF NotShape
    <3> QED
      BY <3>1, <3>2
  <2> QED
    BY <1>11, <2>1, <2>2 DEF NotExact
<1>17. NotsExact => NotsExact'
  BY <1>1, <1>2, <1>4, <1>10, <1>16, NotKept
<1> QED
  BY <1>15, <1>17

LEMMA NotRightStep ==
  ASSUME FlowOK, MemOK, NotRight
  PROVE  MemOK' /\ FlowOK' /\ WorksOff("not") /\ (HandsExact /\ NotsExact => NotsExact')
<1>0. Doing("add", "right", {"not"})
  BY DEF NotRight
<1>1. node \in Nodes /\ node \in Stages /\ Kind[node] = "not"
  BY <1>0, AtNode
<1>2. PICK n : n = node
  OBVIOUS
<1>3. PICK t : t = Now.token
  OBVIOUS
<1>4. PICK m : m = mem[n]
  OBVIOUS
<1>5. NotShape(m)
  BY <1>1, <1>2, <1>4 DEF MemOK, Shape
<1>6. PICK blocked : blocked = {l \in {l \in DOMAIN m.blockers : Pairs(n, l, t)} :
                                  m.blockers[l] = 0}
  OBVIOUS
<1>7. PICK w : w = [l \in DOMAIN m.blockers |->
                      m.blockers[l] + IF l \in {k \in DOMAIN m.blockers : Pairs(n, k, t)}
                                      THEN 1 ELSE 0]
  OBVIOUS
<1>8. /\ mem' = [mem EXCEPT ![n].right = @ \cup {t}, ![n].blockers = w,
                            ![n].shown = @ \ blocked]
      /\ \E ls \in SetToSeqs(blocked) : Then(AlongEach(n, "remove", ls))
      /\ deferring' = deferring /\ deferred' = deferred
  <2>1. Counted(n, t, 1) = w
    BY <1>4, <1>7 DEF Counted, Touched
  <2>2. blocked = {l \in Touched(n, t) : mem[n].blockers[l] = 0}
    BY <1>4, <1>6 DEF Touched
  <2> QED
    BY <1>2, <1>3, <2>1, <2>2 DEF NotRight
<1>9. PICK now : now = [right |-> m.right \cup {t}, blockers |-> w, shown |-> m.shown \ blocked]
  OBVIOUS
<1>10. mem' = [mem EXCEPT ![n] = now]
  <2>1. PICK x, y, z : x = m.right /\ y = m.blockers /\ z = m.shown
    OBVIOUS
  <2>2. m = [right |-> x, blockers |-> y, shown |-> z]
    BY <1>5, <2>1 DEF NotShape
  <2>3. PICK q : q = [m EXCEPT !.right = @ \cup {t}, !.blockers = w, !.shown = @ \ blocked]
    OBVIOUS
  <2>4. mem' = [mem EXCEPT ![n] = q]
    BY <1>4, <1>8, <2>3, Zenon
  <2>5. q = [right |-> x \cup {t}, blockers |-> w, shown |-> z \ blocked]
    BY <2>1, <2>2, <2>3
  <2>6. q = now
    BY <1>9, <2>1, <2>5
  <2> QED
    BY <2>4, <2>6, Zenon
<1>11. now.right = m.right \cup {t} /\ now.blockers = w /\ now.shown = m.shown \ blocked
  BY <1>9
<1>12. DOMAIN w = DOMAIN m.blockers
  BY <1>7
<1>13. Shape(n, now)
  <2>1. IsFiniteSet(m.right \cup {t})
    BY <1>5, FS_AddElement DEF NotShape
  <2>2. m.shown \ blocked \in SUBSET DOMAIN w
    BY <1>5, <1>12 DEF NotShape
  <2>3. now = [right |-> now.right, blockers |-> now.blockers, shown |-> now.shown]
    BY <1>9, <1>11
  <2>4. NotShape(now)
    BY <1>5, <1>11, <1>12, <2>1, <2>2, <2>3 DEF NotShape
  <2> QED
    BY <1>1, <1>2, <2>4 DEF Shape
<1>14. PICK ls \in SetToSeqs(blocked) : Then(AlongEach(n, "remove", ls))
  BY <1>8
<1>15. Script(AlongEach(n, "remove", ls))
  <2>1. blocked \in SUBSET DOMAIN m.blockers
    BY <1>6
  <2>2. IsFiniteSet(blocked)
    BY <1>5, <2>1, FS_Subset DEF NotShape
  <2>3. IsSeq(ls)
    BY <2>2, Listed
  <2> QED
    BY <1>1, <1>2, <2>3, AlongEachScript
<1>16. MemOK' /\ FlowOK' /\ WorksOff("not")
  BY <1>0, <1>2, <1>8, <1>10, <1>13, <1>14, <1>15, NodeStep
<1>17. HandsExact => t \notin m.right
  <2>1. stack # <<>> /\ Now.do = "add" /\ Now.at[2] = "right"
    BY <1>0 DEF Doing
  <2> QED
    BY <1>1, <1>2, <1>3, <1>4, <2>1 DEF HandsExact
<1>18. ASSUME NotExact(n, m), t \notin m.right
       PROVE  NotExact(n, now)
  <2>1. ASSUME NEW l \in DOMAIN w
        PROVE  /\ w[l] = Cardinality({r \in m.right \cup {t} : Pairs(n, l, r)})
               /\ l \in m.shown \ blocked <=> w[l] = 0
    <3>1. PICK R : R = {r \in m.right : Pairs(n, l, r)}
      OBVIOUS
    <3>2. IsFiniteSet(R) /\ t \notin R
      <4>1. R \in SUBSET m.right
        BY <3>1
      <4> QED
        BY <1>5, <1>18, <4>1, FS_Subset DEF NotShape
    <3>3. m.blockers[l] = Cardinality(R) /\ Cardinality(R) \in Nat
      BY <1>12, <1>18, <3>1, <3>2, FS_CardinalityType DEF NotExact
    <3>4. l \in m.shown <=> m.blockers[l] = 0
      BY <1>12, <1>18 DEF NotExact
    <3>5. CASE Pairs(n, l, t)
      <4>1. {r \in m.right \cup {t} : Pairs(n, l, r)} = R \cup {t}
        BY <3>1, <3>5
      <4>2. Cardinality(R \cup {t}) = Cardinality(R) + 1
        BY <3>2, FS_AddElement
      <4>3. w[l] = m.blockers[l] + 1
        BY <1>7, <1>12, <3>5
      <4>4. l \in blocked <=> m.blockers[l] = 0
        BY <1>6, <1>12, <3>5
      <4>5. w[l] # 0
        BY <3>3, <4>3
      <4> QED
        BY <3>3, <3>4, <4>1, <4>2, <4>3, <4>4, <4>5
    <3>6. CASE ~ Pairs(n, l, t)
      <4>1. {r \in m.right \cup {t} : Pairs(n, l, r)} = R
        BY <3>1, <3>6
      <4>2. w[l] = m.blockers[l] + 0
        BY <1>7, <1>12, <3>6
      <4>3. w[l] = m.blockers[l]
        BY <3>3, <4>2
      <4>4. l \notin blocked
        BY <1>6, <3>6
      <4> QED
        BY <3>3, <3>4, <4>1, <4>3, <4>4
    <3> QED
      BY <3>5, <3>6
  <2>2. m.shown \in SUBSET DOMAIN w
    BY <1>5, <1>12 DEF NotShape
  <2> QED
    BY <1>11, <2>1, <2>2 DEF NotExact
<1>19. HandsExact /\ NotsExact => NotsExact'
  BY <1>1, <1>2, <1>4, <1>10, <1>17, <1>18, NotKept
<1> QED
  BY <1>16, <1>19

LEMMA UnNotLeftStep ==
  ASSUME FlowOK, MemOK, UnNotLeft
  PROVE  MemOK' /\ FlowOK' /\ WorksOff("not") /\ (NotsExact => NotsExact')
<1>0. Doing("remove", "left", {"not"})
  BY DEF UnNotLeft
<1>1. node \in Nodes /\ node \in Stages /\ Kind[node] = "not"
  BY <1>0, AtNode
<1>2. PICK n : n = node
  OBVIOUS
<1>3. PICK t : t = Now.token
  OBVIOUS
<1>4. PICK m : m = mem[n]
  OBVIOUS
<1>5. NotShape(m)
  BY <1>1, <1>2, <1>4 DEF MemOK, Shape
<1>6. PICK w : w = [l \in DOMAIN m.blockers \ {t} |-> m.blockers[l]]
  OBVIOUS
<1>7. PICK calls : calls = IF t \in m.shown THEN Along(n, "remove", t) ELSE <<>>
  OBVIOUS
<1>8. /\ mem' = [mem EXCEPT ![n].blockers = Without(@, t), ![n].shown = @ \ {t}]
      /\ Then(calls)
      /\ deferring' = deferring /\ deferred' = deferred
  <2>1. calls = IF t \in mem[n].shown THEN Along(n, "remove", t) ELSE <<>>
    BY <1>4, <1>7
  <2> QED
    BY <1>2, <1>3, <2>1 DEF UnNotLeft
<1>9. PICK now : now = [right |-> m.right, blockers |-> w, shown |-> m.shown \ {t}]
  OBVIOUS
<1>10. mem' = [mem EXCEPT ![n] = now]
  <2>1. PICK x, y, z : x = m.right /\ y = m.blockers /\ z = m.shown
    OBVIOUS
  <2>2. m = [right |-> x, blockers |-> y, shown |-> z]
    BY <1>5, <2>1 DEF NotShape
  <2>3. PICK q : q = [m EXCEPT !.blockers = Without(@, t), !.shown = @ \ {t}]
    OBVIOUS
  <2>4. mem' = [mem EXCEPT ![n] = q]
    BY <1>4, <1>8, <2>3, Zenon
  <2>5. Without(m.blockers, t) = w
    BY <1>6 DEF Without
  <2>6. q = [m EXCEPT !.blockers = w, !.shown = @ \ {t}]
    BY <2>3, <2>5, Zenon
  <2>7. q = [right |-> x, blockers |-> w, shown |-> z \ {t}]
    BY <2>1, <2>2, <2>6
  <2>8. q = now
    BY <1>9, <2>1, <2>7
  <2> QED
    BY <2>4, <2>8, Zenon
<1>11. now.right = m.right /\ now.blockers = w /\ now.shown = m.shown \ {t}
  BY <1>9
<1>12. /\ DOMAIN w = DOMAIN m.blockers \ {t}
       /\ \A l \in DOMAIN w : w[l] = m.blockers[l]
  BY <1>6
<1>13. Shape(n, now)
  <2>1. IsFiniteSet(DOMAIN w)
    BY <1>5, <1>12, FS_Subset DEF NotShape
  <2>2. m.shown \ {t} \in SUBSET DOMAIN w
    BY <1>5, <1>12 DEF NotShape
  <2>3. now = [right |-> now.right, blockers |-> now.blockers, shown |-> now.shown]
    BY <1>9, <1>11
  <2>4. NotShape(now)
    BY <1>5, <1>11, <2>1, <2>2, <2>3 DEF NotShape
  <2> QED
    BY <1>1, <1>2, <2>4 DEF Shape
<1>14. Script(calls)
  <2>1. Script(Along(n, "remove", t))
    BY <1>1, <1>2, AlongScript
  <2> QED
    BY <1>7, <2>1, ScriptNone
<1>15. MemOK' /\ FlowOK' /\ WorksOff("not")
  BY <1>0, <1>2, <1>8, <1>10, <1>13, <1>14, NodeStep
<1>16. ASSUME NotExact(n, m)
       PROVE  NotExact(n, now)
  <2>1. \A l \in DOMAIN w : w[l] = Cardinality({r \in m.right : Pairs(n, l, r)})
    BY <1>12, <1>16 DEF NotExact
  <2>2. m.shown \ {t} = {l \in DOMAIN w : w[l] = 0}
    BY <1>12, <1>16 DEF NotExact
  <2> QED
    BY <1>11, <2>1, <2>2 DEF NotExact
<1>17. NotsExact => NotsExact'
  BY <1>1, <1>2, <1>4, <1>10, <1>16, NotKept
<1> QED
  BY <1>15, <1>17

LEMMA UnNotRightStep ==
  ASSUME FlowOK, MemOK, UnNotRight
  PROVE  MemOK' /\ FlowOK' /\ WorksOff("not") /\ (NotsExact => NotsExact')
<1>0. Doing("remove", "right", {"not"})
  BY DEF UnNotRight
<1>1. node \in Nodes /\ node \in Stages /\ Kind[node] = "not"
  BY <1>0, AtNode
<1>2. PICK n : n = node
  OBVIOUS
<1>3. PICK t : t = Now.token
  OBVIOUS
<1>4. PICK m : m = mem[n]
  OBVIOUS
<1>5. NotShape(m)
  BY <1>1, <1>2, <1>4 DEF MemOK, Shape
<1>6. deferring' = deferring /\ deferred' = deferred
  BY DEF UnNotRight
<1>7. CASE t \notin m.right
  <2>1. Then(<<>>) /\ mem' = mem
    BY <1>2, <1>3, <1>4, <1>7 DEF UnNotRight
  <2>2. MemOK' /\ FlowOK' /\ WorksOff("not")
    BY <1>0, <1>2, <1>6, <2>1, ScriptNone, NodeStep
  <2> QED
    BY <2>1, <2>2 DEF NotsExact
<1>8. CASE t \in m.right
  <2>1. PICK freed : freed = {l \in {l \in DOMAIN m.blockers : Pairs(n, l, t)} :
                                m.blockers[l] = 1}
    OBVIOUS
  <2>2. PICK w : w = [l \in DOMAIN m.blockers |->
                        m.blockers[l] + IF l \in {k \in DOMAIN m.blockers : Pairs(n, k, t)}
                                        THEN -1 ELSE 0]
    OBVIOUS
  <2>3. /\ mem' = [mem EXCEPT ![n].right = @ \ {t}, ![n].blockers = w,
                              ![n].shown = @ \cup freed]
        /\ \E ls \in SetToSeqs(freed) : Then(AlongEach(n, "add", ls))
    <3>1. Counted(n, t, -1) = w
      BY <1>4, <2>2 DEF Counted, Touched
    <3>2. Freed(n, t) = freed
      BY <1>4, <2>1 DEF Freed, Touched
    <3>3. t \in mem[n].right
      BY <1>4, <1>8
    <3> QED
      BY <1>2, <1>3, <3>1, <3>2, <3>3 DEF UnNotRight
  <2>4. PICK now : now = [right |-> m.right \ {t}, blockers |-> w, shown |-> m.shown \cup freed]
    OBVIOUS
  <2>5. mem' = [mem EXCEPT ![n] = now]
    <3>1. PICK x, y, z : x = m.right /\ y = m.blockers /\ z = m.shown
      OBVIOUS
    <3>2. m = [right |-> x, blockers |-> y, shown |-> z]
      BY <1>5, <3>1 DEF NotShape
    <3>3. PICK q : q = [m EXCEPT !.right = @ \ {t}, !.blockers = w, !.shown = @ \cup freed]
      OBVIOUS
    <3>4. mem' = [mem EXCEPT ![n] = q]
      BY <1>4, <2>3, <3>3, Zenon
    <3>5. q = [right |-> x \ {t}, blockers |-> w, shown |-> z \cup freed]
      BY <3>1, <3>2, <3>3
    <3>6. q = now
      BY <2>4, <3>1, <3>5
    <3> QED
      BY <3>4, <3>6, Zenon
  <2>6. now.right = m.right \ {t} /\ now.blockers = w /\ now.shown = m.shown \cup freed
    BY <2>4
  <2>7. DOMAIN w = DOMAIN m.blockers
    BY <2>2
  <2>8. freed \in SUBSET DOMAIN w
    BY <2>1, <2>7
  <2>9. Shape(n, now)
    <3>1. IsFiniteSet(m.right \ {t})
      BY <1>5, FS_RemoveElement DEF NotShape
    <3>2. m.shown \cup freed \in SUBSET DOMAIN w
      BY <1>5, <2>7, <2>8 DEF NotShape
    <3>3. now = [right |-> now.right, blockers |-> now.blockers, shown |-> now.shown]
      BY <2>4, <2>6
    <3>4. NotShape(now)
      BY <1>5, <2>6, <2>7, <3>1, <3>2, <3>3 DEF NotShape
    <3> QED
      BY <1>1, <1>2, <3>4 DEF Shape
  <2>10. PICK ls \in SetToSeqs(freed) : Then(AlongEach(n, "add", ls))
    BY <2>3
  <2>11. Script(AlongEach(n, "add", ls))
    <3>1. IsFiniteSet(freed)
      BY <1>5, <2>7, <2>8, FS_Subset DEF NotShape
    <3>2. IsSeq(ls)
      BY <3>1, Listed
    <3> QED
      BY <1>1, <1>2, <3>2, AlongEachScript
  <2>12. MemOK' /\ FlowOK' /\ WorksOff("not")
    BY <1>0, <1>2, <1>6, <2>5, <2>9, <2>10, <2>11, NodeStep
  <2>13. ASSUME NotExact(n, m)
         PROVE  NotExact(n, now)
    <3>1. ASSUME NEW l \in DOMAIN w
          PROVE  /\ w[l] = Cardinality({r \in m.right \ {t} : Pairs(n, l, r)})
                 /\ l \in m.shown \cup freed <=> w[l] = 0
      <4>1. PICK R : R = {r \in m.right : Pairs(n, l, r)}
        OBVIOUS
      <4>2. IsFiniteSet(R)
        <5>1. R \in SUBSET m.right
          BY <4>1
        <5> QED
          BY <1>5, <5>1, FS_Subset DEF NotShape
      <4>3. m.blockers[l] = Cardinality(R) /\ Cardinality(R) \in Nat
        BY <2>7, <2>13, <4>1, <4>2, FS_CardinalityType DEF NotExact
      <4>4. l \in m.shown <=> m.blockers[l] = 0
        BY <2>7, <2>13 DEF NotExact
      <4>5. CASE Pairs(n, l, t)
        <5>1. {r \in m.right \ {t} : Pairs(n, l, r)} = R \ {t}
          BY <4>1, <4>5
        <5>2. t \in R
          BY <1>8, <4>1, <4>5
        <5>3. Cardinality(R \ {t}) = Cardinality(R) - 1 /\ Cardinality(R \ {t}) \in Nat
          BY <4>2, <5>2, FS_RemoveElement, FS_CardinalityType
        <5>4. w[l] = m.blockers[l] - 1
          <6>1. w[l] = m.blockers[l] + (-1)
            BY <2>2, <2>7, <4>5
          <6> QED
            BY <4>3, <6>1
        <5>5. l \in freed <=> m.blockers[l] = 1
          BY <2>1, <2>7, <4>5
        <5> QED
          BY <4>3, <4>4, <5>1, <5>3, <5>4, <5>5
      <4>6. CASE ~ Pairs(n, l, t)
        <5>1. {r \in m.right \ {t} : Pairs(n, l, r)} = R
          BY <4>1, <4>6
        <5>2. w[l] = m.blockers[l] + 0
          BY <2>2, <2>7, <4>6
        <5>3. w[l] = m.blockers[l]
          BY <4>3, <5>2
        <5>4. l \notin freed
          BY <2>1, <4>6
        <5> QED
          BY <4>3, <4>4, <5>1, <5>3, <5>4
      <4> QED
        BY <4>5, <4>6
    <3>2. m.shown \cup freed \in SUBSET DOMAIN w
      BY <1>5, <2>7, <2>8 DEF NotShape
    <3> QED
      BY <2>6, <3>1, <3>2 DEF NotExact
  <2>14. NotsExact => NotsExact'
    BY <1>1, <1>2, <1>4, <2>5, <2>13, NotKept
  <2> QED
    BY <2>12, <2>14
<1> QED
  BY <1>7, <1>8

----------------------------------------------------------------------------
\* Filters and unions: a memory of one part.

LEMMA FilterStep ==
  ASSUME FlowOK, MemOK, Filter \/ Unfilter
  PROVE  MemOK' /\ FlowOK' /\ WorksOff("filter")
<1>0. PICK do \in {"add", "remove"} : Doing(do, "left", {"filter"})
  BY DEF Filter, Unfilter
<1>1. node \in Nodes /\ node \in Stages /\ Kind[node] = "filter"
  BY <1>0, AtNode
<1>2. PICK n : n = node
  OBVIOUS
<1>3. PICK t : t = Now.token
  OBVIOUS
<1>4. PICK m : m = mem[n]
  OBVIOUS
<1>5. m = [left |-> m.left]
  BY <1>1, <1>2, <1>4 DEF MemOK, Shape
<1>6. PICK a : a = m.left
  OBVIOUS
<1>7. m = [left |-> a]
  BY <1>5, <1>6
<1>8. deferring' = deferring /\ deferred' = deferred
  BY DEF Filter, Unfilter
<1>9. PICK q, r : q = [left |-> a \cup {t}] /\ r = [left |-> a \ {t}]
  OBVIOUS
<1>10. Shape(n, q) /\ Shape(n, r)
  BY <1>1, <1>2, <1>9 DEF Shape
<1>11. \E now, calls : /\ (Shape(n, now) /\ mem' = [mem EXCEPT ![n] = now]) \/ mem' = mem
                       /\ Script(calls) /\ Then(calls)
  <2>1. CASE Filter
    <3>1. \/ mem' = [mem EXCEPT ![n].left = @ \cup {t}] /\ Then(Along(n, "add", t))
          \/ Then(<<>>) /\ mem' = mem
      BY <1>2, <1>3, <2>1 DEF Filter
    <3>2. CASE mem' = [mem EXCEPT ![n].left = @ \cup {t}] /\ Then(Along(n, "add", t))
      <4>1. PICK z : z = [m EXCEPT !.left = @ \cup {t}]
        OBVIOUS
      <4>2. mem' = [mem EXCEPT ![n] = z]
        BY <1>4, <3>2, <4>1, Zenon
      <4>3. z = q
        BY <1>6, <1>7, <1>9, <4>1
      <4> QED
        BY <1>1, <1>2, <1>10, <3>2, <4>2, <4>3, AlongScript
    <3> QED
      BY <3>1, <3>2, ScriptNone
  <2>2. CASE Unfilter
    <3>1. \/ mem' = [mem EXCEPT ![n].left = @ \ {t}] /\ Then(Along(n, "remove", t))
          \/ Then(<<>>) /\ mem' = mem
      BY <1>2, <1>3, <2>2 DEF Unfilter
    <3>2. CASE mem' = [mem EXCEPT ![n].left = @ \ {t}] /\ Then(Along(n, "remove", t))
      <4>1. PICK z : z = [m EXCEPT !.left = @ \ {t}]
        OBVIOUS
      <4>2. mem' = [mem EXCEPT ![n] = z]
        BY <1>4, <3>2, <4>1, Zenon
      <4>3. z = r
        BY <1>6, <1>7, <1>9, <4>1
      <4> QED
        BY <1>1, <1>2, <1>10, <3>2, <4>2, <4>3, AlongScript
    <3> QED
      BY <3>1, <3>2, ScriptNone
  <2> QED
    BY <2>1, <2>2
<1> QED
  BY <1>0, <1>2, <1>8, <1>11, NodeStep

LEMMA UnionStep ==
  ASSUME FlowOK, MemOK, Unite \/ Disunite
  PROVE  MemOK' /\ FlowOK' /\ WorksOff("union")
<1>0. PICK do \in {"add", "remove"} : Doing(do, "union", {"union"})
  BY DEF Unite, Disunite
<1>1. node \in Nodes /\ node \in Stages /\ Kind[node] = "union"
  BY <1>0, AtNode
<1>2. PICK n : n = node
  OBVIOUS
<1>3. PICK t : t = Now.token
  OBVIOUS
<1>4. PICK m : m = mem[n]
  OBVIOUS
<1>5. m = [support |-> m.support]
  BY <1>1, <1>2, <1>4 DEF MemOK, Shape
<1>6. PICK a : a = m.support
  OBVIOUS
<1>7. m = [support |-> a]
  BY <1>5, <1>6
<1>8. deferring' = deferring /\ deferred' = deferred
  BY DEF Unite, Disunite
<1>9. PICK bag : mem' = [mem EXCEPT ![n].support = bag]
  <2>1. CASE Unite
    <3>1. mem' = [mem EXCEPT ![n].support = @ (+) SetToBag({t})]
      BY <1>2, <1>3, <2>1 DEF Unite
    <3> QED
      BY <3>1, Zenon
  <2>2. CASE Disunite
    <3>1. mem' = [mem EXCEPT ![n].support = @ (-) SetToBag({t})]
      BY <1>2, <1>3, <2>2 DEF Disunite
    <3> QED
      BY <3>1, Zenon
  <2> QED
    BY <2>1, <2>2
<1>10. PICK now : now = [m EXCEPT !.support = bag]
  OBVIOUS
<1>11. mem' = [mem EXCEPT ![n] = now]
  BY <1>4, <1>9, <1>10, Zenon
<1>12. now = [support |-> bag]
  BY <1>7, <1>10
<1>13. Shape(n, now)
  BY <1>1, <1>2, <1>12 DEF Shape
<1>14. PICK calls : Script(calls) /\ Then(calls)
  <2>1. Script(Along(n, "add", t)) /\ Script(Along(n, "remove", t))
    BY <1>1, <1>2, AlongScript
  <2>2. Then(<<>>) \/ Then(Along(n, "add", t)) \/ Then(Along(n, "remove", t))
    BY <1>2, <1>3 DEF Unite, Disunite
  <2> QED
    BY <2>1, <2>2, ScriptNone
<1> QED
  BY <1>0, <1>2, <1>8, <1>11, <1>13, <1>14, NodeStep

----------------------------------------------------------------------------
\* Accumulators.

\* The maximum of a finite set of integers is there, and is the one member that
\* is not less than another.
LEMMA MaxIs ==
  ASSUME NEW S \in SUBSET Int, NEW x \in S, \A y \in S : x >= y
  PROVE  Max(S) = x
<1>1. Max(S) \in S /\ \A y \in S : Max(S) >= y
  BY DEF Max
<1>2. Max(S) \in Int /\ Max(S) >= x /\ x >= Max(S)
  BY <1>1
<1> QED
  BY <1>2

LEMMA HasMax ==
  ASSUME NEW S \in SUBSET Int, IsFiniteSet(S), S # {}
  PROVE  Max(S) \in S /\ \A y \in S : Max(S) >= y
<1> DEFINE E == {k \in Nat : \A T \in SUBSET Int :
                   IsFiniteSet(T) /\ Cardinality(T) = k + 1 => \E x \in T : \A y \in T : x >= y}
<1>1. 0 \in E
  <2> SUFFICES ASSUME NEW T \in SUBSET Int, IsFiniteSet(T), Cardinality(T) = 0 + 1
               PROVE  \E x \in T : \A y \in T : x >= y
    OBVIOUS
  <2>1. Cardinality(T) = 1
    OBVIOUS
  <2>2. \E x : T = {x}
    BY <2>1, FS_Singleton, Zenon
  <2>3. PICK x : T = {x}
    BY <2>2
  <2> QED
    BY <2>3
<1>2. ASSUME NEW k \in Nat, k \in E
      PROVE  k + 1 \in E
  <2> SUFFICES ASSUME NEW T \in SUBSET Int, IsFiniteSet(T), Cardinality(T) = (k + 1) + 1
               PROVE  \E x \in T : \A y \in T : x >= y
    OBVIOUS
  <2>1. T # {}
    BY FS_EmptySet
  <2>2. PICK z \in T : TRUE
    BY <2>1
  <2>3. IsFiniteSet(T \ {z}) /\ Cardinality(T \ {z}) = k + 1
    BY FS_RemoveElement
  <2>4. PICK x \in T \ {z} : \A y \in T \ {z} : x >= y
    BY <1>2, <2>3
  <2>5. CASE x >= z
    BY <2>4, <2>5
  <2>6. CASE ~ (x >= z)
    <3>1. x \in Int /\ z \in Int /\ z >= x
      BY <2>6
    <3>2. \A y \in T : z >= y
      BY <2>4, <3>1
    <3> QED
      BY <3>2
  <2> QED
    BY <2>5, <2>6
<1>3. Nat \subseteq E
  <2> HIDE DEF E
  <2> QED
    BY <1>1, <1>2, Counting
<1>4. Cardinality(S) \in Nat /\ Cardinality(S) # 0
  BY FS_CardinalityType, FS_EmptySet
<1>5. Cardinality(S) - 1 \in E /\ (Cardinality(S) - 1) + 1 = Cardinality(S)
  BY <1>3, <1>4
<1>6. \E x \in S : \A y \in S : x >= y
  BY <1>5
<1> QED
  BY <1>6 DEF Max

\* What a bucket's inputs add up to.
Amounts(I) == {Amount(t) : t \in I}

LEMMA AmountsMax ==
  ASSUME NEW I, IsFiniteSet(I), I # {}, \A t \in I : Amount(t) \in Int
  PROVE  /\ Amounts(I) \in SUBSET Int /\ Max(Amounts(I)) \in Amounts(I)
         /\ \A y \in Amounts(I) : Max(Amounts(I)) >= y
<1>1. PICK A : A = Amounts(I)
  OBVIOUS
<1>2. A \in SUBSET Int /\ A # {}
  BY <1>1 DEF Amounts
<1>3. [t \in I |-> Amount(t)] \in Surjection(I, A)
  BY <1>1 DEF Amounts, Surjection
<1>4. IsFiniteSet(A)
  BY <1>3, FS_Surjection
<1> QED
  BY <1>1, <1>2, <1>4, HasMax

LEMMA BucketParts ==
  ASSUME NEW n, NEW i, NEW o, IsFiniteSet(i), IsFiniteSet(o),
         "max" \in Specs[n] => \A t \in i : Amount(t) \in Int,
         NEW x, x = IF "max" \in Specs[n] /\ i # {} THEN Max(Amounts(i)) ELSE 0
  PROVE  BucketShape(n, [inputs |-> i, count |-> Cardinality(i), max |-> x, out |-> o])
<1>1. PICK b : b = [inputs |-> i, count |-> Cardinality(i), max |-> x, out |-> o]
  OBVIOUS
<1>2. b.inputs = i /\ b.count = Cardinality(i) /\ b.max = x /\ b.out = o
  BY <1>1
<1>3. b = [inputs |-> b.inputs, count |-> b.count, max |-> b.max, out |-> b.out]
  BY <1>1, <1>2
<1>4. BucketShape(n, b)
  BY <1>2, <1>3 DEF BucketShape, Amounts
<1> QED
  BY <1>1, <1>4

LEMMA GrownShape ==
  ASSUME NEW n, NEW b, BucketShape(n, b), NEW t, t \notin b.inputs, Comparable(n, t)
  PROVE  BucketShape(n, Grown(n, b, t))
<1>1. PICK i, c, x, o : i = b.inputs /\ c = b.count /\ x = b.max /\ o = b.out
  OBVIOUS
<1>2. b = [inputs |-> i, count |-> c, max |-> x, out |-> o]
  BY <1>1 DEF BucketShape
<1>3. /\ IsFiniteSet(i) /\ IsFiniteSet(o) /\ c = Cardinality(i) /\ t \notin i
      /\ "max" \in Specs[n] => \A s \in i : Amount(s) \in Int
      /\ x = IF "max" \in Specs[n] /\ i # {} THEN Max(Amounts(i)) ELSE 0
  BY <1>1 DEF BucketShape, Amounts
<1>4. PICK y : y = Larger(n, b, t)
  OBVIOUS
<1>5. PICK q : q = [b EXCEPT !.inputs = @ \cup {t}, !.count = @ + 1, !.max = y]
  OBVIOUS
<1>6. q = [inputs |-> i \cup {t}, count |-> c + 1, max |-> y, out |-> o]
  BY <1>1, <1>2, <1>5
<1>7. Grown(n, b, t) = q
  BY <1>4, <1>5, Zenon DEF Grown
<1>8. IsFiniteSet(i \cup {t}) /\ Cardinality(i \cup {t}) = c + 1
  BY <1>3, FS_AddElement
<1>9. y = IF "max" \in Specs[n] /\ i \cup {t} # {} THEN Max(Amounts(i \cup {t})) ELSE 0
  <2>1. CASE "max" \notin Specs[n]
    BY <1>1, <1>3, <1>4, <2>1 DEF Larger
  <2>2. CASE "max" \in Specs[n]
    <3>1. Amount(t) \in Int
      BY <2>2 DEF Comparable
    <3>2. PICK A : A = Amounts(i \cup {t})
      OBVIOUS
    <3>3. A \in SUBSET Int /\ A = Amounts(i) \cup {Amount(t)}
      BY <1>3, <2>2, <3>1, <3>2 DEF Amounts
    <3>4. CASE i = {}
      <4>1. c = 0
        BY <1>3, <3>4, FS_EmptySet
      <4>2. y = Amount(t)
        BY <1>1, <1>4, <2>2, <4>1 DEF Larger
      <4>3. A = {Amount(t)}
        BY <3>3, <3>4 DEF Amounts
      <4>4. Max(A) = Amount(t)
        BY <3>1, <3>3, <4>3, MaxIs
      <4> QED
        BY <2>2, <3>2, <4>2, <4>4
    <3>5. CASE i # {}
      <4>1. /\ Amounts(i) \in SUBSET Int /\ x \in Amounts(i)
            /\ \A z \in Amounts(i) : x >= z
        BY <1>3, <2>2, <3>5, AmountsMax
      <4>2. c # 0
        BY <1>3, <3>5, FS_EmptySet
      <4>3. y = IF Amount(t) > x THEN Amount(t) ELSE x
        BY <1>1, <1>4, <2>2, <4>2 DEF Larger
      <4>4. y \in A /\ \A z \in A : y >= z
        BY <3>1, <3>3, <4>1, <4>3
      <4>5. Max(A) = y
        BY <3>3, <4>4, MaxIs
      <4> QED
        BY <2>2, <3>2, <4>5
    <3> QED
      BY <3>4, <3>5
  <2> QED
    BY <2>1, <2>2
<1>10. "max" \in Specs[n] => \A s \in i \cup {t} : Amount(s) \in Int
  BY <1>3 DEF Comparable
<1>11. BucketShape(n, [inputs |-> i \cup {t}, count |-> c + 1, max |-> y, out |-> o])
  BY <1>3, <1>8, <1>9, <1>10, BucketParts
<1> QED
  BY <1>6, <1>7, <1>11

LEMMA ShrunkShape ==
  ASSUME NEW n, NEW b, BucketShape(n, b), NEW t, t \in b.inputs
  PROVE  BucketShape(n, Shrunk(n, b, t))
<1>1. PICK i, c, x, o : i = b.inputs /\ c = b.count /\ x = b.max /\ o = b.out
  OBVIOUS
<1>2. b = [inputs |-> i, count |-> c, max |-> x, out |-> o]
  BY <1>1 DEF BucketShape
<1>3. /\ IsFiniteSet(i) /\ IsFiniteSet(o) /\ c = Cardinality(i) /\ t \in i
      /\ "max" \in Specs[n] => \A s \in i : Amount(s) \in Int
      /\ x = IF "max" \in Specs[n] /\ i # {} THEN Max(Amounts(i)) ELSE 0
  BY <1>1 DEF BucketShape, Amounts
<1>4. PICK j : j = i \ {t}
  OBVIOUS
<1>5. PICK l : l = [b EXCEPT !.inputs = @ \ {t}]
  OBVIOUS
<1>6. l = [inputs |-> j, count |-> c, max |-> x, out |-> o]
  BY <1>1, <1>2, <1>4, <1>5
<1>7. IsFiniteSet(j) /\ Cardinality(j) = c - 1
  BY <1>3, <1>4, FS_RemoveElement
<1>8. "max" \in Specs[n] => \A s \in j : Amount(s) \in Int
  BY <1>3, <1>4
<1>9. CASE Exact(n, b, t)
  <2>1. PICK q : q = [l EXCEPT !.count = @ - 1]
    OBVIOUS
  <2>2. q = [inputs |-> j, count |-> c - 1, max |-> x, out |-> o]
    BY <1>6, <2>1
  <2>3. Shrunk(n, b, t) = q
    BY <1>5, <1>9, <2>1, Zenon DEF Shrunk
  <2>4. x = IF "max" \in Specs[n] /\ j # {} THEN Max(Amounts(j)) ELSE 0
    <3>1. CASE "max" \notin Specs[n]
      BY <1>3, <3>1
    <3>2. CASE "max" \in Specs[n]
      <4>1. Amount(t) # x
        BY <1>1, <1>9, <3>2 DEF Exact
      <4>2. /\ Amounts(i) \in SUBSET Int /\ x \in Amounts(i)
            /\ \A z \in Amounts(i) : x >= z
        BY <1>3, <3>2, AmountsMax
      <4>3. PICK s \in i : x = Amount(s)
        BY <4>2 DEF Amounts
      <4>4. s \in j
        BY <1>4, <4>1, <4>3
      <4>5. x \in Amounts(j) /\ Amounts(j) \in SUBSET Amounts(i)
        BY <1>4, <4>3, <4>4 DEF Amounts
      <4>6. Max(Amounts(j)) = x
        BY <4>2, <4>5, MaxIs
      <4> QED
        BY <3>2, <4>4, <4>6
    <3> QED
      BY <3>1, <3>2
  <2>5. BucketShape(n, [inputs |-> j, count |-> c - 1, max |-> x, out |-> o])
    BY <1>3, <1>7, <1>8, <2>4, BucketParts
  <2> QED
    BY <2>2, <2>3, <2>5
<1>10. CASE ~ Exact(n, b, t)
  <2>1. PICK y : y = IF "max" \in Specs[n] /\ j # {} THEN Max(Amounts(j)) ELSE 0
    OBVIOUS
  <2>2. PICK q : q = [l EXCEPT !.count = Cardinality(j), !.max = y]
    OBVIOUS
  <2>3. q = [inputs |-> j, count |-> Cardinality(j), max |-> y, out |-> o]
    BY <1>6, <2>2
  <2>4. l.inputs = j
    BY <1>6
  <2>5. Rebuilt(n, l) = q
    <3>1. Rebuilt(n, l) = [l EXCEPT !.count = Cardinality(l.inputs),
            !.max = IF "max" \in Specs[n] /\ l.inputs # {}
                    THEN Max({Amount(s) : s \in l.inputs}) ELSE 0]
      BY Zenon DEF Rebuilt
    <3>2. y = IF "max" \in Specs[n] /\ l.inputs # {}
              THEN Max({Amount(s) : s \in l.inputs}) ELSE 0
      BY <2>1, <2>4 DEF Amounts
    <3>3. Cardinality(j) = Cardinality(l.inputs)
      BY <2>4
    <3> QED
      BY <2>2, <3>1, <3>2, <3>3, Zenon
  <2>6. Shrunk(n, b, t) = Rebuilt(n, l)
    BY <1>5, <1>10, Zenon DEF Shrunk
  <2>7. BucketShape(n, [inputs |-> j, count |-> Cardinality(j), max |-> y, out |-> o])
    BY <1>3, <1>7, <1>8, <2>1, BucketParts
  <2> QED
    BY <2>3, <2>5, <2>6, <2>7
<1> QED
  BY <1>9, <1>10

LEMMA OutputShape ==
  ASSUME NEW n, NEW b, BucketShape(n, b), NEW o, IsFiniteSet(o)
  PROVE  /\ BucketShape(n, [b EXCEPT !.out = o])
         /\ [b EXCEPT !.out = o].out = o
         /\ Results(n, [b EXCEPT !.out = o]) = Results(n, b)
<1>1. PICK i, c, x : i = b.inputs /\ c = b.count /\ x = b.max
  OBVIOUS
<1>2. PICK p : p = b.out
  OBVIOUS
<1>3. b = [inputs |-> i, count |-> c, max |-> x, out |-> p]
  BY <1>1, <1>2 DEF BucketShape
<1>4. PICK q : q = [b EXCEPT !.out = o]
  OBVIOUS
<1>5. q = [inputs |-> i, count |-> c, max |-> x, out |-> o]
  BY <1>3, <1>4
<1>6. /\ q.inputs = i /\ q.count = c /\ q.max = x /\ q.out = o
      /\ q = [inputs |-> q.inputs, count |-> q.count, max |-> q.max, out |-> q.out]
  BY <1>5
<1>7. BucketShape(n, q)
  BY <1>1, <1>6 DEF BucketShape
<1>8. Results(n, q) = Results(n, b)
  BY <1>1, <1>6 DEF Results
<1> QED
  BY <1>4, <1>6, <1>7, <1>8

LEMMA NewShape ==
  ASSUME NEW n
  PROVE  BucketShape(n, NewBucket)
<1>1. PICK b : b = NewBucket
  OBVIOUS
<1>2. b = [inputs |-> {}, count |-> 0, max |-> 0, out |-> {}]
  BY <1>1 DEF NewBucket
<1>3. IsFiniteSet({}) /\ Cardinality({}) = 0
  BY FS_EmptySet
<1>4. b.inputs = {} /\ b.count = 0 /\ b.max = 0 /\ b.out = {}
  BY <1>2
<1>5. BucketShape(n, b)
  BY <1>2, <1>3, <1>4 DEF BucketShape
<1> QED
  BY <1>1, <1>5

----------------------------------------------------------------------------
\* Aggregates: the output of a bucket is what its inputs give, or a refresh of it
\* is put off or called for.

Settled(n, p) ==
  mem[n].buckets[p].out = {Valued(p, v) : v \in Results(n, mem[n].buckets[p])}

Awaited(n, p) ==
  \/ <<n, p>> \in deferred
  \/ \E i \in 1 .. Len(stack) :
       stack[i].do = "refresh" /\ stack[i].at[1] = n /\ stack[i].token = p

OutputsDue ==
  \A n \in Nodes : Kind[n] = "aggregate" =>
    \A p \in DOMAIN mem[n].buckets : Settled(n, p) \/ Awaited(n, p)

\* A refresh that is called for or put off stays so until it is done.
LEMMA AwaitedStays ==
  ASSUME FlowOK, stack # <<>>, NEW calls, Script(calls), Then(calls),
         NEW n, NEW p, Awaited(n, p), <<n, p>> \in deferred => Awaited(n, p)',
         ~ (Now.do = "refresh" /\ node = n /\ Now.token = p)
  PROVE  Awaited(n, p)'
<1> SUFFICES ASSUME NEW i \in 1 .. Len(stack), stack[i].do = "refresh",
                    stack[i].at[1] = n, stack[i].token = p
             PROVE  \E j \in 1 .. Len(stack') : /\ stack'[j].do = "refresh"
                                                /\ stack'[j].at[1] = n /\ stack'[j].token = p
  BY DEF Awaited
<1>1. PICK s : s = stack
  OBVIOUS
<1>2. PICK t : t = Tail(s)
  OBVIOUS
<1>3. PICK q : q = calls \o t
  OBVIOUS
<1>4. stack' = q
  BY <1>1, <1>2, <1>3 DEF Then
<1>5. IsSeq(s) /\ Len(s) \in Nat /\ i \in 1 .. Len(s)
  BY <1>1, IsSeqFacts DEF FlowOK, Stacked
<1>6. /\ IsSeq(t) /\ Len(t) = Len(s) - 1 /\ Now = s[1]
      /\ \A k \in 1 .. Len(s) - 1 : t[k] = s[k + 1]
  BY <1>1, <1>2, <1>5, IsSeqTail DEF Now
<1>7. i # 1
  BY <1>1, <1>6 DEF node
<1>8. IsSeq(calls) /\ Len(calls) \in Nat
  BY IsSeqFacts DEF Script, Plain
<1>9. /\ Len(q) = Len(calls) + Len(t)
      /\ \A k \in 1 .. Len(t) : q[Len(calls) + k] = t[k]
  <2>1. PICK c : c = calls
    OBVIOUS
  <2>2. IsSeq(c) /\ IsSeq(t) /\ q = c \o t
    BY <1>3, <1>6, <1>8, <2>1
  <2>3. Len(c \o t) = Len(c) + Len(t) /\ \A k \in 1 .. Len(t) : (c \o t)[Len(c) + k] = t[k]
    BY <2>2, IsSeqConcat
  <2> QED
    BY <2>1, <2>2, <2>3
<1>10. PICK k : k = i - 1
  OBVIOUS
<1>11. k \in 1 .. Len(t) /\ k \in 1 .. Len(s) - 1 /\ k + 1 = i /\ Len(calls) + k \in 1 .. Len(q)
  BY <1>5, <1>6, <1>7, <1>8, <1>9, <1>10
<1>12. t[k] = s[i]
  BY <1>6, <1>11
<1>13. q[Len(calls) + k] = s[i]
  BY <1>9, <1>11, <1>12
<1>14. PICK j : j = Len(calls) + k
  OBVIOUS
<1>15. j \in 1 .. Len(q) /\ q[j] = s[i]
  BY <1>11, <1>13, <1>14
<1> QED
  BY <1>1, <1>4, <1>15

\* Where no aggregate changes, what was due is settled or still due.
LEMMA DueStays ==
  ASSUME FlowOK, OutputsDue, NEW kind, WorksOff(kind), kind # "aggregate"
  PROVE  OutputsDue'
<1>1. PICK calls : Script(calls) /\ Then(calls)
  BY DEF WorksOff
<1>2. stack # <<>> /\ Now.do # "refresh" /\ deferred' = deferred
  BY DEF WorksOff
<1>3. ASSUME NEW n \in Nodes, Kind[n] = "aggregate", NEW p \in DOMAIN mem'[n].buckets
      PROVE  Settled(n, p)' \/ Awaited(n, p)'
  <2>1. mem'[n] = mem[n]
    BY <1>3 DEF WorksOff
  <2>2. Settled(n, p) \/ Awaited(n, p)
    BY <1>3, <2>1 DEF OutputsDue
  <2>3. Settled(n, p) => Settled(n, p)'
    BY <2>1 DEF Settled
  <2>4. ASSUME Awaited(n, p)
        PROVE  Awaited(n, p)'
    <3>1. <<n, p>> \in deferred => Awaited(n, p)'
      BY <1>2 DEF Awaited
    <3> QED
      BY <1>1, <1>2, <2>4, <3>1, AwaitedStays
  <2> QED
    BY <2>2, <2>3, <2>4
<1> QED
  BY <1>3 DEF OutputsDue

\* A refresh is put off or called for.
LEMMA RefreshFlow ==
  ASSUME FlowOK, stack # <<>>, Now.do \notin Ends \cup {"finalize", "lift", "refresh"},
         NEW n \in Nodes, Kind[n] = "aggregate", NEW p, Refresh(n, p), deferring' = deferring
  PROVE  /\ FlowOK' /\ Awaited(n, p)'
         /\ \A k, q : Awaited(k, q) => Awaited(k, q)'
<1>1. PICK c : c = Call("refresh", <<n, "changed">>, p)
  OBVIOUS
<1>2. c.do = "refresh" /\ c.at = <<n, "changed">> /\ c.token = p
  BY <1>1 DEF Call
<1>3. Sound(c) /\ c.do \notin Ends \cup {"defer"}
  BY <1>2 DEF Sound, Calls, Ends
<1>4. Script(<<c>>)
  BY <1>3, ScriptOne
<1>5. /\ deferring => deferred' = deferred \cup {<<n, p>>} /\ Then(<<>>)
      /\ ~ deferring => Then(<<c>>) /\ deferred' = deferred
  BY <1>1 DEF Refresh
<1>6. PICK calls : Script(calls) /\ Then(calls) /\ (~ deferring => calls = <<c>>)
  BY <1>4, <1>5, ScriptNone
<1>7. DeferredOK(deferred')
  <2>1. DeferredOK(deferred)
    BY DEF FlowOK
  <2>2. PICK d : d = <<n, p>>
    OBVIOUS
  <2>3. d = <<d[1], d[2]>> /\ d[1] = n
    BY <2>2
  <2>4. DeferredOK(deferred \cup {d})
    BY <2>1, <2>3, FS_AddElement DEF DeferredOK
  <2> QED
    BY <1>5, <2>1, <2>2, <2>4 DEF FlowOK
<1>8. deferring' \in BOOLEAN
  BY DEF FlowOK
<1>9. FlowOK'
  BY <1>6, <1>7, <1>8, FlowGoesOn
<1>10. Awaited(n, p)'
  <2>1. CASE deferring
    BY <1>5, <2>1 DEF Awaited
  <2>2. CASE ~ deferring
    <3>1. PICK t : t = Tail(stack)
      OBVIOUS
    <3>2. IsSeq(t)
      <4>1. PICK s : s = stack
        OBVIOUS
      <4>2. IsSeq(s) /\ s # <<>>
        BY <4>1 DEF FlowOK, Stacked
      <4> QED
        BY <3>1, <4>1, <4>2, IsSeqTail
    <3>3. IsSeq(<<c>>) /\ Len(<<c>>) = 1 /\ <<c>>[1] = c
      BY Singles
    <3>4. PICK q : q = <<c>> \o t
      OBVIOUS
    <3>5. Len(q) = 1 + Len(t) /\ q[1] = c
      <4>1. 1 \in 1 .. Len(<<c>>)
        BY <3>3
      <4> QED
        BY <3>2, <3>3, <3>4, <4>1, IsSeqConcat
    <3>6. Len(t) \in Nat
      BY <3>2, IsSeqFacts
    <3>7. 1 \in 1 .. Len(q)
      BY <3>5, <3>6
    <3>8. stack' = q
      BY <1>6, <2>2, <3>1, <3>4 DEF Then
    <3> QED
      BY <1>2, <3>5, <3>7, <3>8 DEF Awaited
  <2> QED
    BY <2>1, <2>2
<1>11. ASSUME NEW k, NEW q, Awaited(k, q)
       PROVE  Awaited(k, q)'
  <2>1. <<k, q>> \in deferred => Awaited(k, q)'
    BY <1>5 DEF Awaited, FlowOK
  <2> QED
    BY <1>6, <1>11, <2>1, AwaitedStays
<1> QED
  BY <1>9, <1>10, <1>11

\* A bucket is set: the node's other buckets and the other nodes stay.
LEMMA BucketSet ==
  ASSUME MemOK, NEW n \in Nodes, Kind[n] = "aggregate", NEW p, NEW b, BucketShape(n, b),
         mem' = [mem EXCEPT ![n].buckets = With(@, p, b)]
  PROVE  /\ MemOK' /\ DOMAIN mem'[n].buckets = DOMAIN mem[n].buckets \cup {p}
         /\ mem'[n].buckets[p] = b
         /\ \A q \in DOMAIN mem[n].buckets \ {p} : mem'[n].buckets[q] = mem[n].buckets[q]
         /\ \A k \in Nodes \ {n} : mem'[k] = mem[k]
<1>1. PICK m : m = mem[n]
  OBVIOUS
<1>2. PICK f : f = m.buckets
  OBVIOUS
<1>3. m = [buckets |-> f] /\ \A q \in DOMAIN f : BucketShape(n, f[q])
  BY <1>1, <1>2 DEF MemOK, Shape, AggregateShape
<1>4. PICK g : g = [q \in DOMAIN f \cup {p} |-> IF q = p THEN b ELSE f[q]]
  OBVIOUS
<1>5. PICK now : now = [m EXCEPT !.buckets = With(@, p, b)]
  OBVIOUS
<1>6. mem' = [mem EXCEPT ![n] = now]
  BY <1>1, <1>5, Zenon
<1>7. With(m.buckets, p, b) = g
  BY <1>2, <1>4 DEF With
<1>8. now = [m EXCEPT !.buckets = g]
  BY <1>5, <1>7, Zenon
<1>9. now = [buckets |-> g]
  BY <1>3, <1>8
<1>10. now.buckets = g /\ now = [buckets |-> now.buckets]
  BY <1>9
<1>11. /\ DOMAIN g = DOMAIN f \cup {p} /\ g[p] = b
       /\ \A q \in DOMAIN f \ {p} : g[q] = f[q]
  BY <1>4
<1>12. \A q \in DOMAIN g : BucketShape(n, g[q])
  BY <1>3, <1>11
<1>13. Shape(n, now)
  BY <1>10, <1>12 DEF Shape, AggregateShape
<1>14. MemOK'
  BY <1>6, <1>13, MemChanged
<1>15. mem = [k \in Nodes |-> mem[k]]
  BY DEF MemOK
<1>16. mem'[n] = now /\ \A k \in Nodes \ {n} : mem'[k] = mem[k]
  BY <1>6, <1>15
<1> QED
  BY <1>1, <1>2, <1>10, <1>11, <1>14, <1>16

\* The bucket that a token is for.
LEMMA BucketHas ==
  ASSUME MemOK, NEW n \in Nodes, Kind[n] = "aggregate", NEW p
  PROVE  BucketShape(n, Bucket(n, p))
<1>1. CASE p \in DOMAIN mem[n].buckets
  BY <1>1 DEF MemOK, Shape, AggregateShape, Bucket
<1>2. CASE p \notin DOMAIN mem[n].buckets
  BY <1>2, NewShape DEF Bucket
<1> QED
  BY <1>1, <1>2

Aside == \A k \in Nodes : Kind[k] # "aggregate" => mem'[k] = mem[k]

\* A bucket is set and its refresh is due.
LEMMA DueSet ==
  ASSUME FlowOK, MemOK, stack # <<>>, Now.do \notin Ends \cup {"finalize", "lift", "refresh"},
         NEW n \in Nodes, Kind[n] = "aggregate", NEW p, NEW b, BucketShape(n, b),
         mem' = [mem EXCEPT ![n].buckets = With(@, p, b)], Refresh(n, p),
         deferring' = deferring
  PROVE  MemOK' /\ FlowOK' /\ Aside /\ (OutputsDue => OutputsDue')
<1>1. /\ MemOK' /\ DOMAIN mem'[n].buckets = DOMAIN mem[n].buckets \cup {p}
      /\ \A q \in DOMAIN mem[n].buckets \ {p} : mem'[n].buckets[q] = mem[n].buckets[q]
      /\ \A k \in Nodes \ {n} : mem'[k] = mem[k]
  BY BucketSet
<1>2. /\ FlowOK' /\ Awaited(n, p)'
      /\ \A k, q : Awaited(k, q) => Awaited(k, q)'
  BY RefreshFlow
<1>3. ASSUME OutputsDue, NEW k \in Nodes, Kind[k] = "aggregate",
             NEW q \in DOMAIN mem'[k].buckets
      PROVE  Settled(k, q)' \/ Awaited(k, q)'
  <2>1. CASE k = n /\ q = p
    BY <1>2, <2>1
  <2>2. CASE ~ (k = n /\ q = p)
    <3>1. q \in DOMAIN mem[k].buckets /\ mem'[k].buckets[q] = mem[k].buckets[q]
      BY <1>1, <1>3, <2>2
    <3>2. Settled(k, q) \/ Awaited(k, q)
      BY <1>3, <3>1 DEF OutputsDue
    <3>3. Settled(k, q) => Settled(k, q)'
      BY <3>1 DEF Settled
    <3> QED
      BY <1>2, <3>2, <3>3
  <2> QED
    BY <2>1, <2>2
<1>4. OutputsDue => OutputsDue'
  BY <1>3 DEF OutputsDue
<1>5. Aside
  BY <1>1 DEF Aside
<1> QED
  BY <1>1, <1>2, <1>4, <1>5

\* What was due is settled or still due while no bucket changes.
LEMMA DueIdle ==
  ASSUME FlowOK, MemOK, stack # <<>>, Now.do \notin Ends \cup {"finalize", "lift", "refresh"},
         Then(<<>>), mem' = mem, deferred' = deferred, deferring' = deferring
  PROVE  MemOK' /\ FlowOK' /\ Aside /\ (OutputsDue => OutputsDue')
<1>1. DeferredOK(deferred')
  BY DEF FlowOK
<1>2. FlowOK'
  BY <1>1, ScriptNone, FlowGoesOn
<1>3. MemOK' /\ Aside
  BY DEF MemOK, Aside
<1>4. WorksOff("none")
  BY ScriptNone DEF WorksOff
<1>5. OutputsDue => OutputsDue'
  BY <1>4, DueStays
<1> QED
  BY <1>2, <1>3, <1>5

LEMMA OpenBucketStep ==
  ASSUME FlowOK, MemOK, OpenBucket
  PROVE  MemOK' /\ FlowOK' /\ Aside /\ (OutputsDue => OutputsDue')
<1>0. Doing("add", "outer", {"aggregate"})
  BY DEF OpenBucket
<1>1. /\ stack # <<>> /\ node \in Nodes /\ Kind[node] = "aggregate"
      /\ Now.do \notin Ends \cup {"finalize", "lift", "refresh"}
  BY <1>0, AtNode DEF Ends
<1>2. PICK n : n = node
  OBVIOUS
<1>3. PICK p : p = Outer(n, Now.token)
  OBVIOUS
<1>4. PICK b : b = Bucket(n, p)
  OBVIOUS
<1>5. BucketShape(n, b)
  BY <1>1, <1>2, <1>4, BucketHas
<1>6. /\ mem' = [mem EXCEPT ![n].buckets = With(@, p, b)]
      /\ deferring' = deferring
      /\ IF b.out = {} THEN Refresh(n, p) ELSE Then(<<>>) /\ UNCHANGED deferred
  BY <1>2, <1>3, <1>4 DEF OpenBucket
<1>7. CASE b.out = {}
  BY <1>1, <1>2, <1>5, <1>6, <1>7, DueSet
<1>8. CASE b.out # {}
  <2>1. p \in DOMAIN mem[n].buckets /\ b = mem[n].buckets[p]
    BY <1>4, <1>8 DEF Bucket, NewBucket
  <2>2. /\ MemOK' /\ DOMAIN mem'[n].buckets = DOMAIN mem[n].buckets
        /\ \A q \in DOMAIN mem[n].buckets : mem'[n].buckets[q] = mem[n].buckets[q]
        /\ \A k \in Nodes \ {n} : mem'[k] = mem[k]
    <3>1. n \in Nodes /\ Kind[n] = "aggregate"
      BY <1>1, <1>2
    <3>2. mem' = [mem EXCEPT ![n].buckets = With(@, p, b)]
      BY <1>6
    <3>3. /\ MemOK' /\ DOMAIN mem'[n].buckets = DOMAIN mem[n].buckets \cup {p}
          /\ mem'[n].buckets[p] = b
          /\ \A q \in DOMAIN mem[n].buckets \ {p} : mem'[n].buckets[q] = mem[n].buckets[q]
          /\ \A k \in Nodes \ {n} : mem'[k] = mem[k]
      BY <1>5, <3>1, <3>2, BucketSet
    <3>4. DOMAIN mem'[n].buckets = DOMAIN mem[n].buckets
      BY <2>1, <3>3
    <3>5. \A q \in DOMAIN mem[n].buckets : mem'[n].buckets[q] = mem[n].buckets[q]
      BY <2>1, <3>3
    <3> QED
      BY <3>3, <3>4, <3>5
  <2>3. Then(<<>>) /\ deferred' = deferred
    BY <1>6, <1>8
  <2>4. deferring' = deferring /\ DeferredOK(deferred')
    BY <1>6, <2>3 DEF FlowOK
  <2>5. FlowOK'
    BY <1>1, <2>3, <2>4, ScriptNone, FlowGoesOn
  <2>6. Aside
    BY <1>1, <1>2, <2>2 DEF Aside
  <2>7. ASSUME OutputsDue, NEW k \in Nodes, Kind[k] = "aggregate",
               NEW q \in DOMAIN mem'[k].buckets
        PROVE  Settled(k, q)' \/ Awaited(k, q)'
    <3>1. q \in DOMAIN mem[k].buckets /\ mem'[k].buckets[q] = mem[k].buckets[q]
      BY <1>2, <2>2, <2>7
    <3>2. Settled(k, q) \/ Awaited(k, q)
      BY <2>7, <3>1 DEF OutputsDue
    <3>3. Settled(k, q) => Settled(k, q)'
      BY <3>1 DEF Settled
    <3>4. ASSUME Awaited(k, q)
          PROVE  Awaited(k, q)'
      <4>1. <<k, q>> \in deferred => Awaited(k, q)'
        BY <2>3 DEF Awaited
      <4> QED
        BY <1>1, <2>3, <3>4, <4>1, ScriptNone, AwaitedStays
    <3> QED
      BY <3>2, <3>3, <3>4
  <2>8. OutputsDue => OutputsDue'
    BY <2>7 DEF OutputsDue
  <2> QED
    BY <2>2, <2>5, <2>6, <2>8
<1> QED
  BY <1>7, <1>8

LEMMA InsertInputStep ==
  ASSUME FlowOK, MemOK, InsertInput
  PROVE  MemOK' /\ FlowOK' /\ Aside /\ (OutputsDue => OutputsDue')
<1>0. Doing("add", "input", {"aggregate"})
  BY DEF InsertInput
<1>1. /\ stack # <<>> /\ node \in Nodes /\ Kind[node] = "aggregate"
      /\ Now.do \notin Ends \cup {"finalize", "lift", "refresh"}
  BY <1>0, AtNode DEF Ends
<1>2. PICK n : n = node
  OBVIOUS
<1>3. PICK t : t = Now.token
  OBVIOUS
<1>4. PICK p : p = Outer(n, t)
  OBVIOUS
<1>5. PICK b : b = Bucket(n, p)
  OBVIOUS
<1>6. BucketShape(n, b)
  BY <1>1, <1>2, <1>5, BucketHas
<1>7. /\ deferring' = deferring
      /\ IF t \in b.inputs
         THEN Then(<<>>) /\ mem' = mem /\ deferred' = deferred
         ELSE /\ Comparable(n, t)
              /\ mem' = [mem EXCEPT ![n].buckets = With(@, p, Grown(n, b, t))]
              /\ Refresh(n, p)
  BY <1>2, <1>3, <1>4, <1>5 DEF InsertInput
<1>8. CASE t \in b.inputs
  <2>1. deferring' = deferring
    BY <1>7
  <2> QED
    BY <1>1, <1>7, <1>8, <2>1, DueIdle
<1>9. CASE t \notin b.inputs
  <2>1. BucketShape(n, Grown(n, b, t))
    BY <1>6, <1>7, <1>9, GrownShape
  <2>2. PICK c : c = Grown(n, b, t)
    OBVIOUS
  <2>3. mem' = [mem EXCEPT ![n].buckets = With(@, p, c)] /\ Refresh(n, p)
    BY <1>7, <1>9, <2>2
  <2> QED
    BY <1>1, <1>2, <1>7, <2>1, <2>2, <2>3, DueSet
<1> QED
  BY <1>8, <1>9

LEMMA RemoveInputStep ==
  ASSUME FlowOK, MemOK, RemoveInput
  PROVE  MemOK' /\ FlowOK' /\ Aside /\ (OutputsDue => OutputsDue')
<1>0. Doing("remove", "input", {"aggregate"})
  BY DEF RemoveInput
<1>1. /\ stack # <<>> /\ node \in Nodes /\ Kind[node] = "aggregate"
      /\ Now.do \notin Ends \cup {"finalize", "lift", "refresh"}
  BY <1>0, AtNode DEF Ends
<1>2. PICK n : n = node
  OBVIOUS
<1>3. PICK t : t = Now.token
  OBVIOUS
<1>4. PICK p : p = Outer(n, t)
  OBVIOUS
<1>5. PICK b : b = Bucket(n, p)
  OBVIOUS
<1>6. BucketShape(n, b)
  BY <1>1, <1>2, <1>5, BucketHas
<1>7. /\ deferring' = deferring
      /\ IF t \in b.inputs
         THEN /\ mem' = [mem EXCEPT ![n].buckets = With(@, p, Shrunk(n, b, t))]
              /\ Refresh(n, p)
         ELSE Then(<<>>) /\ mem' = mem /\ deferred' = deferred
  BY <1>2, <1>3, <1>4, <1>5 DEF RemoveInput
<1>8. CASE t \notin b.inputs
  <2>1. deferring' = deferring
    BY <1>7
  <2> QED
    BY <1>1, <1>7, <1>8, <2>1, DueIdle
<1>9. CASE t \in b.inputs
  <2>1. BucketShape(n, Shrunk(n, b, t))
    BY <1>6, <1>9, ShrunkShape
  <2>2. PICK c : c = Shrunk(n, b, t)
    OBVIOUS
  <2>3. mem' = [mem EXCEPT ![n].buckets = With(@, p, c)] /\ Refresh(n, p)
    BY <1>7, <1>9, <2>2
  <2> QED
    BY <1>1, <1>2, <1>7, <2>1, <2>2, <2>3, DueSet
<1> QED
  BY <1>8, <1>9

LEMMA RemoveBucketStep ==
  ASSUME FlowOK, MemOK, RemoveBucket
  PROVE  MemOK' /\ FlowOK' /\ Aside /\ (OutputsDue => OutputsDue')
<1>0. Doing("remove", "outer", {"aggregate"})
  BY DEF RemoveBucket
<1>1. /\ stack # <<>> /\ node \in Nodes /\ node \in Stages /\ Kind[node] = "aggregate"
      /\ Now.do \notin Ends \cup {"finalize", "lift", "refresh"}
  BY <1>0, AtNode DEF Ends
<1>2. PICK n : n = node
  OBVIOUS
<1>3. PICK p : p = Outer(n, Now.token)
  OBVIOUS
<1>4. PICK o : o = Bucket(n, p).out
  OBVIOUS
<1>5. IsFiniteSet(o)
  BY <1>1, <1>2, <1>4, BucketHas DEF BucketShape
<1>6. /\ mem' = [mem EXCEPT ![n].buckets = Without(@, p)]
      /\ Then(AlongEach(n, "remove", SetToSeq(o)))
      /\ deferring' = deferring /\ deferred' = deferred
  BY <1>2, <1>3, <1>4 DEF RemoveBucket
<1>7. Script(AlongEach(n, "remove", SetToSeq(o)))
  <2>1. SetToSeq(o) \in Seq(o)
    BY <1>5, ListedOnce
  <2>2. IsSeq(SetToSeq(o))
    BY <2>1, SeqIsSeq
  <2> QED
    BY <1>1, <1>2, <2>2, AlongEachScript
<1>8. PICK m, f : m = mem[n] /\ f = m.buckets
  OBVIOUS
<1>9. m = [buckets |-> f] /\ \A q \in DOMAIN f : BucketShape(n, f[q])
  BY <1>1, <1>2, <1>8 DEF MemOK, Shape, AggregateShape
<1>10. PICK g : g = [q \in DOMAIN f \ {p} |-> f[q]]
  OBVIOUS
<1>11. PICK now : now = [m EXCEPT !.buckets = Without(@, p)]
  OBVIOUS
<1>12. mem' = [mem EXCEPT ![n] = now]
  BY <1>6, <1>8, <1>11, Zenon
<1>13. Without(m.buckets, p) = g
  BY <1>8, <1>10 DEF Without
<1>14. now = [m EXCEPT !.buckets = g]
  BY <1>11, <1>13, Zenon
<1>15. now = [buckets |-> g]
  BY <1>9, <1>14
<1>16. now.buckets = g /\ now = [buckets |-> now.buckets]
  BY <1>15
<1>17. DOMAIN g = DOMAIN f \ {p} /\ \A q \in DOMAIN g : g[q] = f[q]
  BY <1>10
<1>18. \A q \in DOMAIN g : BucketShape(n, g[q])
  BY <1>9, <1>17
<1>19. Shape(n, now)
  BY <1>1, <1>2, <1>16, <1>18 DEF Shape, AggregateShape
<1>20. MemOK'
  BY <1>1, <1>2, <1>12, <1>19, MemChanged
<1>21. mem = [k \in Nodes |-> mem[k]]
  BY DEF MemOK
<1>22. mem'[n] = now /\ \A k \in Nodes \ {n} : mem'[k] = mem[k]
  BY <1>1, <1>2, <1>12, <1>21
<1>23. Aside
  BY <1>1, <1>2, <1>22 DEF Aside
<1>24. deferring' = deferring /\ DeferredOK(deferred')
  BY <1>6 DEF FlowOK
<1>25. FlowOK'
  BY <1>1, <1>6, <1>7, <1>24, FlowGoesOn
<1>26. ASSUME OutputsDue, NEW k \in Nodes, Kind[k] = "aggregate",
              NEW q \in DOMAIN mem'[k].buckets
       PROVE  Settled(k, q)' \/ Awaited(k, q)'
  <2>1. q \in DOMAIN mem[k].buckets /\ mem'[k].buckets[q] = mem[k].buckets[q]
    BY <1>8, <1>16, <1>17, <1>22, <1>26
  <2>2. Settled(k, q) \/ Awaited(k, q)
    BY <1>26, <2>1 DEF OutputsDue
  <2>3. Settled(k, q) => Settled(k, q)'
    BY <2>1 DEF Settled
  <2>4. ASSUME Awaited(k, q)
        PROVE  Awaited(k, q)'
    <3>1. <<k, q>> \in deferred => Awaited(k, q)'
      BY <1>6 DEF Awaited
    <3> QED
      BY <1>1, <1>6, <1>7, <2>4, <3>1, AwaitedStays
  <2> QED
    BY <2>2, <2>3, <2>4
<1>27. OutputsDue => OutputsDue'
  BY <1>26 DEF OutputsDue
<1> QED
  BY <1>20, <1>23, <1>25, <1>27

----------------------------------------------------------------------------
\* The output of a bucket is refreshed.

LEMMA NowSound ==
  ASSUME FlowOK, stack # <<>>
  PROVE  Sound(Now) /\ (Now.do \in Ends <=> Len(stack) = 1)
<1>1. PICK s : s = stack
  OBVIOUS
<1>2. /\ IsSeq(s) /\ Len(s) \in Nat /\ Len(s) # 0
      /\ \A i \in 1 .. Len(s) : Sound(s[i]) /\ (s[i].do \in Ends <=> i = Len(s))
  BY <1>1, IsSeqFacts DEF FlowOK, Stacked
<1>3. Now = s[1]
  BY <1>1, <1>2, IsSeqTail DEF Now
<1>4. 1 \in 1 .. Len(s)
  BY <1>2
<1> QED
  BY <1>1, <1>2, <1>3, <1>4

\* What is due but for one output, which is settled by now.
LEMMA DueButOne ==
  ASSUME FlowOK, stack # <<>>, NEW calls, Script(calls), Then(calls), deferred' = deferred,
         NEW n, node = n, NEW p, Now.token = p,
         OutputsDue,
         \A k \in Nodes : Kind[k] = "aggregate" =>
           \A q \in DOMAIN mem'[k].buckets :
             \/ k = n /\ q = p /\ Settled(k, q)'
             \/ /\ ~ (k = n /\ q = p) /\ q \in DOMAIN mem[k].buckets
                /\ mem'[k].buckets[q] = mem[k].buckets[q]
  PROVE  OutputsDue'
<1> SUFFICES ASSUME NEW k \in Nodes, Kind[k] = "aggregate", NEW q \in DOMAIN mem'[k].buckets
             PROVE  Settled(k, q)' \/ Awaited(k, q)'
  BY DEF OutputsDue
<1>1. CASE k = n /\ q = p /\ Settled(k, q)'
  BY <1>1
<1>2. CASE /\ ~ (k = n /\ q = p) /\ q \in DOMAIN mem[k].buckets
           /\ mem'[k].buckets[q] = mem[k].buckets[q]
  <2>1. Settled(k, q) \/ Awaited(k, q)
    BY <1>2 DEF OutputsDue
  <2>2. Settled(k, q) => Settled(k, q)'
    BY <1>2 DEF Settled
  <2>3. ASSUME Awaited(k, q)
        PROVE  Awaited(k, q)'
    <3>1. <<k, q>> \in deferred => Awaited(k, q)'
      BY DEF Awaited
    <3>2. ~ (Now.do = "refresh" /\ node = k /\ Now.token = q)
      BY <1>2
    <3> QED
      BY <2>3, <3>1, <3>2, AwaitedStays
  <2> QED
    BY <2>1, <2>2, <2>3
<1> QED
  BY <1>1, <1>2

LEMMA OneResult ==
  ASSUME NEW n, NEW b, NEW p
  PROVE  IsFiniteSet({Valued(p, v) : v \in Results(n, b)})
<1>1. PICK r : r = [count |-> b.count, max |-> b.max]
  OBVIOUS
<1>2. Results(n, b) = {} \/ Results(n, b) = {r}
  BY <1>1 DEF Results
<1>3. IsFiniteSet({}) /\ IsFiniteSet({r})
  BY FS_EmptySet, FS_Singleton
<1>4. IsFiniteSet(Results(n, b))
  BY <1>2, <1>3
<1>5. PICK X : X = Results(n, b)
  OBVIOUS
<1>6. PICK Y : Y = {Valued(p, v) : v \in X}
  OBVIOUS
<1>7. X = {} \/ X = {r}
  BY <1>2, <1>5
<1>8. Y = {} \/ Y = {Valued(p, r)}
  BY <1>6, <1>7
<1>9. IsFiniteSet(Y)
  BY <1>8, FS_EmptySet, FS_Singleton
<1> QED
  BY <1>5, <1>6, <1>9

\* A script that settles at its end what it puts off.
Closing(s) == Script(s) /\ s # <<>> /\ s[Len(s)].do = "finalize"

LEMMA Defering == Plain(<<Defers>>)
<1>1. PICK f : f = Defers
  OBVIOUS
<1>2. f.do = "defer"
  BY <1>1 DEF Defers, Call
<1>3. Sound(f) /\ f.do \notin Ends
  BY <1>2 DEF Sound, Calls, Ends
<1> QED
  BY <1>1, <1>3, PlainOne

\* What is put off is lifted and then settled.
LEMMA PutOffCloses ==
  ASSUME NEW calls, Script(calls)
  PROVE  Closing(PutOff(calls))
<1>1. PICK f, l : f = Finalizes /\ l = Lifts
  OBVIOUS
<1>2. Sound(f) /\ f.do = "finalize" /\ Sound(l) /\ l.do = "lift"
  BY <1>1 DEF Finalizes, Lifts, Call, Sound, Calls
<1>3. PICK t : t = <<l, f>>
  OBVIOUS
<1>4. IsSeq(t) /\ Len(t) = 2 /\ t[1] = l /\ t[2] = f
  <2>1. <<l, f>> \in Seq({l, f})
    OBVIOUS
  <2> QED
    BY <1>3, <2>1, SeqIsSeq
<1>5. Plain(t)
  BY <1>2, <1>4 DEF Plain, Ends
<1>6. PICK s : s = <<Defers>> \o calls
  OBVIOUS
<1>7. Plain(s)
  BY <1>6, Defering, PlainConcat DEF Script
<1>8. PICK q : q = s \o t
  OBVIOUS
<1>9. Plain(q)
  BY <1>5, <1>7, <1>8, PlainConcat
<1>10. PICK m : m = Len(s)
  OBVIOUS
<1>11. m \in Nat /\ Len(q) = m + 2 /\ q[m + 1] = l /\ q[m + 2] = f
  <2>1. IsSeq(s) /\ m \in Nat
    BY <1>7, <1>10, IsSeqFacts DEF Plain
  <2>2. /\ Len(q) = Len(s) + Len(t)
        /\ \A i \in 1 .. Len(t) : q[Len(s) + i] = t[i]
    <3>1. IsSeq(t) /\ IsSeq(s)
      BY <1>4, <2>1
    <3>2. /\ Len(s \o t) = Len(s) + Len(t)
          /\ \A i \in 1 .. Len(t) : (s \o t)[Len(s) + i] = t[i]
      BY <3>1, IsSeqConcat
    <3> QED
      BY <1>8, <3>2
  <2>3. 1 \in 1 .. Len(t) /\ 2 \in 1 .. Len(t)
    BY <1>4
  <2> QED
    BY <1>4, <1>10, <2>1, <2>2, <2>3
<1>12. Lifted(q)
  <2>1. ASSUME NEW i \in 1 .. Len(q), q[i].do = "defer"
        PROVE  m + 1 \in i .. Len(q)
    <3>1. i # m + 2
      BY <1>2, <1>11, <2>1
    <3> QED
      BY <1>11, <3>1
  <2> QED
    BY <1>2, <1>11, <2>1 DEF Lifted
<1>13. q # <<>> /\ q[Len(q)].do = "finalize"
  <2>1. IsSeq(q)
    BY <1>9 DEF Plain
  <2> QED
    BY <1>2, <1>11, <2>1, IsSeqFacts
<1>14. q = PutOff(calls)
  BY <1>1, <1>3, <1>6, <1>8, Zenon DEF PutOff
<1> QED
  BY <1>9, <1>12, <1>13, <1>14 DEF Closing, Script

\* The calls of a refresh: the old output goes, and the new one comes, with the
\* refreshes put off.
LEMMA RefreshScript ==
  ASSUME NEW n \in Stages, NEW old, IsFiniteSet(old), NEW new, IsFiniteSet(new)
  PROVE  Script(AlongEach(n, "remove", SetToSeq(old))
                \o (LET handed == AlongEach(n, "add", SetToSeq(new))
                    IN  IF new = {} \/ deferring THEN handed ELSE PutOff(handed)))
<1>1. PICK a, c : /\ a = AlongEach(n, "remove", SetToSeq(old))
                  /\ c = AlongEach(n, "add", SetToSeq(new))
  OBVIOUS
<1>2. IsSeq(SetToSeq(old)) /\ IsSeq(SetToSeq(new))
  <2>1. SetToSeq(old) \in Seq(old) /\ SetToSeq(new) \in Seq(new)
    BY ListedOnce
  <2> QED
    BY <2>1, SeqIsSeq
<1>3. Script(a) /\ Script(c)
  BY <1>1, <1>2, AlongEachScript
<1>4. PICK z : z = IF new = {} \/ deferring THEN c ELSE PutOff(c)
  OBVIOUS
<1>5. Script(z)
  BY <1>3, <1>4, PutOffCloses DEF Closing
<1>6. Script(a \o z)
  BY <1>3, <1>5, ScriptConcat
<1> QED
  BY <1>1, <1>4, <1>6, Zenon

LEMMA RefreshOutputStep ==
  ASSUME FlowOK, MemOK, RefreshOutput
  PROVE  MemOK' /\ FlowOK' /\ Aside /\ (OutputsDue => OutputsDue')
<1>1. /\ stack # <<>> /\ Now.do = "refresh" /\ Now.do \notin Ends \cup {"finalize", "lift"}
      /\ node \in Nodes /\ node \in Stages /\ Kind[node] = "aggregate"
  <2>1. stack # <<>> /\ Now.do = "refresh"
    BY DEF RefreshOutput
  <2>2. Sound(Now)
    BY <2>1, NowSound
  <2> QED
    BY <2>1, <2>2 DEF Sound, node, Ends, Stages
<1>2. PICK n : n = node
  OBVIOUS
<1>3. PICK p : p = Now.token
  OBVIOUS
<1>4. PICK b : b = Bucket(n, p)
  OBVIOUS
<1>5. PICK new : new = {Valued(p, v) : v \in Results(n, b)}
  OBVIOUS
<1>6. BucketShape(n, b)
  BY <1>1, <1>2, <1>4, BucketHas
<1>7. IsFiniteSet(new) /\ IsFiniteSet(b.out)
  BY <1>5, <1>6, OneResult DEF BucketShape
<1>8. deferring' = deferring /\ deferred' = deferred
  BY DEF RefreshOutput
<1>9. deferring' = deferring /\ DeferredOK(deferred')
  BY <1>8 DEF FlowOK
<1>10. CASE /\ Then(<<>>) /\ mem' = mem
            /\ p \notin DOMAIN mem[n].buckets \/ b.out = new
  <2>1. FlowOK'
    BY <1>1, <1>9, <1>10, ScriptNone, FlowGoesOn
  <2>2. MemOK' /\ Aside
    BY <1>10 DEF MemOK, Aside
  <2>3. ASSUME NEW k \in Nodes, Kind[k] = "aggregate", NEW q \in DOMAIN mem'[k].buckets,
               k = n, q = p
        PROVE  Settled(k, q)'
    <3>1. mem'[n].buckets[p] = b /\ b.out = new
      BY <1>4, <1>10, <2>3 DEF Bucket
    <3> QED
      BY <1>5, <2>3, <3>1 DEF Settled
  <2>4. OutputsDue => OutputsDue'
    BY <1>1, <1>2, <1>3, <1>8, <1>10, <2>3, ScriptNone, DueButOne
  <2> QED
    BY <2>1, <2>2, <2>4
<1>11. CASE /\ p \in DOMAIN mem[n].buckets
            /\ mem' = [mem EXCEPT ![n].buckets[p].out = new]
            /\ Then(AlongEach(n, "remove", SetToSeq(b.out))
                      \o (LET handed == AlongEach(n, "add", SetToSeq(new))
                          IN  IF new = {} \/ deferring THEN handed
                              ELSE PutOff(handed)))
  <2>1. PICK calls : Script(calls) /\ Then(calls)
    BY <1>1, <1>2, <1>7, <1>11, RefreshScript
  <2>2. FlowOK'
    BY <1>1, <1>9, <2>1, FlowGoesOn
  <2>3. PICK c : c = [b EXCEPT !.out = new]
    OBVIOUS
  <2>4. BucketShape(n, c) /\ c.out = new /\ Results(n, c) = Results(n, b)
    BY <1>6, <1>7, <2>3, OutputShape
  <2>5. mem' = [mem EXCEPT ![n].buckets = With(@, p, c)]
    <3>1. PICK m, f : m = mem[n] /\ f = m.buckets
      OBVIOUS
    <3>2. b = f[p] /\ p \in DOMAIN f
      BY <1>4, <1>11, <3>1 DEF Bucket
    <3>3. PICK g : g = [f EXCEPT ![p] = c]
      OBVIOUS
    <3>4. PICK now : now = [m EXCEPT !.buckets = g]
      OBVIOUS
    <3>5. mem' = [mem EXCEPT ![n] = now]
      BY <1>11, <2>3, <3>1, <3>2, <3>3, <3>4, Zenon
    <3>6. With(f, p, c) = g
      <4>1. DOMAIN f \cup {p} = DOMAIN f
        BY <3>2
      <4> QED
        BY <3>3, <4>1 DEF With
    <3> QED
      BY <3>1, <3>4, <3>5, <3>6, Zenon
  <2>6. /\ MemOK' /\ DOMAIN mem'[n].buckets = DOMAIN mem[n].buckets \cup {p}
        /\ mem'[n].buckets[p] = c
        /\ \A q \in DOMAIN mem[n].buckets \ {p} : mem'[n].buckets[q] = mem[n].buckets[q]
        /\ \A k \in Nodes \ {n} : mem'[k] = mem[k]
    <3>1. n \in Nodes /\ Kind[n] = "aggregate"
      BY <1>1, <1>2
    <3> QED
      BY <2>4, <2>5, <3>1, BucketSet
  <2>7. Aside
    BY <1>1, <1>2, <2>6 DEF Aside
  <2>8. Settled(n, p)'
    BY <1>5, <2>4, <2>6 DEF Settled
  <2>9. \A k \in Nodes : Kind[k] = "aggregate" =>
          \A q \in DOMAIN mem'[k].buckets :
            \/ k = n /\ q = p /\ Settled(k, q)'
            \/ /\ ~ (k = n /\ q = p) /\ q \in DOMAIN mem[k].buckets
               /\ mem'[k].buckets[q] = mem[k].buckets[q]
    BY <2>6, <2>8
  <2>10. OutputsDue => OutputsDue'
    BY <1>1, <1>2, <1>3, <1>8, <2>1, <2>9, DueButOne
  <2> QED
    BY <2>2, <2>6, <2>7, <2>10
<1> QED
  BY <1>2, <1>3, <1>4, <1>5, <1>10, <1>11 DEF RefreshOutput

----------------------------------------------------------------------------
\* The calls that settle what was put off, and those that end an event.

\* What was put off is called for.
LEMMA FinalizeStep ==
  ASSUME FlowOK, Finalize
  PROVE  FlowOK' /\ mem' = mem /\ (OutputsDue => OutputsDue')
<1>1. /\ stack # <<>> /\ Now.do = "finalize" /\ mem' = mem
      /\ deferring' = deferring /\ deferred' = {}
  BY DEF Finalize
<1>2. PICK now : now = Now
  OBVIOUS
<1>3. PICK batch \in SetToSeqs(deferred) :
        Then(IF batch = <<>> THEN <<>>
             ELSE [i \in DOMAIN batch |->
                     Call("refresh", <<batch[i][1], "forced">>, batch[i][2])] \o <<now>>)
  BY <1>2 DEF Finalize
<1>4. DeferredOK(deferred)
  BY DEF FlowOK
<1>5. IsSeq(batch) /\ {batch[i] : i \in 1 .. Len(batch)} = deferred
      /\ (deferred = {} <=> batch = <<>>)
  BY <1>4, Listed DEF DeferredOK
<1>6. Len(batch) \in Nat /\ DOMAIN batch = 1 .. Len(batch)
  BY <1>5, IsSeqFacts
<1>7. PICK rs : rs = [i \in 1 .. Len(batch) |->
                        Call("refresh", <<batch[i][1], "forced">>, batch[i][2])]
  OBVIOUS
<1>8. IsSeq(rs) /\ Len(rs) = Len(batch)
  <2>1. DOMAIN rs = 1 .. Len(batch) /\ rs = [i \in 1 .. Len(batch) |-> rs[i]]
    BY <1>7
  <2> QED
    BY <1>6, <2>1, IsSeqMade
<1>9. \A i \in 1 .. Len(batch) :
        /\ rs[i].do = "refresh" /\ rs[i].at[1] = batch[i][1] /\ rs[i].token = batch[i][2]
  BY <1>7 DEF Call
<1>10. Script(rs)
  <2>1. ASSUME NEW i \in 1 .. Len(rs)
        PROVE  Sound(rs[i]) /\ rs[i].do \notin Ends \cup {"defer"}
    <3>1. batch[i] \in deferred
      BY <1>5, <1>8
    <3>2. batch[i][1] \in Nodes /\ Kind[batch[i][1]] = "aggregate"
      BY <1>4, <3>1 DEF DeferredOK
    <3> QED
      BY <1>8, <1>9, <3>2 DEF Sound, Calls, Ends
  <2> QED
    BY <1>8, <2>1 DEF Script, Plain, Lifted
<1>11. Script(<<now>>)
  <2>1. Sound(now) /\ now.do = "finalize"
    BY <1>1, <1>2, NowSound
  <2> QED
    BY <2>1, ScriptOne DEF Ends
<1>12. PICK both : both = rs \o <<now>>
  OBVIOUS
<1>13. /\ Script(both) /\ Len(both) = Len(batch) + 1
       /\ \A i \in 1 .. Len(batch) : both[i] = rs[i]
       /\ both[Len(both)] = now
  <2>1. IsSeq(<<now>>) /\ Len(<<now>>) = 1 /\ <<now>>[1] = now
    BY Singles
  <2>2. PICK last : last = <<now>>
    OBVIOUS
  <2>3. IsSeq(last) /\ Len(last) = 1 /\ last[1] = now /\ Script(last) /\ both = rs \o last
    BY <1>11, <1>12, <2>1, <2>2
  <2>4. /\ Len(rs \o last) = Len(rs) + Len(last)
        /\ \A i \in 1 .. Len(rs) : (rs \o last)[i] = rs[i]
        /\ \A i \in 1 .. Len(last) : (rs \o last)[Len(rs) + i] = last[i]
    <3>1. IsSeq(rs) /\ IsSeq(last)
      BY <1>8, <2>3
    <3> QED
      BY <3>1, IsSeqConcat
  <2>5. Script(rs \o last)
    BY <1>10, <2>3, ScriptConcat
  <2>6. 1 \in 1 .. Len(last)
    BY <2>3
  <2>7. (rs \o last)[Len(rs) + 1] = now
    BY <2>3, <2>4, <2>6
  <2> QED
    BY <1>6, <1>8, <2>3, <2>4, <2>5, <2>7
<1>14. PICK calls : calls = IF batch = <<>> THEN <<>> ELSE both
  OBVIOUS
<1>15. Then(calls)
  BY <1>3, <1>6, <1>7, <1>12, <1>14, Zenon
<1>16. Script(calls) /\ (calls # <<>> => calls[Len(calls)].do = "finalize")
  BY <1>1, <1>2, <1>13, <1>14, ScriptNone
<1>17. /\ Stacked(stack') /\ stack' # <<>>
       /\ \A i \in 2 .. Len(stack) : \E j \in 1 .. Len(stack') : stack'[j] = stack[i]
  <2>1. Stacked(stack) /\ Now.do \notin Ends
    BY <1>1 DEF FlowOK, Ends
  <2> QED
    BY <1>1, <1>15, <1>16, <2>1, StackedThen
<1>18. FlowOK'
  <2>1. DeferredOK(deferred')
    BY <1>1, FS_EmptySet DEF DeferredOK
  <2>2. deferring' => \E j \in 1 .. Len(stack') : stack'[j].do = "lift"
    BY <1>1, <1>17, CallsStay DEF FlowOK
  <2>3. deferring' \in BOOLEAN
    BY <1>1 DEF FlowOK
  <2> QED
    BY <1>1, <1>17, <2>1, <2>2, <2>3 DEF FlowOK
<1>19. ASSUME NEW n, NEW p, <<n, p>> \in deferred
       PROVE  Awaited(n, p)'
  <2>1. PICK i \in 1 .. Len(batch) : batch[i] = <<n, p>>
    BY <1>5, <1>19
  <2>2. batch # <<>>
    BY <1>5, <1>19
  <2>3. Then(both)
    BY <1>14, <1>15, <2>2
  <2>4. PICK t : t = Tail(stack)
    OBVIOUS
  <2>5. stack' = both \o t
    BY <2>3, <2>4 DEF Then
  <2>6. IsSeq(t)
    <3>1. PICK s : s = stack
      OBVIOUS
    <3>2. IsSeq(s) /\ s # <<>>
      BY <1>1, <3>1 DEF FlowOK, Stacked
    <3> QED
      BY <2>4, <3>1, <3>2, IsSeqTail
  <2>7. PICK q : q = both \o t
    OBVIOUS
  <2>8. IsSeq(both) /\ Len(t) \in Nat
    BY <1>13, <2>6, IsSeqFacts DEF Script, Plain
  <2>9. Len(q) = Len(both) + Len(t) /\ \A j \in 1 .. Len(both) : q[j] = both[j]
    BY <2>6, <2>7, <2>8, IsSeqConcat
  <2>10. i \in 1 .. Len(both) /\ i \in 1 .. Len(q)
    BY <1>6, <1>13, <2>8, <2>9
  <2>11. q[i] = rs[i]
    BY <1>13, <2>9, <2>10
  <2>12. q[i].do = "refresh" /\ q[i].at[1] = n /\ q[i].token = p
    BY <1>9, <2>1, <2>11
  <2> QED
    BY <2>5, <2>7, <2>10, <2>12 DEF Awaited
<1>20. ASSUME OutputsDue, NEW n \in Nodes, Kind[n] = "aggregate",
              NEW p \in DOMAIN mem'[n].buckets
       PROVE  Settled(n, p)' \/ Awaited(n, p)'
  <2>1. Settled(n, p) \/ Awaited(n, p)
    BY <1>1, <1>20 DEF OutputsDue
  <2>2. Settled(n, p) => Settled(n, p)'
    BY <1>1 DEF Settled
  <2>3. ASSUME Awaited(n, p)
        PROVE  Awaited(n, p)'
    BY <1>1, <1>15, <1>16, <1>19, <2>3, AwaitedStays
  <2> QED
    BY <2>1, <2>2, <2>3
<1> QED
  BY <1>1, <1>18, <1>20 DEF OutputsDue

\* An action that changes no memory and hands on a script.
LEMMA Memoryless ==
  ASSUME FlowOK, MemOK, stack # <<>>, Now.do \notin Ends \cup {"finalize", "lift", "refresh"},
         NEW calls, Script(calls), Then(calls), mem' = mem, deferred' = deferred,
         deferring' = deferring \/ (Now.do = "defer" /\ deferring' = TRUE)
  PROVE  MemOK' /\ FlowOK' /\ WorksOff("none")
<1>1. DeferredOK(deferred')
  BY DEF FlowOK
<1>2. FlowOK'
  BY <1>1, FlowGoesOn
<1> QED
  BY <1>2 DEF MemOK, WorksOff

LEMMA DeferStep ==
  ASSUME FlowOK, MemOK, Defer
  PROVE  MemOK' /\ FlowOK' /\ WorksOff("none")
<1>1. /\ stack # <<>> /\ Now.do \notin Ends \cup {"finalize", "lift", "refresh"}
      /\ Then(<<>>) /\ mem' = mem /\ deferred' = deferred
      /\ Now.do = "defer" /\ deferring' = TRUE
  BY DEF Defer, Ends
<1> QED
  BY <1>1, ScriptNone, Memoryless

\* What was put off stays so, and has its finalizing call.
LEMMA LiftStep ==
  ASSUME FlowOK, MemOK, Lift
  PROVE  MemOK' /\ FlowOK' /\ WorksOff("none")
<1>1. /\ stack # <<>> /\ Now.do = "lift" /\ Now.do \notin Ends
      /\ Then(<<>>) /\ mem' = mem /\ deferred' = deferred /\ deferring' = FALSE
  BY DEF Lift, Ends
<1>2. /\ Stacked(stack') /\ stack' # <<>>
      /\ \A i \in 2 .. Len(stack) : \E j \in 1 .. Len(stack') : stack'[j] = stack[i]
  BY <1>1, ScriptNone, StackedThen DEF FlowOK
<1>3. deferred' # {} => \E j \in 1 .. Len(stack') : stack'[j].do = "finalize"
  BY <1>1, <1>2, CallsStay DEF FlowOK
<1>4. DeferredOK(deferred')
  BY <1>1 DEF FlowOK
<1>5. FlowOK'
  BY <1>1, <1>2, <1>3, <1>4 DEF FlowOK
<1> QED
  BY <1>1, <1>5, ScriptNone DEF MemOK, WorksOff

LEMMA TerminalStep ==
  ASSUME FlowOK, MemOK, InsertTerminal \/ RemoveTerminal
  PROVE  MemOK' /\ FlowOK' /\ WorksOff("none")
<1>1. /\ stack # <<>> /\ Now.do \notin Ends \cup {"finalize", "lift", "refresh"}
      /\ Then(<<>>) /\ mem' = mem /\ deferred' = deferred /\ deferring' = deferring
  BY DEF InsertTerminal, RemoveTerminal, Ends
<1> QED
  BY <1>1, ScriptNone, Memoryless

\* A fact enters an alpha node, or leaves it.
LEMMA AlphaStep ==
  ASSUME FactsOK, FlowOK, MemOK, EnterAlpha \/ LeaveAlpha
  PROVE  FactsOK' /\ MemOK' /\ FlowOK' /\ WorksOff("none")
<1>1. stack # <<>> /\ Now.do \in {"enter", "leave"}
  BY DEF EnterAlpha, LeaveAlpha
<1>2. node \in Range(Alphas) /\ Now.at[2] \in Ids /\ node \in Stages
  <2>1. Sound(Now)
    BY <1>1, NowSound
  <2> QED
    BY <1>1, <2>1 DEF Sound, node, Stages
<1>3. Now.do \notin Ends \cup {"finalize", "lift", "refresh"}
  BY <1>1 DEF Ends
<1>4. /\ mem' = mem /\ deferred' = deferred /\ deferring' = deferring
      /\ facts' = facts /\ before' = before
  BY DEF EnterAlpha, LeaveAlpha, event
<1>6. PICK f, a : f = Now.at[2] /\ a = node
  OBVIOUS
<1>7. FactsOK'
  <2>1. routes' = [routes EXCEPT ![f] = @ \cup {a}] \/ routes' = [routes EXCEPT ![f] = @ \ {a}]
    BY <1>6 DEF EnterAlpha, LeaveAlpha
  <2>2. routes' \in [Ids -> SUBSET Range(Alphas)]
    BY <1>2, <1>6, <2>1 DEF FactsOK
  <2> QED
    BY <1>4, <2>2 DEF FactsOK, Present
<1>8. PICK calls : Script(calls) /\ Then(calls)
  BY <1>2, AlongScript DEF EnterAlpha, LeaveAlpha
<1> QED
  BY <1>1, <1>3, <1>4, <1>7, <1>8, Memoryless

\* The call that ends an event is the last one.
LEMMA EndStep ==
  ASSUME FactsOK, FlowOK, MemOK, Report \/ Discard
  PROVE  FactsOK' /\ MemOK' /\ FlowOK' /\ mem' = mem /\ (OutputsDue => OutputsDue')
<1>1. /\ stack # <<>> /\ Now.do \in Ends /\ Then(<<>>) /\ mem' = mem /\ routes' = routes
      /\ facts' = facts /\ (before' = facts \/ before' = before)
      /\ deferring' = deferring /\ deferred' = deferred
      /\ added' = EmptyBag /\ removed' = EmptyBag
  BY DEF Report, Discard, event, Ends
<1>2. PICK s : s = stack
  OBVIOUS
<1>3. IsSeq(s) /\ s # <<>> /\ Len(s) = 1 /\ Now = s[1]
  <2>1. IsSeq(s) /\ s # <<>>
    BY <1>1, <1>2 DEF FlowOK, Stacked
  <2>2. Len(s) = 1
    BY <1>1, <1>2, NowSound
  <2> QED
    BY <1>2, <2>1, <2>2, IsSeqTail DEF Now
<1>4. IsSeq(Tail(s)) /\ Len(Tail(s)) = 0
  BY <1>3, IsSeqTail
<1>5. Tail(s) = <<>>
  BY <1>4, IsSeqFacts
<1>6. stack' = <<>>
  <2>1. <<>> \o <<>> = <<>>
    OBVIOUS
  <2> QED
    BY <1>1, <1>2, <1>5, <2>1 DEF Then
<1>7. ~ deferring /\ deferred = {}
  <2>1. \A i \in 1 .. Len(s) : s[i].do \in Ends
    BY <1>1, <1>3
  <2> QED
    BY <1>2, <2>1 DEF FlowOK, Ends
<1>8. Stacked(stack')
  <2>1. IsSeq(<<>>) /\ Len(<<>>) = 0
    BY Singles
  <2>2. PICK q : q = stack'
    OBVIOUS
  <2>3. IsSeq(q) /\ Len(q) = 0
    BY <1>6, <2>1, <2>2
  <2>4. Stacked(q)
    BY <2>3 DEF Stacked, Lifted, Finishes
  <2> QED
    BY <2>2, <2>4
<1>9. FlowOK'
  BY <1>1, <1>7, <1>8 DEF FlowOK
<1>10. FactsOK' /\ MemOK'
  BY <1>1 DEF FactsOK, MemOK, Present
<1>11. ASSUME OutputsDue, NEW n \in Nodes, Kind[n] = "aggregate",
              NEW p \in DOMAIN mem'[n].buckets
       PROVE  Settled(n, p)'
  <2>1. Settled(n, p) \/ Awaited(n, p)
    BY <1>1, <1>11 DEF OutputsDue
  <2>2. ~ Awaited(n, p)
    <3>1. \A i \in 1 .. 1 : s[i].do \in Ends
      BY <1>1, <1>3
    <3> QED
      BY <1>2, <1>3, <1>7, <3>1 DEF Awaited, Ends
  <2> QED
    BY <1>1, <2>1, <2>2 DEF Settled
<1> QED
  BY <1>1, <1>9, <1>10, <1>11 DEF OutputsDue

----------------------------------------------------------------------------
\* Events.

LEMMA StackedEnd ==
  ASSUME NEW s, Closing(s), NEW e, Sound(e), e.do \in Ends
  PROVE  Stacked(s \o <<e>>) /\ s \o <<e>> # <<>>
<1>1. PICK t : t = <<e>>
  OBVIOUS
<1>2. IsSeq(t) /\ Len(t) = 1 /\ t[1] = e
  BY <1>1, Singles
<1>3. IsSeq(s) /\ s # <<>> /\ s[Len(s)].do = "finalize"
  BY DEF Closing, Script, Plain
<1>4. Len(s) \in Nat /\ Len(s) # 0
  BY <1>3, IsSeqFacts
<1>5. PICK q : q = s \o t
  OBVIOUS
<1>6. /\ IsSeq(q) /\ Len(q) = Len(s) + Len(t)
      /\ \A i \in 1 .. Len(s) : q[i] = s[i]
      /\ \A i \in 1 .. Len(t) : q[Len(s) + i] = t[i]
  <2>1. IsSeq(s) /\ IsSeq(t)
    BY <1>2, <1>3
  <2> QED
    BY <1>5, <2>1, IsSeqConcat
<1>7. Len(q) = Len(s) + 1 /\ q[Len(s) + 1] = e /\ q[Len(s)] = s[Len(s)]
  <2>1. 1 \in 1 .. Len(t) /\ Len(s) \in 1 .. Len(s)
    BY <1>2, <1>4
  <2> QED
    BY <1>2, <1>6, <2>1
<1>8. ASSUME NEW i \in 1 .. Len(q)
      PROVE  Sound(q[i]) /\ (q[i].do \in Ends <=> i = Len(q))
  <2>1. CASE i \in 1 .. Len(s)
    <3>1. i # Len(q)
      BY <1>4, <1>7, <2>1
    <3> QED
      BY <1>6, <2>1, <3>1 DEF Closing, Script, Plain
  <2>2. CASE i \notin 1 .. Len(s)
    <3>1. i = Len(s) + 1
      BY <1>4, <1>7, <2>2
    <3> QED
      BY <1>7, <3>1
  <2> QED
    BY <2>1, <2>2
<1>9. Lifted(q)
  <2>1. Lifted(t)
    BY <1>2 DEF Lifted, Ends
  <2>2. Lifted(s)
    BY DEF Closing, Script
  <2> QED
    BY <1>2, <1>3, <1>5, <2>1, <2>2, LiftedConcat
<1>10. Finishes(q)
  <2>1. ASSUME NEW i \in 1 .. Len(q)
        PROVE  i = Len(q) \/ Len(s) \in i .. Len(q)
    BY <1>4, <1>7
  <2>2. q[Len(q)].do \in Ends
    BY <1>7
  <2> QED
    BY <1>3, <1>7, <2>1, <2>2 DEF Finishes
<1>11. q # <<>>
  BY <1>4, <1>6, <1>7, IsSeqFacts
<1>12. Stacked(q)
  BY <1>6, <1>8, <1>9, <1>10 DEF Stacked
<1> QED
  BY <1>1, <1>5, <1>11, <1>12

LEMMA PlainsFlat ==
  ASSUME NEW N \in Nat, NEW ss, DOMAIN ss = 1 .. N, ss = [i \in 1 .. N |-> ss[i]],
         \A i \in 1 .. N : Plain(ss[i])
  PROVE  Plain(FlattenSeq(ss))
<1>1. PICK X : X = UNION {Range(ss[i]) : i \in 1 .. N}
  OBVIOUS
<1>2. PICK Y : Y = Seq(X)
  OBVIOUS
<1>3. \A i \in 1 .. N : ss[i] \in Y
  <2>1. SUFFICES ASSUME NEW i \in 1 .. N
                 PROVE  ss[i] \in Seq(X)
    BY <1>2
  <2>2. ss[i] \in Seq(Range(ss[i]))
    BY DEF Plain, IsSeq
  <2>3. Range(ss[i]) \subseteq X
    BY <1>1
  <2> QED
    BY <2>2, <2>3, SeqMonotonic
<1>4. ss \in [1 .. N -> Y]
  BY <1>3
<1>5. ss \in Seq(Y)
  BY <1>4
<1>6. FlattenSeq(ss) \in Seq(X)
  BY <1>2, <1>5, Flattened
<1>7. ASSUME NEW c \in X
      PROVE  Sound(c) /\ c.do \notin Ends
  <2>1. PICK i \in 1 .. N : c \in Range(ss[i])
    BY <1>1
  <2>2. IsSeq(ss[i])
    BY DEF Plain
  <2>3. DOMAIN ss[i] = 1 .. Len(ss[i])
    BY <2>2, IsSeqFacts
  <2>4. PICK j \in 1 .. Len(ss[i]) : c = ss[i][j]
    BY <2>1, <2>3 DEF Range
  <2> QED
    BY <2>4 DEF Plain
<1> QED
  BY <1>6, <1>7, SeqIsSeq DEF Plain

\* What begins an event: the stack is its calls, and nothing else has moved.
LEMMA EventFlow ==
  ASSUME FlowOK, MemOK, Quiet, NEW s, Closing(s), stack' = s \o <<Reports>>,
         UNCHANGED <<mem, deferring, deferred, added, removed>>
  PROVE  MemOK' /\ FlowOK' /\ mem' = mem /\ (OutputsDue => OutputsDue')
<1>1. PICK e : e = Reports
  OBVIOUS
<1>2. e.do = "report"
  BY <1>1 DEF Reports, Call
<1>3. Sound(e) /\ e.do \in Ends
  BY <1>2 DEF Sound, Calls, Ends
<1>4. PICK q : q = stack'
  OBVIOUS
<1>5. q = s \o <<e>>
  BY <1>1, <1>4
<1>6. Stacked(q) /\ q # <<>>
  BY <1>3, <1>5, StackedEnd
<1>7. Len(stack) = 0
  BY Singles DEF Quiet
<1>8. ~ deferring /\ deferred = {}
  BY <1>7 DEF FlowOK
<1>9. FlowOK'
  BY <1>4, <1>6, <1>8 DEF FlowOK
<1>10. ASSUME OutputsDue, NEW n \in Nodes, Kind[n] = "aggregate",
              NEW p \in DOMAIN mem'[n].buckets
       PROVE  Settled(n, p)'
  <2>1. Settled(n, p) \/ Awaited(n, p)
    BY <1>10 DEF OutputsDue
  <2>2. ~ Awaited(n, p)
    BY <1>7, <1>8 DEF Awaited
  <2> QED
    BY <2>1, <2>2 DEF Settled
<1> QED
  BY <1>9, <1>10 DEF MemOK, OutputsDue

\* One fact has another content.
LEMMA FactChanged ==
  ASSUME FactsOK, NEW f \in Ids, NEW c \in Values \cup {Absent},
         facts' = [facts EXCEPT ![f] = c], before' = facts, routes' = routes
  PROVE  FactsOK'
<1>1. facts' \in [Ids -> Values \cup {Absent}] /\ before' \in [Ids -> Values \cup {Absent}]
  BY DEF FactsOK
<1>2. \A g \in Ids : facts'[g] = IF g = f THEN c ELSE facts[g]
  BY DEF FactsOK
<1>3. Present(facts') \subseteq Present(facts) \cup {f}
  BY <1>2 DEF Present
<1>4. IsFiniteSet(Present(facts) \cup {f})
  BY FS_AddElement DEF FactsOK
<1>5. IsFiniteSet(Present(facts'))
  BY <1>3, <1>4, FS_Subset
<1>6. IsFiniteSet(Present(before'))
  BY DEF FactsOK
<1> QED
  BY <1>1, <1>5, <1>6 DEF FactsOK

LEMMA FactStep ==
  ASSUME FactsOK, MemOK, FlowOK, InsertFact \/ RemoveFact \/ UpdateFact
  PROVE  FactsOK' /\ MemOK' /\ FlowOK' /\ mem' = mem /\ (OutputsDue => OutputsDue')
<1>1. /\ Quiet /\ before' = facts /\ routes' = routes
      /\ UNCHANGED <<mem, deferring, deferred, added, removed>>
  BY DEF InsertFact, RemoveFact, UpdateFact, delta
<1>2. \A f \in Ids : \A c : Script(Entering(f, c)) /\ Script(Leaving(f, c))
  BY AtAlphasScript DEF Entering, Leaving
<1>3. \E f \in Ids, c \in Values \cup {Absent} :
        /\ facts' = [facts EXCEPT ![f] = c]
        /\ \E s : Closing(s) /\ stack' = s \o <<Reports>>
  <2>1. CASE InsertFact
    <3>1. PICK f \in Ids, c \in Values : /\ facts' = [facts EXCEPT ![f] = c]
                                         /\ stack' = Propagate(Entering(f, c))
      BY <2>1 DEF InsertFact
    <3>2. Closing(PutOff(Entering(f, c)))
      BY <1>2, PutOffCloses
    <3> QED
      BY <3>1, <3>2 DEF Propagate
  <2>2. CASE RemoveFact
    <3>1. PICK f \in Ids : /\ facts' = [facts EXCEPT ![f] = Absent]
                           /\ stack' = Propagate(Leaving(f, facts[f]))
      BY <2>2 DEF RemoveFact
    <3>2. Closing(PutOff(Leaving(f, facts[f])))
      BY <1>2, PutOffCloses
    <3> QED
      BY <3>1, <3>2 DEF Propagate
  <2>3. CASE UpdateFact
    <3>1. PICK f \in Ids, c \in Values :
            /\ facts' = [facts EXCEPT ![f] = c]
            /\ stack' = Propagate(Leaving(f, facts[f]) \o Entering(f, c))
      BY <2>3 DEF UpdateFact
    <3>2. Script(Leaving(f, facts[f]) \o Entering(f, c))
      BY <1>2, ScriptConcat
    <3>3. Closing(PutOff(Leaving(f, facts[f]) \o Entering(f, c)))
      BY <3>2, PutOffCloses
    <3> QED
      BY <3>1, <3>3 DEF Propagate
  <2> QED
    BY <2>1, <2>2, <2>3
<1>4. PICK f \in Ids, c \in Values \cup {Absent} : facts' = [facts EXCEPT ![f] = c]
  BY <1>3
<1>5. PICK s : Closing(s) /\ stack' = s \o <<Reports>>
  BY <1>3
<1>6. FactsOK'
  BY <1>1, <1>4, FactChanged
<1>7. MemOK' /\ FlowOK' /\ mem' = mem /\ (OutputsDue => OutputsDue')
  BY <1>1, <1>5, EventFlow
<1> QED
  BY <1>6, <1>7

----------------------------------------------------------------------------
\* From nothing.

LEMMA EmptyShape ==
  ASSUME NEW n \in Nodes
  PROVE  /\ Shape(n, EmptyMemory(n))
         /\ Kind[n] = "aggregate" => DOMAIN EmptyMemory(n).buckets = {}
         /\ Kind[n] = "not" => NotExact(n, EmptyMemory(n))
<1>0. DOMAIN <<>> = {} /\ IsFiniteSet({}) /\ Cardinality({}) = 0
  BY FS_EmptySet
<1>1. PICK m : m = EmptyMemory(n)
  OBVIOUS
<1>2. CASE Kind[n] = "join"
  <2>1. m = [left |-> {}, right |-> {}, links |-> {}]
    BY <1>1, <1>2 DEF EmptyMemory
  <2>2. JoinShape(n, m)
    BY <1>0, <2>1 DEF JoinShape
  <2> QED
    BY <1>1, <1>2, <2>2 DEF Shape
<1>3. CASE Kind[n] = "not"
  <2>1. m = [right |-> {}, blockers |-> <<>>, shown |-> {}]
    BY <1>1, <1>3 DEF EmptyMemory
  <2>2. m.right = {} /\ m.shown = {} /\ m.blockers = <<>>
    BY <2>1
  <2>3. DOMAIN m.blockers = {}
    BY <1>0, <2>2
  <2>4. NotShape(m)
    BY <1>0, <2>1, <2>2, <2>3 DEF NotShape
  <2>5. NotExact(n, m)
    BY <2>2, <2>3 DEF NotExact
  <2> QED
    BY <1>1, <1>3, <2>4, <2>5 DEF Shape
<1>4. CASE Kind[n] = "filter"
  <2>1. m = [left |-> {}]
    BY <1>1, <1>4 DEF EmptyMemory
  <2> QED
    BY <1>1, <1>4, <2>1 DEF Shape
<1>5. CASE Kind[n] = "union"
  <2>1. m = [support |-> EmptyBag]
    BY <1>1, <1>5 DEF EmptyMemory
  <2>2. m = [support |-> m.support]
    BY <2>1
  <2> QED
    BY <1>1, <1>5, <2>2 DEF Shape
<1>6. CASE Kind[n] = "aggregate"
  <2>1. m = [buckets |-> <<>>]
    BY <1>1, <1>6 DEF EmptyMemory
  <2>2. m = [buckets |-> m.buckets] /\ DOMAIN m.buckets = {}
    BY <1>0, <2>1
  <2>3. AggregateShape(n, m)
    BY <2>2 DEF AggregateShape
  <2> QED
    BY <1>1, <1>6, <2>2, <2>3 DEF Shape
<1>7. Kind[n] \in {"join", "not", "filter", "union", "aggregate"}
  BY NetworkAssumption
<1> QED
  BY <1>2, <1>3, <1>4, <1>5, <1>6, <1>7

LEMMA Emptied ==
  ASSUME mem' = [n \in Nodes |-> EmptyMemory(n)]
  PROVE  MemOK' /\ OutputsDue' /\ NotsExact'
<1>1. \A n \in Nodes : mem'[n] = EmptyMemory(n)
  OBVIOUS
<1>2. mem' = [n \in Nodes |-> mem'[n]]
  OBVIOUS
<1>3. MemOK'
  BY <1>1, <1>2, EmptyShape DEF MemOK
<1>4. OutputsDue'
  BY <1>1, EmptyShape DEF OutputsDue
<1>5. NotsExact'
  <2>1. ASSUME NEW n \in Nodes, Kind[n] = "not"
        PROVE  NotExact(n, mem'[n])
    BY <1>1, <2>1, EmptyShape
  <2> QED
    BY <2>1 DEF NotsExact
<1> QED
  BY <1>3, <1>4, <1>5

LEMMA RebuildStep ==
  ASSUME FactsOK, RebuildGraph \/ FailEvent
  PROVE  FactsOK' /\ MemOK' /\ FlowOK' /\ OutputsDue' /\ NotsExact'
<1>1. Cleared /\ before' = before /\ (facts' = facts \/ facts' = before)
  BY DEF RebuildGraph, FailEvent, event
<1>2. FactsOK'
  <2>1. routes' \in [Ids -> SUBSET Range(Alphas)]
    BY <1>1 DEF Cleared
  <2> QED
    BY <1>1, <2>1 DEF FactsOK, Present
<1>3. MemOK' /\ OutputsDue' /\ NotsExact'
  BY <1>1, Emptied DEF Cleared
<1>4. PICK s \in SetToSeqs(Present(facts')), end \in Ends : stack' = Rebuilding(s, end)
  <2>1. CASE RebuildGraph
    <3>1. PICK s \in SetToSeqs(Present(facts)) : stack' = Rebuilding(s, "report")
      BY <2>1 DEF RebuildGraph
    <3>2. facts' = facts
      BY <2>1 DEF RebuildGraph, event
    <3>3. s \in SetToSeqs(Present(facts')) /\ "report" \in Ends
      BY <3>1, <3>2 DEF Ends
    <3> QED
      BY <3>1, <3>3
  <2>2. CASE FailEvent
    <3>1. PICK s \in SetToSeqs(Present(before)) : stack' = Rebuilding(s, "discard")
      BY <2>2 DEF FailEvent
    <3>2. facts' = before
      BY <2>2 DEF FailEvent
    <3>3. s \in SetToSeqs(Present(facts')) /\ "discard" \in Ends
      BY <3>1, <3>2 DEF Ends
    <3> QED
      BY <3>1, <3>3
  <2> QED
    BY <2>1, <2>2
<1>5. PICK F : F = facts'
  OBVIOUS
<1>6. IsFiniteSet(Present(F)) /\ s \in SetToSeqs(Present(F))
  BY <1>2, <1>4, <1>5 DEF FactsOK, Present
<1>7. IsSeq(s) /\ s \in Seq(Present(F))
  BY <1>6, Listed
<1>8. Len(s) \in Nat /\ \A i \in 1 .. Len(s) : s[i] \in Ids
  BY <1>7, SeqIsSeq, IsSeqFacts DEF Present
<1>9. PICK ss : ss = [i \in 1 .. Len(s) |-> Entering(s[i], F[s[i]])]
  OBVIOUS
<1>10. Plain(FlattenSeq(ss))
  <2>1. \A i \in 1 .. Len(s) : Plain(ss[i])
    BY <1>8, <1>9, AtAlphasScript DEF Entering, Script
  <2>2. DOMAIN ss = 1 .. Len(s) /\ ss = [i \in 1 .. Len(s) |-> ss[i]]
    BY <1>9
  <2> QED
    BY <1>8, <2>1, <2>2, PlainsFlat
<1>11. Plain(Along(Root, "add", <<>>))
  BY AlongScript DEF Stages, Script
<1>12. PICK c : c = <<Defers>> \o Along(Root, "add", <<>>) \o FlattenSeq(ss)
  OBVIOUS
<1>13. Plain(c)
  BY <1>10, <1>11, <1>12, Defering, PlainConcat
<1>14. PICK e : e = Call(end, <<>>, <<>>)
  OBVIOUS
<1>15. Sound(e) /\ e.do \in Ends
  <2>1. e.do = end
    BY <1>14 DEF Call
  <2> QED
    BY <2>1 DEF Sound, Calls, Ends
<1>16. PICK q : q = stack'
  OBVIOUS
<1>17. q = c \o <<Finalizes, Lifts, e>>
  BY <1>4, <1>5, <1>9, <1>12, <1>14, <1>16, Zenon DEF Rebuilding
<1>18. Stacked(q) /\ q # <<>>
  BY <1>13, <1>15, <1>17, StackedScript
<1>19. FlowOK'
  <2>1. DeferredOK(deferred') /\ deferred' = {} /\ deferring' = FALSE
    BY <1>1, FS_EmptySet DEF Cleared, DeferredOK
  <2> QED
    BY <1>16, <1>18, <2>1 DEF FlowOK
<1> QED
  BY <1>2, <1>3, <1>19

----------------------------------------------------------------------------
\* The invariant.

LEMMA InitOK == InitNetwork => NetworkInv /\ OutputsDue /\ NotsExact
<1> SUFFICES ASSUME InitNetwork
             PROVE  NetworkInv /\ OutputsDue /\ NotsExact
  OBVIOUS
<1>1. /\ facts = [f \in Ids |-> Absent] /\ before = facts
      /\ routes = [f \in Ids |-> {}]
      /\ mem = [n \in Nodes |-> EmptyMemory(n)]
      /\ stack = <<Defers>> \o Along(Root, "add", <<>>) \o <<Finalizes, Lifts, Reports>>
      /\ deferring = FALSE /\ deferred = {}
      /\ added = EmptyBag /\ removed = EmptyBag
  BY DEF InitNetwork
<1>2. FactsOK
  <2>1. Present(facts) = {}
    BY <1>1 DEF Present
  <2> QED
    BY <1>1, <2>1, FS_EmptySet DEF FactsOK
<1>3. \A n \in Nodes : mem[n] = EmptyMemory(n)
  BY <1>1
<1>4. MemOK
  <2>1. mem = [n \in Nodes |-> mem[n]]
    BY <1>1
  <2> QED
    BY <1>3, <2>1, EmptyShape DEF MemOK
<1>5. OutputsDue
  BY <1>3, EmptyShape DEF OutputsDue
<1>6. NotsExact
  <2>1. ASSUME NEW n \in Nodes, Kind[n] = "not"
        PROVE  NotExact(n, mem[n])
    BY <1>3, <2>1, EmptyShape
  <2> QED
    BY <2>1 DEF NotsExact
<1>7. FlowOK
  <2>1. PICK e : e = Reports
    OBVIOUS
  <2>2. e.do = "report"
    BY <2>1 DEF Reports, Call
  <2>3. Sound(e) /\ e.do \in Ends
    BY <2>2 DEF Sound, Calls, Ends
  <2>4. PICK c : c = <<Defers>> \o Along(Root, "add", <<>>)
    OBVIOUS
  <2>5. Plain(Along(Root, "add", <<>>))
    BY AlongScript DEF Stages, Script
  <2>6. Plain(c)
    BY <2>4, <2>5, Defering, PlainConcat
  <2>7. stack = c \o <<Finalizes, Lifts, e>>
    BY <1>1, <2>1, <2>4, Zenon
  <2>8. PICK q : q = stack
    OBVIOUS
  <2>9. Stacked(q) /\ q # <<>>
    BY <2>3, <2>6, <2>7, <2>8, StackedScript
  <2>10. DeferredOK(deferred)
    BY <1>1, FS_EmptySet DEF DeferredOK
  <2> QED
    BY <1>1, <2>8, <2>9, <2>10 DEF FlowOK
<1> QED
  BY <1>2, <1>4, <1>5, <1>6, <1>7 DEF NetworkInv

\* The facts and routes stay.
LEMMA FactsKept ==
  ASSUME FactsOK, UNCHANGED <<event, routes>>
  PROVE  FactsOK'
BY DEF FactsOK, event, Present

\* The memories of the negative nodes stay.
LEMMA NotsKept ==
  ASSUME NotsExact, \A k \in Nodes : Kind[k] = "not" => mem'[k] = mem[k]
  PROVE  NotsExact'
<1>1. ASSUME NEW n \in Nodes, Kind[n] = "not"
      PROVE  NotExact(n, mem'[n])
  BY <1>1 DEF NotsExact
<1> QED
  BY <1>1 DEF NotsExact

\* What a step leaves as it was.
Keeps ==
  /\ FactsOK' /\ MemOK' /\ FlowOK'
  /\ OutputsDue => OutputsDue'
  /\ HandsExact /\ NotsExact => NotsExact'

LEMMA KeepsWorksOff ==
  ASSUME FlowOK, FactsOK', MemOK', FlowOK', NEW kind, WorksOff(kind),
         kind \notin {"aggregate", "not"}
  PROVE  Keeps
<1>1. OutputsDue => OutputsDue'
  BY DueStays
<1>2. \A k \in Nodes : Kind[k] = "not" => mem'[k] = mem[k]
  BY DEF WorksOff
<1>3. NotsExact => NotsExact'
  BY <1>2, NotsKept
<1> QED
  BY <1>1, <1>3 DEF Keeps

LEMMA KeepsAside ==
  ASSUME FactsOK', MemOK', FlowOK', Aside, OutputsDue => OutputsDue'
  PROVE  Keeps
<1>1. \A k \in Nodes : Kind[k] = "not" => mem'[k] = mem[k]
  BY DEF Aside
<1>2. NotsExact => NotsExact'
  BY <1>1, NotsKept
<1> QED
  BY <1>2 DEF Keeps

LEMMA NetworkStep ==
  ASSUME NetworkInv, [NextNetwork]_networkVars
  PROVE  Keeps
<1>1. FactsOK /\ MemOK /\ FlowOK
  BY DEF NetworkInv
<1>2. CASE InsertFact \/ RemoveFact \/ UpdateFact
  <2>1. FactsOK' /\ MemOK' /\ FlowOK' /\ mem' = mem /\ (OutputsDue => OutputsDue')
    BY <1>1, <1>2, FactStep
  <2> QED
    BY <2>1, KeepsAside DEF Aside
<1>3. CASE RebuildGraph \/ FailEvent
  <2>1. FactsOK' /\ MemOK' /\ FlowOK' /\ OutputsDue' /\ NotsExact'
    BY <1>1, <1>3, RebuildStep
  <2> QED
    BY <2>1 DEF Keeps
<1>4. CASE EnterAlpha \/ LeaveAlpha
  <2>1. FactsOK' /\ MemOK' /\ FlowOK' /\ WorksOff("none")
    BY <1>1, <1>4, AlphaStep
  <2> QED
    BY <1>1, <2>1, KeepsWorksOff
<1>5. CASE JoinLeft \/ JoinRight \/ Unjoin
  <2>1. UNCHANGED <<event, routes>>
    BY <1>5 DEF JoinLeft, JoinRight, Unjoin
  <2>2. MemOK' /\ FlowOK' /\ WorksOff("join")
    BY <1>1, <1>5, JoinLeftStep, JoinRightStep, UnjoinStep
  <2> QED
    BY <1>1, <2>1, <2>2, FactsKept, KeepsWorksOff
<1>6. CASE NotLeft \/ NotRight \/ UnNotLeft \/ UnNotRight
  <2>1. UNCHANGED <<event, routes>>
    BY <1>6 DEF NotLeft, NotRight, UnNotLeft, UnNotRight
  <2>2. MemOK' /\ FlowOK' /\ WorksOff("not") /\ (HandsExact /\ NotsExact => NotsExact')
    BY <1>1, <1>6, NotLeftStep, NotRightStep, UnNotLeftStep, UnNotRightStep
  <2>3. OutputsDue => OutputsDue'
    BY <1>1, <2>2, DueStays
  <2>4. FactsOK'
    BY <1>1, <2>1, FactsKept
  <2> QED
    BY <2>2, <2>3, <2>4 DEF Keeps
<1>7. CASE Filter \/ Unfilter
  <2>1. UNCHANGED <<event, routes>>
    BY <1>7 DEF Filter, Unfilter
  <2>2. MemOK' /\ FlowOK' /\ WorksOff("filter")
    BY <1>1, <1>7, FilterStep
  <2> QED
    BY <1>1, <2>1, <2>2, FactsKept, KeepsWorksOff
<1>8. CASE Unite \/ Disunite
  <2>1. UNCHANGED <<event, routes>>
    BY <1>8 DEF Unite, Disunite
  <2>2. MemOK' /\ FlowOK' /\ WorksOff("union")
    BY <1>1, <1>8, UnionStep
  <2> QED
    BY <1>1, <2>1, <2>2, FactsKept, KeepsWorksOff
<1>9. CASE OpenBucket \/ RemoveBucket \/ InsertInput \/ RemoveInput \/ RefreshOutput
  <2>1. UNCHANGED <<event, routes>>
    BY <1>9 DEF OpenBucket, RemoveBucket, InsertInput, RemoveInput, RefreshOutput
  <2>2. MemOK' /\ FlowOK' /\ Aside /\ (OutputsDue => OutputsDue')
    BY <1>1, <1>9, OpenBucketStep, RemoveBucketStep, InsertInputStep, RemoveInputStep,
       RefreshOutputStep
  <2> QED
    BY <1>1, <2>1, <2>2, FactsKept, KeepsAside
<1>10. CASE Defer \/ Lift \/ InsertTerminal \/ RemoveTerminal
  <2>1. UNCHANGED <<event, routes>>
    BY <1>10 DEF Defer, Lift, InsertTerminal, RemoveTerminal
  <2>2. MemOK' /\ FlowOK' /\ WorksOff("none")
    BY <1>1, <1>10, DeferStep, LiftStep, TerminalStep
  <2> QED
    BY <1>1, <2>1, <2>2, FactsKept, KeepsWorksOff
<1>11. CASE Finalize
  <2>1. UNCHANGED <<event, routes>>
    BY <1>11 DEF Finalize
  <2>2. FlowOK' /\ mem' = mem /\ (OutputsDue => OutputsDue')
    BY <1>1, <1>11, FinalizeStep
  <2>3. MemOK' /\ Aside
    BY <1>1, <2>2 DEF MemOK, Aside
  <2> QED
    BY <1>1, <2>1, <2>2, <2>3, FactsKept, KeepsAside
<1>12. CASE Report \/ Discard
  <2>1. FactsOK' /\ MemOK' /\ FlowOK' /\ mem' = mem /\ (OutputsDue => OutputsDue')
    BY <1>1, <1>12, EndStep
  <2> QED
    BY <2>1, KeepsAside DEF Aside
<1>13. CASE UNCHANGED networkVars
  <2>1. /\ facts' = facts /\ before' = before /\ routes' = routes /\ mem' = mem
        /\ stack' = stack /\ deferring' = deferring /\ deferred' = deferred
        /\ added' = added /\ removed' = removed
    BY <1>13 DEF networkVars, event, delta
  <2>2. FactsOK' /\ MemOK'
    BY <1>1, <2>1 DEF FactsOK, MemOK, Present
  <2>3. FlowOK'
    BY <1>1, <2>1 DEF FlowOK
  <2>4. OutputsDue => OutputsDue'
    BY <2>1 DEF OutputsDue, Settled, Awaited
  <2>5. Aside
    BY <2>1 DEF Aside
  <2> QED
    BY <2>2, <2>3, <2>4, <2>5, KeepsAside
<1> QED
  BY <1>2, <1>3, <1>4, <1>5, <1>6, <1>7, <1>8, <1>9, <1>10, <1>11, <1>12, <1>13 DEF NextNetwork

LEMMA Always == SpecNetwork => [](NetworkInv /\ OutputsDue)
<1>1. InitNetwork => NetworkInv /\ OutputsDue
  BY InitOK
<1>2. NetworkInv /\ OutputsDue /\ [NextNetwork]_networkVars => (NetworkInv /\ OutputsDue)'
  BY NetworkStep DEF Keeps, NetworkInv
<1> QED
  BY <1>1, <1>2, PTL DEF SpecNetwork

----------------------------------------------------------------------------

\* Whatever the network and the facts, every call of an event refers to what is
\* there, and the event comes to its end with no output put off and no delta left
\* for the next one (propagateEvent, restoreReteAfterPropagationFailure).
THEOREM ReteTyped == SpecNetwork => []ReteTypeOK
<1>1. NetworkInv => ReteTypeOK
  <2> SUFFICES ASSUME FactsOK, FlowOK
               PROVE  ReteTypeOK
    BY DEF NetworkInv
  <2>1. \A i \in 1 .. Len(stack) : stack[i].do \in Calls
    BY DEF FlowOK, Stacked, Sound
  <2>2. \A d \in deferred : Kind[d[1]] = "aggregate"
    BY DEF FlowOK, DeferredOK
  <2>3. Quiet => ~ deferring /\ deferred = {} /\ added = EmptyBag /\ removed = EmptyBag
    <3>1. Quiet => Len(stack) = 0
      BY Singles DEF Quiet
    <3> QED
      BY <3>1 DEF FlowOK, Quiet
  <2>4. deferring \in BOOLEAN
    BY DEF FlowOK
  <2> QED
    BY <2>1, <2>2, <2>3, <2>4 DEF ReteTypeOK, FactsOK
<1> QED
  BY <1>1, Always, PTL

\* The rows of joins and negative nodes are exact at every step, as long as no
\* node is handed a row that it has: the tables of the code take it for another
\* (betaJoinBucketTable.insert), and the network must not ask it of them.
THEOREM RowsStayExact == SpecNetwork /\ []HandsExact => []RowsExact
<1>1. InitNetwork => NotsExact
  BY InitOK
<1>2. NetworkInv /\ HandsExact /\ NotsExact /\ [NextNetwork]_networkVars => NotsExact'
  BY NetworkStep DEF Keeps
<1>3. NetworkInv /\ NotsExact => RowsExact
  <2> SUFFICES ASSUME MemOK, NotsExact, NEW n \in Nodes
               PROVE  /\ Kind[n] = "join" =>
                           mem[n].links = {k \in mem[n].left \X mem[n].right :
                                             Pairs(n, k[1], k[2])}
                      /\ Kind[n] = "not" =>
                           /\ \A l \in DOMAIN mem[n].blockers :
                                mem[n].blockers[l] = Blocking(n, l)
                           /\ mem[n].shown = {l \in DOMAIN mem[n].blockers :
                                                mem[n].blockers[l] = 0}
    BY DEF NetworkInv, RowsExact
  <2>1. Kind[n] = "join" => JoinShape(n, mem[n])
    BY DEF MemOK, Shape
  <2>2. Kind[n] = "not" => NotExact(n, mem[n])
    BY DEF NotsExact
  <2> QED
    BY <2>1, <2>2 DEF JoinShape, NotExact, Blocking
<1> QED
  BY <1>1, <1>2, <1>3, Always, PTL DEF SpecNetwork

\* An accumulator is at every step what its inputs give when they are added up
\* again, though it is kept by additions and subtractions, and between events
\* every output is its result (removeMemberSubtractive, rebuildAccumulator,
\* finalizeDeferredAggregateOutputs).
THEOREM AccumulatorsStayExact == SpecNetwork => []AccumulatorsExact
<1>1. NetworkInv /\ OutputsDue => AccumulatorsExact
  <2> SUFFICES ASSUME MemOK, FlowOK, OutputsDue, NEW n \in Nodes, Kind[n] = "aggregate",
                      NEW p \in DOMAIN mem[n].buckets
               PROVE  /\ mem[n].buckets[p] = Rebuilt(n, mem[n].buckets[p])
                      /\ Quiet => Settled(n, p)
    BY DEF NetworkInv, AccumulatorsExact, Settled
  <2>1. PICK b : b = mem[n].buckets[p]
    OBVIOUS
  <2>2. BucketShape(n, b)
    BY <2>1 DEF MemOK, Shape, AggregateShape
  <2>3. b = Rebuilt(n, b)
    <3>1. PICK i, c, x, o : i = b.inputs /\ c = b.count /\ x = b.max /\ o = b.out
      OBVIOUS
    <3>2. b = [inputs |-> i, count |-> c, max |-> x, out |-> o]
      BY <2>2, <3>1 DEF BucketShape
    <3>3. /\ c = Cardinality(i)
          /\ x = IF "max" \in Specs[n] /\ i # {} THEN Max({Amount(t) : t \in i}) ELSE 0
      BY <2>2, <3>1 DEF BucketShape
    <3>4. Rebuilt(n, b) = [b EXCEPT !.count = c, !.max = x]
      BY <3>1, <3>3 DEF Rebuilt
    <3>5. PICK r : r = [b EXCEPT !.count = c, !.max = x]
      OBVIOUS
    <3>6. r = [inputs |-> i, count |-> c, max |-> x, out |-> o]
      BY <3>2, <3>5
    <3> QED
      BY <3>2, <3>4, <3>5, <3>6
  <2>4. Quiet => Settled(n, p)
    <3> SUFFICES ASSUME Quiet
                 PROVE  Settled(n, p)
      OBVIOUS
    <3>1. Len(stack) = 0
      BY Singles DEF Quiet
    <3>2. ~ Awaited(n, p)
      BY <3>1 DEF Awaited, FlowOK
    <3> QED
      BY <3>2 DEF OutputsDue
  <2> QED
    BY <2>1, <2>3, <2>4
<1> QED
  BY <1>1, Always, PTL
=============================================================================
