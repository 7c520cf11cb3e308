--------------------------- MODULE RunAgendaProofs ---------------------------
(***************************************************************************)
(* Theorems about RunAgenda: typing for every value of the constants, and, *)
(* where one token derives each match and no mutation's context ends       *)
(* between its commit and the agenda, that the agenda follows the graph    *)
(* and fires once per match, however deltas reach it.                      *)
(***************************************************************************)
EXTENDS RunAgendaProps, NumberLemmas, SequenceTheorems

----------------------------------------------------------------------------
\* Lists of tokens and what they count.

LEMMA ListFacts ==
  ASSUME NEW S, NEW s \in Lists(S)
  PROVE  /\ s \in Seq(S) /\ Len(s) \in Nat /\ DOMAIN s = 1 .. Len(s)
         /\ \A i, j \in DOMAIN s : i # j => s[i] # s[j]
<1>1. MaxDelta \in Nat
  BY AgendaAssumption
<1>2. PICK n \in 0 .. MaxDelta : s \in [1 .. n -> S]
  BY DEF Lists
<1>3. n \in Nat
  BY <1>1, <1>2
<1>4. s \in Seq(S) /\ Len(s) = n
  BY <1>2, <1>3, IsASeq, LenProperties
<1>5. \A i, j \in DOMAIN s : i # j => s[i] # s[j]
  BY DEF Lists
<1> QED
  BY <1>2, <1>3, <1>4, <1>5

LEMMA DeltaFacts ==
  ASSUME NEW d \in Deltas
  PROVE  /\ d.removed \in Lists(Tokens) /\ d.added \in Lists(Tokens)
         /\ d.removed \in Seq(Tokens) /\ d.added \in Seq(Tokens)
         /\ Elems(d.removed) \subseteq Tokens /\ Elems(d.added) \subseteq Tokens
         /\ Hold(Elems(d.removed)) \subseteq Matches
         /\ Hold(Elems(d.added)) \subseteq Matches
         /\ Hold(Elems(d.removed)) \cap Hold(Elems(d.added)) = {}
<1>1. d.removed \in Lists(Tokens) /\ d.added \in Lists(Tokens)
  BY DEF Deltas
<1>2. d.removed \in Seq(Tokens) /\ d.added \in Seq(Tokens)
  BY <1>1, ListFacts
<1>3. Elems(d.removed) \subseteq Tokens /\ Elems(d.added) \subseteq Tokens
  BY <1>2, ElementOfSeq DEF Elems
<1>4. Hold(Elems(d.removed)) \subseteq Matches /\ Hold(Elems(d.added)) \subseteq Matches
  BY <1>3 DEF Hold, Matches
<1>5. Hold(Elems(d.removed)) \cap Hold(Elems(d.added)) = {}
  BY DEF Deltas
<1> QED
  BY <1>1, <1>2, <1>3, <1>4, <1>5

LEMMA CountType ==
  ASSUME NEW s \in Seq(Tokens), NEW m
  PROVE  Count(s, m) \in Nat
<1> DEFINE at == {i \in DOMAIN s : MatchOf[s[i]] = m}
<1>1. DOMAIN s = 1 .. Len(s) /\ Len(s) \in Nat
  BY LenProperties
<1>2. IsFiniteSet(1 .. Len(s))
  BY <1>1, FS_Interval
<1>3. IsFiniteSet(at)
  BY <1>1, <1>2, FS_Subset
<1> QED
  BY <1>3, FS_CardinalityType DEF Count

----------------------------------------------------------------------------
\* The focus stack.

LEMMA TopType ==
  ASSUME NEW s \in Seq(Modules)
  PROVE  Top(s) \in Modules
<1>1. Main \in Modules
  BY AgendaAssumption
<1>2. s # <<>> => Len(s) \in 1 .. Len(s)
  BY EmptySeq, LenProperties
<1> QED
  BY <1>1, <1>2, ElementOfSeq DEF Top

LEMMA PushOnType ==
  ASSUME NEW s \in Seq(Modules), NEW module \in Modules
  PROVE  PushOn(s, module) \in Seq(Modules)
BY AppendProperties DEF PushOn

LEMMA PushAllType ==
  ASSUME NEW s \in Seq(Modules), NEW list \in Seq(Modules)
  PROVE  PushAll(s, list) \in Seq(Modules)
<1> DEFINE N == Len(list)
           X == Seq(Modules)
           G == [x \in X \X (1 .. N) |-> PushOn(x[1], list[x[2]])]
           Is(g) == g = [n \in 0 .. N |-> IF n = 0 THEN s ELSE PushOn(g[n - 1], list[n])]
           pushed == CHOOSE g : Is(g)
           S == {n \in Nat : n <= N => pushed[n] \in X}
<1>1. N \in Nat /\ \A n \in 1 .. N : list[n] \in Modules
  BY LenProperties, ElementOfSeq
<1>2. G \in [X \X (1 .. N) -> X]
  BY <1>1, PushOnType
<1>3. PICK f : Builds(f, N, X, s, G)
  <2> HIDE DEF G, X, N
  <2>1. s \in X
    BY DEF X
  <2>2. N \in Nat
    BY <1>1
  <2> QED
    BY <1>2, <2>1, <2>2, Recursion
<1>4. ASSUME NEW n \in 1 .. N
      PROVE  f[n] = PushOn(f[n - 1], list[n])
  <2>1. f[n - 1] \in X
    BY <1>1, <1>3 DEF Builds
  <2> QED
    BY <1>3, <2>1 DEF Builds
<1>5. Is(f)
  BY <1>1, <1>3, <1>4 DEF Builds
<1>6. Is(pushed)
  <2> HIDE DEF Is
  <2> QED
    BY <1>5
<1>7. PushAll(s, list) = pushed[N]
  BY DEF PushAll
<1>8. pushed[0] = s /\ \A n \in 1 .. N : pushed[n] = PushOn(pushed[n - 1], list[n])
  <2> HIDE DEF pushed
  <2> QED
    BY <1>1, <1>6
<1> HIDE DEF pushed
<1>9. 0 \in S
  BY <1>8
<1>10. ASSUME NEW n \in Nat, n \in S
       PROVE  n + 1 \in S
  <2> SUFFICES ASSUME n + 1 <= N
               PROVE  pushed[n + 1] \in X
    OBVIOUS
  <2>1. n + 1 \in 1 .. N /\ pushed[n] \in X
    BY <1>1, <1>10
  <2>2. pushed[n + 1] = PushOn(pushed[n], list[n + 1])
    BY <1>8, <2>1
  <2> QED
    BY <1>1, <2>1, <2>2, PushOnType
<1>11. Nat \subseteq S
  <2> HIDE DEF S
  <2> QED
    BY <1>9, <1>10, Counting
<1>12. N \in S
  BY <1>1, <1>11
<1> QED
  BY <1>1, <1>7, <1>12

LEMMA FramesType ==
  ASSUME focus \in Seq(Modules), Focusable
  PROVE  /\ Frames \in 0 .. Len(focus)
         /\ SubSeq(focus, 1, Frames) \in Seq(Modules)
         /\ \E m \in Matches : m \in Pending(status)
<1> DEFINE has == {i \in 0 .. Len(focus) :
                     \E m \in Matches : ReadyIn(Top(SubSeq(focus, 1, i)), m)}
<1>1. Len(focus) \in Nat /\ has \in SUBSET (0 .. Len(focus))
  BY LenProperties
<1>2. Frames = IF has = {} THEN -1 ELSE CHOOSE i \in has : \A j \in has : j <= i
  BY DEF Frames
<1>3. has # {}
  BY <1>2 DEF Focusable
<1>4. \E i \in has : \A j \in has : j <= i
  <2> HIDE DEF has
  <2> QED
    BY <1>1, <1>3, Greatest
<1>5. Frames \in has
  <2> HIDE DEF has
  <2> QED
    BY <1>2, <1>3, <1>4
<1>6. PICK i \in 0 .. Len(focus) : \E m \in Matches : ReadyIn(Top(SubSeq(focus, 1, i)), m)
  BY <1>3
<1>7. \E m \in Matches : m \in Pending(status)
  BY <1>6 DEF ReadyIn
<1>8. Frames \in 0 .. Len(focus)
  BY <1>5
<1>9. SubSeq(focus, 1, Frames) \in Seq(Modules)
  BY <1>1, <1>8, SubSeqProperties, ElementOfSeq
<1> QED
  BY <1>7, <1>8, <1>9

\* When nothing is focusable nothing is pending in MAIN, which is below every frame.
LEMMA Unfocusable ==
  ASSUME focus \in Seq(Modules), ~Focusable
  PROVE  \A m \in Pending(status) : ModuleOf[m] # Main
<1> SUFFICES ASSUME NEW m \in Pending(status), ModuleOf[m] = Main
             PROVE  FALSE
  OBVIOUS
<1> DEFINE has == {i \in 0 .. Len(focus) :
                     \E n \in Matches : ReadyIn(Top(SubSeq(focus, 1, i)), n)}
<1>1. Len(focus) \in Nat /\ has \in SUBSET (0 .. Len(focus))
  BY LenProperties
<1>2. Frames = IF has = {} THEN -1 ELSE CHOOSE i \in has : \A j \in has : j <= i
  BY DEF Frames
<1>3. SubSeq(focus, 1, 0) = <<>>
  BY SubSeqEmpty
<1>4. ReadyIn(Top(SubSeq(focus, 1, 0)), m) /\ m \in Matches
  BY <1>3 DEF ReadyIn, Top, Pending
<1>5. 0 \in has
  BY <1>1, <1>4
<1>6. \E i \in has : \A j \in has : j <= i
  <2> HIDE DEF has
  <2> QED
    BY <1>1, <1>5, Greatest
<1>7. Frames \in has
  <2> HIDE DEF has
  <2> QED
    BY <1>2, <1>5, <1>6
<1>8. Frames >= 0
  BY <1>1, <1>7
<1> QED
  BY <1>8 DEF Focusable

LEMMA ExhaustedType ==
  ASSUME focus \in Seq(Modules)
  PROVE  Exhausted \in Seq(Modules)
<1> DEFINE mains == {i \in DOMAIN focus : focus[i] = Main}
<1>1. /\ Len(focus) \in Nat /\ DOMAIN focus = 1 .. Len(focus)
      /\ mains \in SUBSET (0 .. Len(focus))
  BY LenProperties
<1>2. CASE AllInMain /\ mains # {}
  <2>1. PICK k \in mains : k = CHOOSE i \in mains : \A j \in mains : j <= i
    <3>1. \E i \in mains : \A j \in mains : j <= i
      <4> HIDE DEF mains
      <4> QED
        BY <1>1, <1>2, Greatest
    <3> QED
      BY <3>1
  <2>2. k \in 1 .. Len(focus)
    BY <1>1
  <2>3. Exhausted = SubSeq(focus, 1, k)
    BY <1>2, <2>1 DEF Exhausted
  <2> QED
    BY <1>1, <2>2, <2>3, SubSeqProperties, ElementOfSeq
<1>3. CASE ~(AllInMain /\ mains # {})
  <2>1. Exhausted = <<>>
    BY <1>3 DEF Exhausted
  <2> QED
    BY <2>1, EmptySeq
<1> QED
  BY <1>2, <1>3

----------------------------------------------------------------------------
\* The lists made of what is kept.

LEMMA AutoFocusedType ==
  ASSUME NEW removed, NEW added \in Seq(Tokens)
  PROVE  AutoFocused(removed, added) \in Seq(Modules)
<1> DEFINE armed == Armed(removed, added) \cap session.autoFocus
           First(i) == \A j \in 1..(i - 1) : MatchOf[added[j]] # MatchOf[added[i]]
           K == {i \in DOMAIN added : MatchOf[added[i]] \in armed /\ First(i)}
<1>1. DOMAIN added = 1 .. Len(added) /\ Len(added) \in Nat
  BY LenProperties
<1>2. IsFiniteSet(K) /\ K \in SUBSET Nat
  <2>1. IsFiniteSet(1 .. Len(added))
    BY <1>1, FS_Interval
  <2>2. K \in SUBSET (1 .. Len(added)) /\ K \in SUBSET Nat
    BY <1>1
  <2> HIDE DEF K
  <2> QED
    BY <2>1, <2>2, FS_Subset
<1>3. AutoFocused(removed, added) =
        [n \in 1 .. Cardinality(K) |-> ModuleOf[MatchOf[added[Nth(K, n)]]]]
  BY DEF AutoFocused, Nth, Below
<1>4. \A i \in K : ModuleOf[MatchOf[added[i]]] \in Modules
  <2>1. \A i \in K : added[i] \in Tokens
    BY <1>1, ElementOfSeq
  <2>2. \A i \in K : MatchOf[added[i]] \in Matches
    BY <2>1 DEF Matches
  <2> QED
    BY <2>2, AgendaAssumption
<1> HIDE DEF K
<1>5. Cardinality(K) \in Nat /\ \A n \in 1 .. Cardinality(K) : Nth(K, n) \in K
  BY <1>2, Nths
<1> QED
  BY <1>3, <1>4, <1>5, SeqDef

Keeps(p) == {i \in DOMAIN states : /\ states[i].present = p
                                   /\ states[i].initial # p}

LEMMA NetFacts ==
  ASSUME states \in Seq(Entry), NEW p \in BOOLEAN
  PROVE  /\ Net(p) \in Seq(Tokens)
         /\ Hold(Elems(Net(p))) = {states[i].match : i \in Keeps(p)}
         /\ (\A i, j \in DOMAIN states : states[i].match = states[j].match => i = j) =>
              \A i, j \in DOMAIN Net(p) : MatchOf[Net(p)[i]] = MatchOf[Net(p)[j]] => i = j
<1> DEFINE K == Keeps(p)
           Token(i) == CHOOSE t \in Tokens : MatchOf[t] = states[i].match
<1>1. DOMAIN states = 1 .. Len(states) /\ Len(states) \in Nat
  BY LenProperties
<1>2. IsFiniteSet(K) /\ K \in SUBSET Nat /\ K \in SUBSET (1 .. Len(states))
  <2>1. IsFiniteSet(1 .. Len(states))
    BY <1>1, FS_Interval
  <2>2. K \in SUBSET (1 .. Len(states)) /\ K \in SUBSET Nat
    BY <1>1 DEF Keeps
  <2> HIDE DEF K
  <2> QED
    BY <2>1, <2>2, FS_Subset
<1>3. Net(p) = [n \in 1 .. Cardinality(K) |-> Token(Nth(K, n))]
  BY DEF Net, Nth, Below, Keeps
<1>4. ASSUME NEW i \in K
      PROVE  Token(i) \in Tokens /\ MatchOf[Token(i)] = states[i].match
  <2>1. states[i] \in Entry
    BY <1>2, ElementOfSeq
  <2>2. PICK t \in Tokens : MatchOf[t] = states[i].match
    BY <2>1 DEF Entry, Matches
  <2> QED
    BY <2>2
<1> HIDE DEF K, Token
<1>5. /\ Cardinality(K) \in Nat
      /\ \A n \in 1 .. Cardinality(K) : Nth(K, n) \in K
      /\ \A n, k \in 1 .. Cardinality(K) : Nth(K, n) = Nth(K, k) => n = k
      /\ \A i \in K : \E n \in 1 .. Cardinality(K) : Nth(K, n) = i
  BY <1>2, Nths
<1>6. /\ Net(p) \in [1 .. Cardinality(K) -> Tokens]
      /\ \A n \in 1 .. Cardinality(K) : MatchOf[Net(p)[n]] = states[Nth(K, n)].match
  BY <1>3, <1>4, <1>5
<1>7. Net(p) \in Seq(Tokens)
  BY <1>5, <1>6, SeqDef
<1>8. Hold(Elems(Net(p))) = {MatchOf[Net(p)[n]] : n \in 1 .. Cardinality(K)}
  BY <1>6 DEF Hold, Elems
<1>9. Hold(Elems(Net(p))) = {states[i].match : i \in K}
  BY <1>5, <1>6, <1>8
<1>10. ASSUME \A i, j \in DOMAIN states : states[i].match = states[j].match => i = j,
              NEW i \in DOMAIN Net(p), NEW j \in DOMAIN Net(p),
              MatchOf[Net(p)[i]] = MatchOf[Net(p)[j]]
       PROVE  i = j
  <2>1. i \in 1 .. Cardinality(K) /\ j \in 1 .. Cardinality(K)
    BY <1>6
  <2>2. Nth(K, i) \in DOMAIN states /\ Nth(K, j) \in DOMAIN states
    BY <1>1, <1>2, <1>5, <2>1
  <2>3. states[Nth(K, i)].match = states[Nth(K, j)].match
    BY <1>6, <1>10, <2>1
  <2>4. Nth(K, i) = Nth(K, j)
    BY <1>10, <2>2, <2>3
  <2> QED
    BY <1>5, <2>1, <2>4
<1> QED
  BY <1>7, <1>9, <1>10 DEF K

----------------------------------------------------------------------------
\* The entries of a firing.  Tells says of a sequence of entries that it has one
\* for each match in touched, that they began as the rows st are, and that those
\* present are those in now.

Tells(st, entries, touched, now) ==
  /\ entries \in Seq(Entry)
  /\ {entries[i].match : i \in DOMAIN entries} = touched
  /\ \A i \in DOMAIN entries :
       /\ entries[i].initial <=> st[entries[i].match] = "pending"
       /\ entries[i].present <=> entries[i].match \in now
  /\ \A i, j \in DOMAIN entries : entries[i].match = entries[j].match => i = j

LEMMA RecordType ==
  ASSUME NEW entries \in Seq(Entry), NEW m \in Matches, NEW p \in BOOLEAN
  PROVE  Record(entries, m, p) \in Seq(Entry)
<1>1. /\ DOMAIN entries = 1 .. Len(entries) /\ Len(entries) \in Nat
      /\ \A i \in DOMAIN entries : entries[i] \in Entry
  BY LenProperties, ElementOfSeq
<1>2. CASE \E i \in DOMAIN entries : entries[i].match = m
  <2> DEFINE new == [i \in DOMAIN entries |->
                       IF entries[i].match = m
                       THEN [entries[i] EXCEPT !.present = p] ELSE entries[i]]
  <2>1. Record(entries, m, p) = new
    BY <1>2 DEF Record
  <2>2. \A i \in DOMAIN entries : [entries[i] EXCEPT !.present = p] \in Entry
    BY <1>1 DEF Entry
  <2>3. new \in [1 .. Len(entries) -> Entry]
    BY <1>1, <2>2
  <2> QED
    BY <1>1, <2>1, <2>3, SeqDef
<1>3. CASE ~ \E i \in DOMAIN entries : entries[i].match = m
  <2>1. [match |-> m, initial |-> status[m] = "pending", present |-> p] \in Entry
    BY DEF Entry
  <2> QED
    BY <1>3, <2>1, AppendProperties DEF Record
<1> QED
  BY <1>2, <1>3

LEMMA RecordTells ==
  ASSUME NEW entries, NEW touched, NEW now, Tells(status, entries, touched, now),
         NEW m \in Matches, NEW p \in BOOLEAN
  PROVE  Tells(status, Record(entries, m, p), touched \cup {m},
               IF p THEN now \cup {m} ELSE now \ {m})
<1> DEFINE after == IF p THEN now \cup {m} ELSE now \ {m}
           new == Record(entries, m, p)
<1>1. /\ DOMAIN entries = 1 .. Len(entries) /\ Len(entries) \in Nat
      /\ \A i \in DOMAIN entries : entries[i] \in Entry
  BY LenProperties, ElementOfSeq DEF Tells
<1>2. new \in Seq(Entry)
  BY RecordType DEF Tells
<1>3. CASE \E i \in DOMAIN entries : entries[i].match = m
  <2>1. /\ DOMAIN new = DOMAIN entries
        /\ \A i \in DOMAIN entries :
             new[i] = IF entries[i].match = m
                      THEN [entries[i] EXCEPT !.present = p] ELSE entries[i]
    BY <1>3 DEF Record
  <2>2. ASSUME NEW i \in DOMAIN entries
        PROVE  /\ new[i].match = entries[i].match
               /\ new[i].initial = entries[i].initial
               /\ new[i].present = IF entries[i].match = m THEN p ELSE entries[i].present
    BY <1>1, <2>1 DEF Entry
  <2>3. {new[i].match : i \in DOMAIN new} = touched \cup {m}
    BY <1>3, <2>1, <2>2 DEF Tells
  <2>4. \A i \in DOMAIN new :
          /\ new[i].initial <=> status[new[i].match] = "pending"
          /\ new[i].present <=> new[i].match \in after
    BY <2>1, <2>2 DEF Tells
  <2>5. \A i, j \in DOMAIN new : new[i].match = new[j].match => i = j
    BY <2>1, <2>2 DEF Tells
  <2> HIDE DEF new, after
  <2>6. Tells(status, new, touched \cup {m}, after)
    BY <1>2, <2>3, <2>4, <2>5 DEF Tells
  <2> QED
    BY <2>6 DEF new, after
<1>4. CASE ~ \E i \in DOMAIN entries : entries[i].match = m
  <2> DEFINE last == [match |-> m, initial |-> status[m] = "pending", present |-> p]
             N == Len(entries) + 1
  <2>1. last \in Entry /\ new = Append(entries, last)
    BY <1>4 DEF Entry, Record
  <2>2. /\ DOMAIN new = 1 .. N /\ N \in Nat
        /\ new[N] = last /\ \A i \in DOMAIN entries : i # N /\ new[i] = entries[i]
        /\ \A i \in DOMAIN new : i = N \/ i \in DOMAIN entries
    <3> HIDE DEF last
    <3>1. entries \in Seq(Entry)
      BY DEF Tells
    <3> QED
      BY <1>1, <2>1, <3>1, AppendProperties
  <2>3. /\ new[N].match = m /\ new[N].initial = (status[m] = "pending")
        /\ new[N].present = p
    BY <2>2
  <2> HIDE DEF last, N, new, after
  <2>4. {new[i].match : i \in DOMAIN new} = touched \cup {m}
    <3>1. N \in DOMAIN new /\ \A i \in DOMAIN entries : i \in DOMAIN new
      BY <2>2, <1>1 DEF N
    <3>2. {new[i].match : i \in DOMAIN new}
            = {entries[i].match : i \in DOMAIN entries} \cup {m}
      BY <2>2, <2>3, <3>1
    <3> QED
      BY <3>2 DEF Tells
  <2>5. ASSUME NEW i \in DOMAIN new
        PROVE  /\ new[i].initial <=> status[new[i].match] = "pending"
               /\ new[i].present <=> new[i].match \in after
    <3>1. CASE i = N
      BY <2>3, <3>1 DEF after
    <3>2. CASE i \in DOMAIN entries
      BY <1>4, <2>2, <3>2 DEF after, Tells
    <3> QED
      BY <2>2, <3>1, <3>2
  <2>6. \A i, j \in DOMAIN new : new[i].match = new[j].match => i = j
    BY <1>4, <2>2, <2>3 DEF Tells
  <2>7. Tells(status, new, touched \cup {m}, after)
    BY <1>2, <2>4, <2>5, <2>6 DEF Tells
  <2> QED
    BY <2>7 DEF new, after
<1> QED
  BY <1>3, <1>4

\* RecordAll records one token after the other.
LEMMA RecordAllSteps ==
  ASSUME NEW entries \in Seq(Entry), NEW list \in Seq(Tokens), NEW p \in BOOLEAN
  PROVE  \E r : /\ r \in [0 .. Len(list) -> Seq(Entry)]
                /\ r[0] = entries /\ r[Len(list)] = RecordAll(entries, list, p)
                /\ \A n \in 1 .. Len(list) :
                     r[n] = Record(r[n - 1], MatchOf[list[n]], p)
<1> DEFINE N == Len(list)
           X == Seq(Entry)
           G == [x \in X \X (1 .. N) |-> Record(x[1], MatchOf[list[x[2]]], p)]
           Is(g) == g = [n \in 0 .. N |-> IF n = 0 THEN entries
                                          ELSE Record(g[n - 1], MatchOf[list[n]], p)]
           recorded == CHOOSE g : Is(g)
           S == {n \in Nat : n <= N => recorded[n] \in X}
<1>1. N \in Nat /\ \A n \in 1 .. N : list[n] \in Tokens /\ MatchOf[list[n]] \in Matches
  BY LenProperties, ElementOfSeq DEF Matches
<1>2. G \in [X \X (1 .. N) -> X]
  BY <1>1, RecordType
<1>3. PICK f : Builds(f, N, X, entries, G)
  <2> HIDE DEF G, X, N
  <2>1. entries \in X
    BY DEF X
  <2>2. N \in Nat
    BY <1>1
  <2> QED
    BY <1>2, <2>1, <2>2, Recursion
<1>4. ASSUME NEW n \in 1 .. N
      PROVE  f[n] = Record(f[n - 1], MatchOf[list[n]], p)
  <2>1. f[n - 1] \in X
    BY <1>1, <1>3 DEF Builds
  <2> QED
    BY <1>3, <2>1 DEF Builds
<1>5. Is(f)
  BY <1>1, <1>3, <1>4 DEF Builds
<1>6. Is(recorded)
  <2> HIDE DEF Is
  <2> QED
    BY <1>5
<1>7. RecordAll(entries, list, p) = recorded[N]
  BY DEF RecordAll
<1>8. /\ recorded[0] = entries
      /\ \A n \in 1 .. N : recorded[n] = Record(recorded[n - 1], MatchOf[list[n]], p)
  <2> HIDE DEF recorded
  <2> QED
    BY <1>1, <1>6
<1>9. recorded = [n \in 0 .. N |-> recorded[n]]
  <2> HIDE DEF recorded
  <2> QED
    BY <1>1, <1>6
<1> HIDE DEF recorded
<1>10. 0 \in S
  BY <1>8
<1>11. ASSUME NEW n \in Nat, n \in S
       PROVE  n + 1 \in S
  <2> SUFFICES ASSUME n + 1 <= N
               PROVE  recorded[n + 1] \in X
    OBVIOUS
  <2>1. n + 1 \in 1 .. N /\ recorded[n] \in X
    BY <1>1, <1>11
  <2>2. recorded[n + 1] = Record(recorded[n], MatchOf[list[n + 1]], p)
    BY <1>8, <2>1
  <2> QED
    BY <1>1, <2>1, <2>2, RecordType
<1>12. Nat \subseteq S
  <2> HIDE DEF S
  <2> QED
    BY <1>10, <1>11, Counting
<1>13. \A n \in 0 .. N : recorded[n] \in X
  BY <1>1, <1>12
<1>14. recorded \in [0 .. N -> X]
  BY <1>9, <1>13
<1> QED
  BY <1>7, <1>8, <1>14

LEMMA RecordAllType ==
  ASSUME NEW entries \in Seq(Entry), NEW list \in Seq(Tokens), NEW p \in BOOLEAN
  PROVE  RecordAll(entries, list, p) \in Seq(Entry)
<1>1. PICK r : /\ r \in [0 .. Len(list) -> Seq(Entry)]
               /\ r[Len(list)] = RecordAll(entries, list, p)
  BY RecordAllSteps
<1>2. Len(list) \in 0 .. Len(list)
  BY LenProperties
<1> QED
  BY <1>1, <1>2

LEMMA RecordAllTells ==
  ASSUME NEW entries, NEW touched, NEW now, Tells(status, entries, touched, now),
         NEW list \in Seq(Tokens), NEW p \in BOOLEAN
  PROVE  Tells(status, RecordAll(entries, list, p), touched \cup Hold(Elems(list)),
               IF p THEN now \cup Hold(Elems(list)) ELSE now \ Hold(Elems(list)))
<1> DEFINE N == Len(list)
           Upto(n) == {MatchOf[list[i]] : i \in 1 .. n}
           Now(n) == IF p THEN now \cup Upto(n) ELSE now \ Upto(n)
<1>0. entries \in Seq(Entry)
  BY DEF Tells
<1>1. PICK r : /\ r[0] = entries /\ r[Len(list)] = RecordAll(entries, list, p)
               /\ \A n \in 1 .. Len(list) :
                    r[n] = Record(r[n - 1], MatchOf[list[n]], p)
  BY <1>0, RecordAllSteps
<1>2. N \in Nat /\ \A n \in 1 .. N : MatchOf[list[n]] \in Matches
  BY LenProperties, ElementOfSeq DEF Matches
<1> DEFINE S == {n \in Nat : n <= N => Tells(status, r[n], touched \cup Upto(n), Now(n))}
<1>3. 0 \in S
  <2>1. Upto(0) = {}
    OBVIOUS
  <2>2. touched \cup Upto(0) = touched
    BY <2>1
  <2>3. Now(0) = IF p THEN now \cup {} ELSE now \ {}
    BY <2>1
  <2>4. {entries[i].match : i \in DOMAIN entries} = touched
    BY DEF Tells
  <2>5. Tells(status, r[0], touched \cup Upto(0), Now(0))
    BY <1>1, <2>2, <2>3 DEF Tells
  <2> QED
    BY <2>5
<1>4. ASSUME NEW n \in Nat, n \in S
      PROVE  n + 1 \in S
  <2> SUFFICES ASSUME n + 1 <= N
               PROVE  Tells(status, r[n + 1], touched \cup Upto(n + 1), Now(n + 1))
    OBVIOUS
  <2>1. n + 1 \in 1 .. N /\ Tells(status, r[n], touched \cup Upto(n), Now(n))
    BY <1>2, <1>4
  <2>2. PICK m \in Matches : m = MatchOf[list[n + 1]]
    BY <1>2, <2>1
  <2>3. r[n + 1] = Record(r[n], m, p)
    BY <1>1, <2>1, <2>2
  <2>4. Upto(n + 1) = Upto(n) \cup {m}
    BY <2>2
  <2>5. touched \cup Upto(n + 1) = (touched \cup Upto(n)) \cup {m}
    BY <2>4
  <2>6. Now(n + 1) = IF p THEN Now(n) \cup {m} ELSE Now(n) \ {m}
    BY <2>4
  <2> HIDE DEF Now, Upto
  <2>7. Tells(status, Record(r[n], m, p), (touched \cup Upto(n)) \cup {m},
              IF p THEN Now(n) \cup {m} ELSE Now(n) \ {m})
    BY <2>1, RecordTells
  <2> QED
    BY <2>3, <2>5, <2>6, <2>7
<1>5. Nat \subseteq S
  <2> HIDE DEF S
  <2> QED
    BY <1>3, <1>4, Counting
<1>6. Tells(status, r[N], touched \cup Upto(N), Now(N))
  <2>1. N \in S
    <3> HIDE DEF S, N
    <3> QED
      BY <1>2, <1>5
  <2>2. N <= N
    BY <1>2
  <2> HIDE DEF Upto, Now, N
  <2> QED
    BY <2>1, <2>2
<1>7. Upto(N) = Hold(Elems(list))
  BY <1>2, LenProperties DEF Hold, Elems
<1> HIDE DEF Upto
<1> QED
  BY <1>1, <1>6, <1>7

----------------------------------------------------------------------------
\* Typing.

StatusValues == {"none", "pending", "consumed", "deactivated"}

LEMMA ApplyType ==
  ASSUME TypeOK, NEW removed \in Seq(Tokens), NEW added \in Seq(Tokens),
         Apply(removed, added)
  PROVE  /\ status' \in [Matches -> StatusValues]
         /\ support' \in [Matches -> Nat]
<1>1. ASSUME NEW m \in Matches
      PROVE  SupportWithout(removed, m) \in Nat /\ Count(added, m) \in Nat
  <2>1. Count(removed, m) \in Nat /\ Count(added, m) \in Nat /\ support[m] \in Nat
    BY CountType DEF TypeOK
  <2> QED
    BY <2>1 DEF SupportWithout, Less
<1>2. \A m \in Matches : StatusWithout(removed, m) \in StatusValues
  BY DEF StatusWithout, StatusValues, TypeOK
<1> QED
  BY <1>1, <1>2 DEF Apply, StatusValues

LEMMA UnrefractType ==
  ASSUME TypeOK, NEW S
  PROVE  Unrefract(S) \in [Matches -> Nat]
BY DEF Unrefract, TypeOK

LEMMA PushAutoFocusType ==
  ASSUME TypeOK, NEW removed, NEW added \in Seq(Tokens), PushAutoFocus(removed, added)
  PROVE  focus' \in Seq(Modules)
BY AutoFocusedType, PushAllType DEF PushAutoFocus, TypeOK

LEMMA PropagateType ==
  ASSUME TypeOK, NEW d \in Deltas, Propagate(d)
  PROVE  tokens' \subseteq Tokens /\ spent' \subseteq Matches
BY DeltaFacts DEF Propagate, After, TypeOK

LEMMA CompactedType ==
  ASSUME TypeOK, Compacted(status, support)
  PROVE  /\ status' \in [Matches -> StatusValues]
         /\ support' \in [Matches -> Nat]
BY DEF Compacted, StatusValues, TypeOK

LEMMA CapturedType ==
  ASSUME TypeOK, NEW m \in Matches
  PROVE  /\ Captured[m][1] \in StatusValues /\ Captured[m][2] \in Nat
         /\ Captured[m] = IF status[m] \in {"pending", "consumed"}
                          THEN <<status[m], support[m]>>
                          ELSE IF refracted[m] > 0 THEN <<"consumed", refracted[m]>>
                          ELSE <<"none", 0>>
<1>1. Captured[m] = IF status[m] \in {"pending", "consumed"}
                    THEN <<status[m], support[m]>>
                    ELSE IF refracted[m] > 0 THEN <<"consumed", refracted[m]>>
                    ELSE <<"none", 0>>
  <2>1. CASE status[m] \in {"pending", "consumed"}
    BY <2>1 DEF Captured
  <2>2. CASE status[m] \notin {"pending", "consumed"} /\ refracted[m] > 0
    BY <2>2 DEF Captured
  <2>3. CASE status[m] \notin {"pending", "consumed"} /\ ~(refracted[m] > 0)
    BY <2>3 DEF Captured
  <2> QED
    BY <2>1, <2>2, <2>3
<1> QED
  BY <1>1 DEF StatusValues, TypeOK

LEMMA EndTypes ==
  ASSUME NEW how \in {"completed", "halted", "limit", "canceled", "action_failed"},
         End(how)
  PROVE  /\ phase' = "idle" /\ current' \in Matches \cup {NoMatch}
         /\ fired' \in Nat /\ limit' \in Nat \cup {Unlimited} /\ halt' \in BOOLEAN
         /\ outcome' \in {"none", "completed", "halted", "limit", "canceled",
                          "failed", "action_failed"}
BY DEF End

LEMMA ChangeFocusType ==
  ASSUME TypeOK, ChangeFocus
  PROVE  focus' \in Seq(Modules)
<1>1. focus \in Seq(Modules)
  BY DEF TypeOK
<1>2. ASSUME NEW module \in Modules, Refocus(PushOn(focus, module))
      PROVE  focus' \in Seq(Modules)
  BY <1>1, <1>2, PushOnType DEF Refocus
<1>3. ASSUME focus # <<>>, Refocus(SubSeq(focus, 1, Len(focus) - 1))
      PROVE  focus' \in Seq(Modules)
  <2>1. Len(focus) \in Nat
    BY <1>1, LenProperties
  <2>2. SubSeq(focus, 1, Len(focus) - 1) \in Seq(Modules)
    BY <1>1, <2>1, SubSeqProperties, ElementOfSeq
  <2> QED
    BY <1>3, <2>2 DEF Refocus
<1>4. ASSUME Refocus(<<>>)
      PROVE  focus' \in Seq(Modules)
  BY <1>4, EmptySeq DEF Refocus
<1> QED
  BY <1>2, <1>3, <1>4 DEF ChangeFocus

LEMMA SettleType ==
  ASSUME TypeOK, Settle
  PROVE  /\ status' \in [Matches -> StatusValues]
         /\ support' \in [Matches -> Nat]
         /\ refracted' \in [Matches -> Nat]
         /\ focus' \in Seq(Modules)
<1>1. CASE delta = "coalesced"
  <2>1. Net(FALSE) \in Seq(Tokens) /\ Net(TRUE) \in Seq(Tokens)
    BY NetFacts DEF TypeOK
  <2>2. /\ Apply(Net(FALSE), Net(TRUE))
        /\ refracted' = Unrefract(Absent \cup Hold(Elems(Net(FALSE))))
        /\ PushAutoFocus(Net(FALSE), Net(TRUE))
    BY <1>1 DEF Settle
  <2> QED
    BY <2>1, <2>2, ApplyType, UnrefractType, PushAutoFocusType
<1>2. CASE delta # "coalesced"
  BY <1>2 DEF Settle, TypeOK, StatusValues
<1> QED
  BY <1>1, <1>2

LEMMA TypeInit == Init => TypeOK
<1> SUFFICES ASSUME Init PROVE TypeOK
  OBVIOUS
<1>1. Main \in Modules /\ MaxActs \in Nat
  BY AgendaAssumption
<1>2. <<Main>> \in Seq(Modules) /\ <<>> \in Seq(Entry)
  BY <1>1, EmptySeq
<1>3. /\ session \in Sessions /\ tokens \subseteq Tokens /\ spent \subseteq Matches
      /\ focus \in Seq(Modules) /\ states \in Seq(Entry)
  BY <1>2 DEF Init
<1>4. /\ status \in [Matches -> {"none", "pending", "consumed", "deactivated"}]
      /\ support \in [Matches -> Nat] /\ refracted \in [Matches -> Nat]
  BY DEF Init
<1>5. acts \in 0 .. MaxActs /\ fired \in Nat /\ limit \in Nat \cup {Unlimited}
  BY <1>1 DEF Init
<1>6. ready \in BOOLEAN /\ halt \in BOOLEAN /\ current \in Matches \cup {NoMatch}
  BY DEF Init
<1>7. /\ phase \in {"idle", "looping", "firing", "compacting"}
      /\ delta \in {"none", "direct", "coalesced"}
      /\ outcome \in {"none", "completed", "halted", "limit", "canceled",
                      "failed", "action_failed"}
  BY DEF Init
<1> QED
  BY <1>3, <1>4, <1>5, <1>6, <1>7 DEF TypeOK

LEMMA TypeStep == TypeOK /\ [Next]_vars => TypeOK'
<1> SUFFICES ASSUME TypeOK, [Next]_vars
             PROVE  TypeOK'
  OBVIOUS
<1>0. MaxActs \in Nat /\ Limits \subseteq Nat
  BY AgendaAssumption
<1>1. CASE Mutate
  <2>1. PICK d \in Deltas, late \in {FALSE, session.deadlines} :
          /\ Propagate(d)
          /\ Reconcile(d, late)
          /\ IF late /\ phase = "looping"
             THEN End("canceled") ELSE outcome' = "none" /\ UNCHANGED runVars
    BY <1>1 DEF Mutate
  <2>2. tokens' \subseteq Tokens /\ spent' \subseteq Matches
    BY <2>1, PropagateType
  <2>3. /\ status' \in [Matches -> StatusValues] /\ support' \in [Matches -> Nat]
        /\ refracted' \in [Matches -> Nat] /\ focus' \in Seq(Modules)
        /\ ready' \in BOOLEAN
    <3>1. CASE ready /\ ~late
      <4>1. /\ Apply(d.removed, d.added)
            /\ refracted' = Unrefract(Hold(Elems(d.removed)))
            /\ PushAutoFocus(d.removed, d.added)
            /\ ready' = ready
        BY <2>1, <3>1 DEF Reconcile
      <4> QED
        BY <4>1, DeltaFacts, ApplyType, UnrefractType, PushAutoFocusType DEF TypeOK
    <3>2. CASE ~(ready /\ ~late)
      BY <2>1, <3>2 DEF Reconcile, agendaVars, TypeOK, StatusValues
    <3> QED
      BY <3>1, <3>2
  <2>4. /\ phase' \in {"idle", "looping", "firing", "compacting"}
        /\ current' \in Matches \cup {NoMatch}
        /\ fired' \in Nat /\ limit' \in Nat \cup {Unlimited} /\ halt' \in BOOLEAN
        /\ outcome' \in {"none", "completed", "halted", "limit", "canceled",
                         "failed", "action_failed"}
    <3>1. CASE late /\ phase = "looping"
      BY <2>1, <3>1, EndTypes
    <3>2. CASE ~(late /\ phase = "looping")
      BY <2>1, <3>2 DEF runVars, TypeOK
    <3> QED
      BY <3>1, <3>2
  <2>5. UNCHANGED <<session, delta, states, acts>>
    BY <1>1 DEF Mutate, firingVars
  <2> QED
    BY <2>2, <2>3, <2>4, <2>5 DEF TypeOK, StatusValues
<1>2. CASE MoveFocus
  <2>1. focus' \in Seq(Modules)
    BY <1>2, ChangeFocusType DEF MoveFocus
  <2> QED
    BY <1>2, <2>1 DEF MoveFocus, agendaVars, runVars, firingVars, TypeOK
<1>3. CASE Reset
  <2>1. <<Main>> \in Seq(Modules)
    BY AgendaAssumption
  <2> QED
    BY <1>3, <2>1 DEF Reset, runVars, firingVars, TypeOK
<1>4. CASE CheckpointAndRestore
  <2>1. CASE Restorable
    <3>1. /\ status' = [m \in Matches |-> Captured[m][1]]
          /\ support' = [m \in Matches |-> Captured[m][2]]
          /\ refracted' = [m \in Matches |-> IF Captured[m][1] = "consumed"
                                             THEN Captured[m][2] ELSE 0]
      BY <1>4, <2>1 DEF CheckpointAndRestore
    <3>2. /\ status' \in [Matches -> StatusValues] /\ support' \in [Matches -> Nat]
          /\ refracted' \in [Matches -> Nat]
      BY <3>1, CapturedType
    <3> QED
      BY <1>4, <3>2 DEF CheckpointAndRestore, runVars, firingVars, TypeOK, StatusValues
  <2>2. CASE ~Restorable
    BY <1>4, <2>2 DEF CheckpointAndRestore, runVars, firingVars, TypeOK
  <2> QED
    BY <2>1, <2>2
<1>5. ASSUME NEW max \in Limits \cup {Unlimited}, Run(max)
      PROVE  TypeOK'
  BY <1>0, <1>5 DEF Run, agendaVars, firingVars, TypeOK
<1>6. CASE Cancel \/ Halted \/ Limited
  <2>1. PICK how \in {"canceled", "halted", "limit"} : EndEarly(how)
    BY <1>6 DEF Cancel, Halted, Limited
  <2>2. End(how) /\ UNCHANGED <<session, tokens, agendaVars, focus, firingVars, spent>>
    BY <2>1 DEF EndEarly
  <2> QED
    BY <2>2, EndTypes DEF agendaVars, firingVars, TypeOK
<1>7. CASE Completed
  <2>1. /\ focus' = Exhausted /\ Compacted(status, support) /\ End("completed")
        /\ UNCHANGED <<session, tokens, refracted, ready, firingVars, spent>>
    BY <1>7 DEF Completed
  <2>2. focus' \in Seq(Modules)
    BY <2>1, ExhaustedType DEF TypeOK
  <2> QED
    BY <2>1, <2>2, CompactedType, EndTypes DEF firingVars, TypeOK, StatusValues
<1>8. ASSUME NEW m \in Matches, Fire(m)
      PROVE  TypeOK'
  <2>1. focus' \in Seq(Modules)
    BY <1>8, FramesType DEF Fire, TypeOK
  <2> QED
    BY <1>8, <2>1 DEF Fire, firingVars, TypeOK
<1>9. CASE Act
  <2>1. PICK d \in Deltas :
          Propagate(d) /\ IF Direct THEN ApplyAtOnce(d) ELSE Coalesce(d)
    BY <1>9 DEF Act
  <2>2. tokens' \subseteq Tokens /\ spent' \subseteq Matches
    BY <2>1, PropagateType
  <2>3. /\ status' \in [Matches -> StatusValues] /\ support' \in [Matches -> Nat]
        /\ refracted' \in [Matches -> Nat] /\ ready' \in BOOLEAN
        /\ states' \in Seq(Entry) /\ delta' \in {"none", "direct", "coalesced"}
    <3>1. CASE Direct
      <4>1. /\ Apply(d.removed, d.added)
            /\ refracted' = Unrefract(Hold(Elems(d.removed)))
            /\ delta' = "direct" /\ ready' = ready /\ states' = states
        BY <2>1, <3>1 DEF ApplyAtOnce
      <4> QED
        BY <4>1, DeltaFacts, ApplyType, UnrefractType DEF TypeOK
    <3>2. CASE ~Direct
      <4>1. /\ states' = RecordAll(RecordAll(states, d.removed, FALSE), d.added, TRUE)
            /\ delta' = "coalesced" /\ UNCHANGED agendaVars
        BY <2>1, <3>2 DEF Coalesce
      <4>2. states' \in Seq(Entry)
        BY <4>1, DeltaFacts, RecordAllType DEF TypeOK
      <4> QED
        BY <4>1, <4>2 DEF agendaVars, TypeOK, StatusValues
    <3> QED
      BY <3>1, <3>2
  <2>4. /\ acts' \in 0 .. MaxActs
        /\ UNCHANGED <<session, focus, phase, current, fired, limit, halt, outcome>>
    BY <1>0, <1>9 DEF Act, Acting, runVars, TypeOK
  <2> QED
    BY <2>2, <2>3, <2>4 DEF TypeOK, StatusValues
<1>10. CASE ActFocus
  <2>1. focus' \in Seq(Modules)
    BY <1>10, ChangeFocusType DEF ActFocus
  <2> QED
    BY <1>0, <1>10, <2>1 DEF ActFocus, Acting, agendaVars, runVars, TypeOK
<1>11. CASE ActHalt
  BY <1>11 DEF ActHalt, agendaVars, firingVars, TypeOK
<1>12. CASE Fired
  <2>1. /\ phase' \in {"compacting", "looping"} /\ current' = NoMatch
        /\ delta' = "none" /\ states' = <<>> /\ acts' = 0 /\ Settle
        /\ UNCHANGED <<session, tokens, ready, fired, limit, halt, outcome, spent>>
    BY <1>12 DEF Fired, Forget
  <2>2. <<>> \in Seq(Entry) /\ 0 \in 0 .. MaxActs
    BY <1>0, EmptySeq
  <2> QED
    BY <2>1, <2>2, SettleType DEF TypeOK, StatusValues
<1>13. CASE Compact
  BY <1>13, CompactedType DEF Compact, firingVars, TypeOK, StatusValues
<1>14. ASSUME NEW how \in {"action_failed", "canceled"}, Abandon(how)
       PROVE  TypeOK'
  <2>1. /\ End(how) /\ ready' = (delta = "none")
        /\ delta' = "none" /\ states' = <<>> /\ acts' = 0
        /\ UNCHANGED <<session, tokens, status, support, refracted, focus, spent>>
    BY <1>14 DEF Abandon, Forget
  <2>2. <<>> \in Seq(Entry) /\ 0 \in 0 .. MaxActs
    BY <1>0, EmptySeq
  <2> QED
    BY <2>1, <2>2, EndTypes DEF TypeOK
<1>15. CASE UNCHANGED vars
  BY <1>15 DEF vars, agendaVars, runVars, firingVars, TypeOK
<1> QED
  BY <1>1, <1>2, <1>3, <1>4, <1>5, <1>6, <1>7, <1>8, <1>9, <1>10, <1>11, <1>12, <1>13,
     <1>14, <1>15 DEF Next

\* Every variable stays in its range, for every value of the constants: what the
\* agenda, the coalesced entries and the focus stack hold is made by recursion over
\* the lists of a delta.
THEOREM AgendaTypes == Spec => []TypeOK
BY TypeInit, TypeStep, PTL DEF Spec

----------------------------------------------------------------------------
\* The invariant.

\* One token derives each match, and no mutation's context ends between its commit
\* and the agenda.
Unbranched == \A t, u \in Tokens : MatchOf[t] = MatchOf[u] => t = u
Punctual   == \A kind \in Sessions : ~kind.deadlines

\* What the loop and a firing keep for themselves.
Looping ==
  /\ phase = "firing" <=> current # NoMatch
  /\ phase # "idle" => ready /\ outcome = "none"
  /\ phase # "firing" => delta = "none"
  /\ delta # "coalesced" => states = <<>>
  /\ delta = "coalesced" => CollectChanges
  /\ delta = "direct" => ~CollectChanges

Touched == {states[i].match : i \in DOMAIN states}

\* A pending row counts its one token, and its match holds unless an entry of this
\* firing is still to tell of it; a row that is not in use counts nothing.
Rows ==
  /\ \A m \in Pending(status) :
       support[m] = 1 /\ m \notin spent /\ (m \in Live \/ m \in Touched)
  /\ \A m \in Matches : status[m] \in {"none", "deactivated"} => support[m] = 0

\* The entries of a firing tell of the matches it has touched as the graph has them.
Entries == Tells(status, states, Touched, Live) /\ Touched \cap spent = {}

\* Where deltas are applied at once the rows and the refractions are exact.
Exact ==
  /\ Live \ spent \subseteq Pending(status)
  /\ \A m \in Matches :
       /\ refracted[m] = (IF m \in spent THEN 1 ELSE 0)
       /\ status[m] = "consumed" => m \in spent /\ support[m] = 1

AgendaInv ==
  /\ TypeOK
  /\ Looping
  /\ spent \subseteq Live
  /\ ready => Rows /\ Entries /\ (~CollectChanges => Exact)

----------------------------------------------------------------------------
\* Deltas where one token derives each match.

LEMMA CountOne ==
  ASSUME NEW s \in Seq(Tokens),
         \A i, j \in DOMAIN s : MatchOf[s[i]] = MatchOf[s[j]] => i = j
  PROVE  \A m \in Matches : Count(s, m) = IF m \in Hold(Elems(s)) THEN 1 ELSE 0
<1> SUFFICES ASSUME NEW m \in Matches
             PROVE  Count(s, m) = IF m \in Hold(Elems(s)) THEN 1 ELSE 0
  OBVIOUS
<1> DEFINE at == {i \in DOMAIN s : MatchOf[s[i]] = m}
<1>1. CASE m \in Hold(Elems(s))
  <2>1. PICK i \in DOMAIN s : MatchOf[s[i]] = m
    BY <1>1 DEF Hold, Elems
  <2>2. at = {i}
    BY <2>1
  <2> QED
    BY <1>1, <2>2, FS_Singleton DEF Count
<1>2. CASE m \notin Hold(Elems(s))
  <2>1. at = {}
    BY <1>2 DEF Hold, Elems
  <2> QED
    BY <1>2, <2>1, FS_EmptySet DEF Count
<1> QED
  BY <1>1, <1>2

LEMMA DeltaCounts ==
  ASSUME Unbranched, NEW d \in Deltas
  PROVE  \A m \in Matches :
           /\ Count(d.removed, m) = IF m \in Hold(Elems(d.removed)) THEN 1 ELSE 0
           /\ Count(d.added, m) = IF m \in Hold(Elems(d.added)) THEN 1 ELSE 0
<1>1. ASSUME NEW s \in Lists(Tokens)
      PROVE  \A m \in Matches : Count(s, m) = IF m \in Hold(Elems(s)) THEN 1 ELSE 0
  <2>1. /\ s \in Seq(Tokens) /\ DOMAIN s = 1 .. Len(s)
        /\ \A i, j \in DOMAIN s : i # j => s[i] # s[j]
    BY ListFacts
  <2>2. \A i \in DOMAIN s : s[i] \in Tokens
    BY <2>1, ElementOfSeq
  <2>3. \A i, j \in DOMAIN s : MatchOf[s[i]] = MatchOf[s[j]] => i = j
    BY <2>1, <2>2 DEF Unbranched
  <2> QED
    BY <2>1, <2>3, CountOne
<1> QED
  BY <1>1, DeltaFacts

LEMMA PropagateFacts ==
  ASSUME Unbranched, tokens \subseteq Tokens, spent \subseteq Live,
         NEW d \in Deltas, Propagate(d)
  PROVE  /\ Hold(Elems(d.removed)) \subseteq Live
         /\ Hold(Elems(d.added)) \cap Live = {}
         /\ Live' = (Live \ Hold(Elems(d.removed))) \cup Hold(Elems(d.added))
         /\ spent' = spent \ Hold(Elems(d.removed))
<1>1. /\ Elems(d.removed) \subseteq tokens /\ Elems(d.added) \cap tokens = {}
      /\ tokens' = (tokens \ Elems(d.removed)) \cup Elems(d.added)
      /\ spent' = spent \cap Hold(tokens')
  BY DEF Propagate, After
<1>2. Elems(d.removed) \subseteq Tokens /\ Elems(d.added) \subseteq Tokens
  BY DeltaFacts
<1>3. Hold(Elems(d.removed)) \subseteq Live
  BY <1>1 DEF Hold, Live
<1>4. Hold(Elems(d.added)) \cap Live = {}
  BY <1>1, <1>2 DEF Hold, Live, Unbranched
<1>5. Live' = Hold(tokens')
  BY DEF Hold, Live
<1>6. Hold(tokens') = (Live \ Hold(Elems(d.removed))) \cup Hold(Elems(d.added))
  BY <1>1, <1>2 DEF Hold, Live, Unbranched
<1>7. spent' = spent \ Hold(Elems(d.removed))
  BY <1>1, <1>4, <1>6
<1> QED
  BY <1>3, <1>4, <1>5, <1>6, <1>7

\* What Apply does to rows where a delta has at most one token of each match.
LEMMA AppliedRows ==
  ASSUME TypeOK, NEW removed, NEW added, NEW R, NEW A, R \cap A = {},
         \A m \in Matches : /\ Count(removed, m) = IF m \in R THEN 1 ELSE 0
                            /\ Count(added, m) = IF m \in A THEN 1 ELSE 0,
         Hold(Elems(added)) = A,
         \A m \in Matches : /\ status[m] \in {"none", "deactivated"} => support[m] = 0
                            /\ status[m] = "pending" => support[m] = 1 /\ m \notin A,
         Apply(removed, added)
  PROVE  \A m \in Matches :
           /\ status'[m] = IF m \in A /\ status[m] \in {"none", "deactivated"}
                           THEN "pending"
                           ELSE IF /\ m \in R /\ support[m] <= 1
                                   /\ status[m] \in {"pending", "consumed"}
                           THEN "deactivated" ELSE status[m]
           /\ status'[m] = "pending" => support'[m] = 1
           /\ status'[m] \in {"none", "deactivated"} => support'[m] = 0
           /\ m \notin R \cup A => support'[m] = support[m]
<1> SUFFICES ASSUME NEW m \in Matches
             PROVE  /\ status'[m] = IF m \in A /\ status[m] \in {"none", "deactivated"}
                                    THEN "pending"
                                    ELSE IF /\ m \in R /\ support[m] <= 1
                                            /\ status[m] \in {"pending", "consumed"}
                                    THEN "deactivated" ELSE status[m]
                    /\ status'[m] = "pending" => support'[m] = 1
                    /\ status'[m] \in {"none", "deactivated"} => support'[m] = 0
                    /\ m \notin R \cup A => support'[m] = support[m]
  OBVIOUS
<1>1. support[m] \in Nat /\ status[m] \in StatusValues
  BY DEF TypeOK, StatusValues
<1>2. SupportWithout(removed, m) = IF m \in R /\ support[m] > 0 THEN support[m] - 1
                                   ELSE support[m]
  BY <1>1 DEF SupportWithout, Less
<1>3. StatusWithout(removed, m) = IF /\ m \in R /\ support[m] <= 1
                                     /\ status[m] \in {"pending", "consumed"}
                                  THEN "deactivated" ELSE status[m]
  BY <1>1, <1>2 DEF StatusWithout
<1>4. m \in Armed(removed, added) <=>
        m \in A /\ StatusWithout(removed, m) \in {"none", "deactivated"}
  BY DEF Armed
<1>5. /\ status'[m] = IF m \in Armed(removed, added) THEN "pending"
                      ELSE StatusWithout(removed, m)
      /\ support'[m] = SupportWithout(removed, m) + IF m \in A THEN 1 ELSE 0
  BY DEF Apply
<1>6. CASE m \in R
  BY <1>1, <1>2, <1>3, <1>4, <1>5, <1>6 DEF StatusValues
<1>7. CASE m \notin R
  BY <1>1, <1>2, <1>3, <1>4, <1>5, <1>7 DEF StatusValues
<1> QED
  BY <1>6, <1>7

LEMMA NoEntries ==
  /\ states = <<>> => Touched = {}
  /\ states' = <<>> => Touched' = {} /\ Entries'
<1>1. DOMAIN <<>> = {} /\ <<>> \in Seq(Entry)
  BY EmptySeq
<1>2. states = <<>> => Touched = {}
  BY <1>1 DEF Touched
<1>3. states' = <<>> => Touched' = {}
  BY <1>1 DEF Touched
<1>4. ASSUME states' = <<>>
      PROVE  Tells(status', states', Touched', Live')
  BY <1>1, <1>3, <1>4 DEF Tells
<1> QED
  BY <1>2, <1>3, <1>4 DEF Entries

----------------------------------------------------------------------------
\* The invariant is inductive.

LEMMA InvInit == Init => AgendaInv
<1> SUFFICES ASSUME Init PROVE AgendaInv
  OBVIOUS
<1>1. TypeOK
  BY TypeInit
<1>2. Touched = {} /\ Live = {}
  BY NoEntries DEF Init, Live
<1>3. Looping
  BY DEF Init, Looping
<1>4. Rows
  BY <1>2 DEF Init, Rows, Pending
<1>5. Entries
  <2>1. DOMAIN <<>> = {} /\ <<>> \in Seq(Entry)
    BY EmptySeq
  <2> QED
    BY <1>2, <2>1 DEF Init, Entries, Tells
<1>6. Exact
  BY <1>2 DEF Init, Exact
<1> QED
  BY <1>1, <1>2, <1>3, <1>4, <1>5, <1>6 DEF Init, AgendaInv

\* A delta applied at once, outside a firing or in a session that reports nothing.
LEMMA AtOnce ==
  ASSUME AgendaInv, Unbranched, ready, states = <<>>, NEW d \in Deltas, Propagate(d),
         Apply(d.removed, d.added), refracted' = Unrefract(Hold(Elems(d.removed))),
         states' = states, session' = session
  PROVE  spent' \subseteq Live' /\ Rows' /\ Entries' /\ (~CollectChanges => Exact')
<1> DEFINE R == Hold(Elems(d.removed))
           A == Hold(Elems(d.added))
<1>1. /\ R \subseteq Live /\ A \cap Live = {} /\ R \cap A = {} /\ A \subseteq Matches
      /\ Live' = (Live \ R) \cup A /\ spent' = spent \ R
  BY PropagateFacts, DeltaFacts DEF AgendaInv, TypeOK
<1>2. Touched = {} /\ Touched' = {} /\ Entries'
  BY NoEntries
<1>3. Rows /\ spent \subseteq Live /\ TypeOK
  BY DEF AgendaInv
<1>4. /\ \A m \in Matches : status[m] = "pending" =>
           support[m] = 1 /\ m \notin A /\ m \in Live /\ m \notin spent
      /\ \A m \in Matches : status[m] \in {"none", "deactivated"} => support[m] = 0
  BY <1>1, <1>2, <1>3 DEF Rows, Pending
<1>5. \A m \in Matches :
        /\ status'[m] = IF m \in A /\ status[m] \in {"none", "deactivated"}
                        THEN "pending"
                        ELSE IF /\ m \in R /\ support[m] <= 1
                                /\ status[m] \in {"pending", "consumed"}
                        THEN "deactivated" ELSE status[m]
        /\ status'[m] = "pending" => support'[m] = 1
        /\ status'[m] \in {"none", "deactivated"} => support'[m] = 0
        /\ m \notin R \cup A => support'[m] = support[m]
  <2>1. \A m \in Matches : /\ Count(d.removed, m) = IF m \in R THEN 1 ELSE 0
                           /\ Count(d.added, m) = IF m \in A THEN 1 ELSE 0
    BY DeltaCounts
  <2>2. Hold(Elems(d.added)) = A
    OBVIOUS
  <2> HIDE DEF R, A
  <2> QED
    BY <1>1, <1>3, <1>4, <2>1, <2>2, AppliedRows
<1> HIDE DEF R, A
<1>6. spent' \subseteq Live'
  BY <1>1, <1>3
<1>7. \A m \in Matches : status[m] \in StatusValues
  BY <1>3 DEF TypeOK, StatusValues
<1>8. Rows'
  <2>1. ASSUME NEW m \in Matches, status'[m] = "pending"
        PROVE  support'[m] = 1 /\ m \notin spent' /\ m \in Live'
    <3>1. CASE m \in A /\ status[m] \in {"none", "deactivated"}
      BY <1>1, <1>3, <1>5, <2>1, <3>1
    <3>2. CASE ~(m \in A /\ status[m] \in {"none", "deactivated"})
      <4>1. status[m] = "pending" /\ m \notin R
        BY <1>4, <1>5, <2>1, <3>2
      <4> QED
        BY <1>1, <1>4, <1>5, <2>1, <4>1
    <3> QED
      BY <3>1, <3>2
  <2> QED
    BY <1>5, <2>1 DEF Rows, Pending
<1>9. ASSUME ~CollectChanges
      PROVE  Exact'
  <2>1. /\ Live \ spent \subseteq Pending(status)
        /\ \A m \in Matches :
             /\ refracted[m] = (IF m \in spent THEN 1 ELSE 0)
             /\ status[m] = "consumed" => m \in spent /\ support[m] = 1
    BY <1>9 DEF AgendaInv, Exact
  <2>2. ASSUME NEW m \in Live', m \notin spent'
        PROVE  m \in Matches /\ status'[m] = "pending"
    <3>1. CASE m \in A
      <4>1. m \in Matches /\ status[m] \in {"none", "deactivated"}
        BY <1>1, <1>3, <1>4, <1>7, <2>1, <3>1 DEF StatusValues
      <4> QED
        BY <1>5, <3>1, <4>1
    <3>2. CASE m \notin A
      <4>1. m \in Live /\ m \notin R /\ m \notin spent
        BY <1>1, <2>2, <3>2
      <4>2. m \in Matches /\ status[m] = "pending"
        BY <2>1, <4>1 DEF Pending
      <4> QED
        BY <1>5, <3>2, <4>1, <4>2
    <3> QED
      BY <3>1, <3>2
  <2>3. ASSUME NEW m \in Matches
        PROVE  refracted'[m] = (IF m \in spent' THEN 1 ELSE 0)
    <3>1. refracted'[m] = IF m \in R THEN 0 ELSE refracted[m]
      BY DEF Unrefract, R
    <3> QED
      BY <1>1, <2>1, <3>1
  <2>4. ASSUME NEW m \in Matches, status'[m] = "consumed"
        PROVE  m \in spent' /\ support'[m] = 1
    <3>1. status[m] = "consumed" /\ ~(m \in R /\ support[m] <= 1)
      BY <1>5, <2>4
    <3>2. m \in spent /\ support[m] = 1
      BY <2>1, <3>1
    <3>3. m \notin R /\ m \notin A
      BY <1>1, <1>3, <3>1, <3>2
    <3> QED
      BY <1>1, <1>5, <3>2, <3>3
  <2>5. Live' \ spent' \subseteq Pending(status')
    BY <2>2 DEF Pending
  <2> QED
    BY <2>3, <2>4, <2>5 DEF Exact
<1> QED
  BY <1>2, <1>6, <1>8, <1>9

\* A coalesced delta: the entries learn of it, and the rows wait.
LEMMA AtTheEnd ==
  ASSUME AgendaInv, Unbranched, ready, NEW d \in Deltas, Propagate(d), Coalesce(d)
  PROVE  spent' \subseteq Live' /\ Rows' /\ Entries'
<1> DEFINE R == Hold(Elems(d.removed))
           A == Hold(Elems(d.added))
           T == (Touched \cup R) \cup A
           first == RecordAll(states, d.removed, FALSE)
<1>1. /\ R \subseteq Live /\ A \cap Live = {} /\ R \cap A = {} /\ A \subseteq Matches
      /\ Live' = (Live \ R) \cup A /\ spent' = spent \ R
      /\ d.removed \in Seq(Tokens) /\ d.added \in Seq(Tokens)
  BY PropagateFacts, DeltaFacts DEF AgendaInv, TypeOK
<1>2. /\ Rows /\ spent \subseteq Live /\ Touched \cap spent = {}
      /\ Tells(status, states, Touched, Live)
  BY DEF AgendaInv, Entries
<1>3. /\ states' = RecordAll(first, d.added, TRUE) /\ UNCHANGED <<status, support>>
  BY DEF Coalesce, agendaVars
<1>4. Tells(status, first, Touched \cup R, Live \ R)
  <2>1. Tells(status, first, Touched \cup R,
              IF FALSE THEN Live \cup Hold(Elems(d.removed))
                       ELSE Live \ Hold(Elems(d.removed)))
    BY <1>1, <1>2, RecordAllTells
  <2> QED
    BY <2>1
<1>5. Tells(status, states', T, (Live \ R) \cup A)
  <2> HIDE DEF first
  <2>1. Tells(status, RecordAll(first, d.added, TRUE),
              (Touched \cup R) \cup Hold(Elems(d.added)),
              IF TRUE THEN (Live \ R) \cup Hold(Elems(d.added))
                      ELSE (Live \ R) \ Hold(Elems(d.added)))
    BY <1>1, <1>4, RecordAllTells
  <2> QED
    BY <1>3, <2>1
<1> HIDE DEF first
<1>6. Touched' = T
  BY <1>5 DEF Touched, Tells
<1>7. Tells(status', states', Touched', Live')
  BY <1>1, <1>3, <1>5, <1>6
<1> HIDE DEF R, A
<1>8. spent' \subseteq Live' /\ Touched' \cap spent' = {}
  BY <1>1, <1>2, <1>6
<1>9. Rows'
  BY <1>1, <1>2, <1>3, <1>6 DEF Rows, Pending
<1> QED
  BY <1>7, <1>8, <1>9 DEF Entries

\* The end of a firing: what the entries tell is applied to the rows.
LEMMA Settled ==
  ASSUME AgendaInv, ready, delta = "coalesced", Settle, states' = <<>>,
         UNCHANGED <<tokens, spent>>
  PROVE  Rows'
<1> DEFINE R == {states[i].match : i \in Keeps(FALSE)}
           A == {states[i].match : i \in Keeps(TRUE)}
<1>1. /\ Rows /\ spent \subseteq Live /\ Touched \cap spent = {} /\ TypeOK
      /\ Tells(status, states, Touched, Live)
  BY DEF AgendaInv, Entries
<1>2. /\ \A i \in DOMAIN states :
           /\ states[i].match \in Touched
           /\ states[i].initial <=> status[states[i].match] = "pending"
           /\ states[i].present <=> states[i].match \in Live
      /\ \A i, j \in DOMAIN states : states[i].match = states[j].match => i = j
      /\ \A m \in Touched : \E i \in DOMAIN states : states[i].match = m
  BY <1>1 DEF Tells, Touched
<1>3. \A i \in DOMAIN states :
        states[i].present \in BOOLEAN /\ states[i].initial \in BOOLEAN
  <2>1. states \in Seq(Entry)
    BY <1>1 DEF TypeOK
  <2>2. \A i \in DOMAIN states : states[i] \in Entry
    BY <2>1, LenProperties, ElementOfSeq
  <2> QED
    BY <2>2 DEF Entry
<1>a. /\ \A i : i \in Keeps(FALSE) <=>
             i \in DOMAIN states /\ states[i].match \notin Live
               /\ status[states[i].match] = "pending"
      /\ \A i : i \in Keeps(TRUE) <=>
             i \in DOMAIN states /\ states[i].match \in Live
               /\ status[states[i].match] # "pending"
  BY <1>2, <1>3 DEF Keeps
<1>4. ASSUME NEW m
      PROVE  m \in R <=> (m \in Touched /\ m \notin Live /\ status[m] = "pending")
  <2>1. ASSUME m \in R
        PROVE  m \in Touched /\ m \notin Live /\ status[m] = "pending"
    <3>1. PICK i \in Keeps(FALSE) : states[i].match = m
      BY <2>1
    <3> QED
      BY <1>2, <1>a, <3>1
  <2>2. ASSUME m \in Touched, m \notin Live, status[m] = "pending"
        PROVE  m \in R
    <3>1. PICK i \in DOMAIN states : states[i].match = m
      BY <1>2, <2>2
    <3>2. i \in Keeps(FALSE)
      BY <1>a, <2>2, <3>1
    <3> QED
      BY <3>1, <3>2
  <2> QED
    BY <2>1, <2>2
<1>5. ASSUME NEW m
      PROVE  m \in A <=> (m \in Touched /\ m \in Live /\ status[m] # "pending")
  <2>1. ASSUME m \in A
        PROVE  m \in Touched /\ m \in Live /\ status[m] # "pending"
    <3>1. PICK i \in Keeps(TRUE) : states[i].match = m
      BY <2>1
    <3> QED
      BY <1>2, <1>a, <3>1
  <2>2. ASSUME m \in Touched, m \in Live, status[m] # "pending"
        PROVE  m \in A
    <3>1. PICK i \in DOMAIN states : states[i].match = m
      BY <1>2, <2>2
    <3>2. i \in Keeps(TRUE)
      BY <1>a, <2>2, <3>1
    <3> QED
      BY <3>1, <3>2
  <2> QED
    BY <2>1, <2>2
<1>6. /\ Net(FALSE) \in Seq(Tokens) /\ Net(TRUE) \in Seq(Tokens)
      /\ Hold(Elems(Net(FALSE))) = R /\ Hold(Elems(Net(TRUE))) = A
      /\ \A i, j \in DOMAIN Net(FALSE) :
           MatchOf[Net(FALSE)[i]] = MatchOf[Net(FALSE)[j]] => i = j
      /\ \A i, j \in DOMAIN Net(TRUE) :
           MatchOf[Net(TRUE)[i]] = MatchOf[Net(TRUE)[j]] => i = j
  <2>1. states \in Seq(Entry)
    BY <1>1 DEF TypeOK
  <2> QED
    BY <1>2, <2>1, NetFacts
<1> HIDE DEF R, A
<1>7. \A m \in Matches : /\ Count(Net(FALSE), m) = IF m \in R THEN 1 ELSE 0
                         /\ Count(Net(TRUE), m) = IF m \in A THEN 1 ELSE 0
  <2>1. \A m \in Matches :
          Count(Net(FALSE), m) = IF m \in Hold(Elems(Net(FALSE))) THEN 1 ELSE 0
    BY <1>6, CountOne
  <2>2. \A m \in Matches :
          Count(Net(TRUE), m) = IF m \in Hold(Elems(Net(TRUE))) THEN 1 ELSE 0
    BY <1>6, CountOne
  <2> QED
    BY <1>6, <2>1, <2>2
<1>8. /\ \A m \in Matches : status[m] = "pending" =>
           support[m] = 1 /\ m \notin A /\ m \notin spent /\ (m \in Live \/ m \in Touched)
      /\ \A m \in Matches : status[m] \in {"none", "deactivated"} => support[m] = 0
  BY <1>1, <1>5 DEF Rows, Pending
<1>9. Apply(Net(FALSE), Net(TRUE))
  BY DEF Settle
<1>10. R \cap A = {}
  BY <1>4, <1>5
<1>11. \A m \in Matches :
         /\ status'[m] = IF m \in A /\ status[m] \in {"none", "deactivated"}
                         THEN "pending"
                         ELSE IF /\ m \in R /\ support[m] <= 1
                                 /\ status[m] \in {"pending", "consumed"}
                         THEN "deactivated" ELSE status[m]
         /\ status'[m] = "pending" => support'[m] = 1
         /\ status'[m] \in {"none", "deactivated"} => support'[m] = 0
  <2>1. \A m \in Matches :
          /\ status[m] \in {"none", "deactivated"} => support[m] = 0
          /\ status[m] = "pending" => support[m] = 1 /\ m \notin A
    BY <1>8
  <2>2. PICK removed, added, gone, come :
          removed = Net(FALSE) /\ added = Net(TRUE) /\ gone = R /\ come = A
    OBVIOUS
  <2>3. Apply(removed, added)
    BY <1>9, <2>2 DEF Apply, SupportWithout, StatusWithout, Armed, Count, Hold, Elems
  <2>4. \A m \in Matches : /\ Count(removed, m) = IF m \in gone THEN 1 ELSE 0
                           /\ Count(added, m) = IF m \in come THEN 1 ELSE 0
    BY <1>7, <2>2 DEF Count
  <2>5. Hold(Elems(added)) = come
    BY <1>6, <2>2 DEF Hold, Elems
  <2>6. /\ gone \cap come = {} /\ TypeOK
        /\ \A m \in Matches :
             /\ status[m] \in {"none", "deactivated"} => support[m] = 0
             /\ status[m] = "pending" => support[m] = 1 /\ m \notin come
    BY <1>1, <1>10, <2>1, <2>2
  <2>7. \A m \in Matches :
          /\ status'[m] = IF m \in come /\ status[m] \in {"none", "deactivated"}
                          THEN "pending"
                          ELSE IF /\ m \in gone /\ support[m] <= 1
                                  /\ status[m] \in {"pending", "consumed"}
                          THEN "deactivated" ELSE status[m]
          /\ status'[m] = "pending" => support'[m] = 1
          /\ status'[m] \in {"none", "deactivated"} => support'[m] = 0
    BY <2>3, <2>4, <2>5, <2>6, AppliedRows
  <2> QED
    BY <2>2, <2>7
<1>12. ASSUME NEW m \in Matches, status'[m] = "pending"
       PROVE  m \notin spent /\ m \in Live
  <2>1. CASE m \in A /\ status[m] \in {"none", "deactivated"}
    BY <1>1, <1>5, <2>1
  <2>2. CASE ~(m \in A /\ status[m] \in {"none", "deactivated"})
    <3>1. status[m] = "pending" /\ m \notin R
      BY <1>8, <1>11, <1>12, <2>2
    <3> QED
      BY <1>4, <1>8, <3>1
  <2> QED
    BY <2>1, <2>2
<1> QED
  BY <1>11, <1>12 DEF Rows, Pending, Live

\* Rows that are not pending are given up, in the middle of a run or at its end.
LEMMA CompactRows ==
  ASSUME AgendaInv, ready, states = <<>>, Compacted(status, support),
         UNCHANGED <<session, tokens, refracted, states, spent>>
  PROVE  Rows' /\ Entries' /\ (~CollectChanges => Exact')
<1>1. Rows /\ TypeOK /\ (~CollectChanges => Exact)
  BY DEF AgendaInv
<1>2. Touched = {} /\ Touched' = {} /\ Entries'
  BY NoEntries
<1>3. \A m \in Matches :
        /\ status'[m] = IF status[m] = "pending" THEN "pending" ELSE "none"
        /\ support'[m] = IF status[m] = "pending" THEN support[m] ELSE 0
  BY DEF Compacted
<1>4. Rows'
  BY <1>1, <1>2, <1>3 DEF Rows, Pending, Live
<1>5. ASSUME ~CollectChanges
      PROVE  Exact'
  BY <1>1, <1>3, <1>5 DEF Exact, Pending, Live
<1> QED
  BY <1>2, <1>4, <1>5

LEMMA InvStep ==
  ASSUME Unbranched, Punctual, AgendaInv, [Next]_vars
  PROVE  AgendaInv'
<1>0. TypeOK' /\ TypeOK /\ Looping /\ spent \subseteq Live
  BY TypeStep DEF AgendaInv
<1> SUFFICES /\ Looping' /\ spent' \subseteq Live'
             /\ ready' => Rows' /\ Entries' /\ (~CollectChanges' => Exact')
  BY <1>0 DEF AgendaInv
<1>a. NoMatch \notin Matches
  BY AgendaAssumption
<1>b. ready => Rows /\ Entries /\ (~CollectChanges => Exact)
  BY DEF AgendaInv
<1>c. session' = session => (CollectChanges' <=> CollectChanges)
  BY DEF CollectChanges, HasAutoFocus
\* A step that leaves the graph, the agenda and the entries alone.
<1>d. ASSUME UNCHANGED <<session, tokens, agendaVars, states, spent>>
      PROVE  /\ spent' \subseteq Live'
             /\ ready' => Rows' /\ Entries' /\ (~CollectChanges' => Exact')
  BY <1>0, <1>b, <1>c, <1>d DEF agendaVars, Rows, Entries, Exact, Touched, Live, Pending
<1>1. CASE Mutate
  <2>1. PICK d \in Deltas :
          /\ Propagate(d) /\ Reconcile(d, FALSE)
          /\ outcome' = "none" /\ UNCHANGED runVars
    <3>1. session.deadlines = FALSE
      BY <1>0, AgendaAssumption DEF TypeOK, Punctual
    <3> QED
      BY <1>1, <3>1 DEF Mutate
  <2>2. phase \in {"idle", "looping"} /\ UNCHANGED <<session, delta, states, acts>>
    BY <1>1 DEF Mutate, firingVars
  <2>3. states = <<>> /\ ready' = ready
    BY <1>0, <2>1, <2>2 DEF Looping, Reconcile, agendaVars
  <2>4. Looping'
    BY <1>0, <1>c, <2>1, <2>2, <2>3 DEF Looping, runVars
  <2>5. CASE ready
    BY <1>c, <2>1, <2>2, <2>3, <2>4, <2>5, AtOnce DEF Reconcile
  <2>6. CASE ~ready
    BY <1>0, <2>1, <2>3, <2>4, <2>6, PropagateFacts DEF TypeOK
  <2> QED
    BY <2>5, <2>6
<1>2. CASE MoveFocus
  <2>1. UNCHANGED <<session, tokens, agendaVars, runVars, firingVars, spent>>
    BY <1>2 DEF MoveFocus
  <2>2. outcome' = "none"
    BY <1>2 DEF MoveFocus
  <2>3. Looping'
    BY <1>0, <1>c, <2>1, <2>2 DEF Looping, agendaVars, runVars, firingVars
  <2> QED
    BY <1>d, <2>1, <2>3 DEF firingVars
<1>3. CASE Reset
  <2>1. /\ tokens' = {} /\ spent' = {} /\ ready' = TRUE
        /\ status' = [m \in Matches |-> "none"] /\ support' = [m \in Matches |-> 0]
        /\ refracted' = [m \in Matches |-> 0] /\ outcome' = "none" /\ phase = "idle"
        /\ UNCHANGED <<session, phase, current, delta, states>>
    BY <1>3 DEF Reset, runVars, firingVars
  <2>2. Looping' /\ states' = <<>>
    BY <1>0, <1>c, <2>1 DEF Looping
  <2>3. Live' = {}
    BY <2>1 DEF Live
  <2> QED
    BY <2>1, <2>2, <2>3, NoEntries DEF Rows, Exact, Pending
<1>4. CASE CheckpointAndRestore
  <2>1. /\ phase = "idle" /\ ready /\ outcome' = "none"
        /\ UNCHANGED <<session, tokens, ready, phase, current, delta, states, spent>>
    BY <1>4 DEF CheckpointAndRestore, runVars, firingVars
  <2>2. Looping' /\ states = <<>>
    BY <1>0, <1>c, <2>1 DEF Looping
  <2>3. CASE Restorable
    <3>1. \A m \in Matches :
            /\ status'[m] = Captured[m][1] /\ support'[m] = Captured[m][2]
            /\ refracted'[m] = IF Captured[m][1] = "consumed" THEN Captured[m][2] ELSE 0
      BY <1>4, <2>3 DEF CheckpointAndRestore
    <3>2. \A m \in Matches :
            IF status[m] \in {"pending", "consumed"}
            THEN Captured[m][1] = status[m] /\ Captured[m][2] = support[m]
            ELSE IF refracted[m] > 0
            THEN Captured[m][1] = "consumed" /\ Captured[m][2] = refracted[m]
            ELSE Captured[m][1] = "none" /\ Captured[m][2] = 0
      <4> SUFFICES ASSUME NEW m \in Matches
                   PROVE  IF status[m] \in {"pending", "consumed"}
                          THEN Captured[m][1] = status[m] /\ Captured[m][2] = support[m]
                          ELSE IF refracted[m] > 0
                          THEN Captured[m][1] = "consumed" /\ Captured[m][2] = refracted[m]
                          ELSE Captured[m][1] = "none" /\ Captured[m][2] = 0
        OBVIOUS
      <4>1. Captured[m] = IF status[m] \in {"pending", "consumed"}
                          THEN <<status[m], support[m]>>
                          ELSE IF refracted[m] > 0 THEN <<"consumed", refracted[m]>>
                          ELSE <<"none", 0>>
        BY <1>0, CapturedType
      <4>2. CASE status[m] \in {"pending", "consumed"}
        BY <4>1, <4>2
      <4>3. CASE status[m] \notin {"pending", "consumed"} /\ refracted[m] > 0
        BY <4>1, <4>3
      <4>4. CASE status[m] \notin {"pending", "consumed"} /\ ~(refracted[m] > 0)
        BY <4>1, <4>4
      <4> QED
        BY <4>2, <4>3, <4>4
    <3>3. \A m \in Matches : status[m] \in StatusValues
      BY <1>0 DEF TypeOK, StatusValues
    <3>4. Touched = {} /\ Touched' = {} /\ Entries'
      BY <2>1, <2>2, NoEntries
    <3>5. Rows'
      BY <1>b, <2>1, <3>1, <3>2, <3>3, <3>4 DEF Rows, Pending, Live, StatusValues
    <3>6. ASSUME ~CollectChanges
          PROVE  Exact'
      <4>1. Exact
        BY <1>b, <2>1, <3>6
      <4>2. \A m \in Matches : status'[m] = "pending" <=> status[m] = "pending"
        BY <3>1, <3>2
      <4>3. Live' \ spent' \subseteq Pending(status')
        BY <2>1, <4>1, <4>2 DEF Exact, Pending, Live
      <4>4. ASSUME NEW m \in Matches
            PROVE  /\ refracted'[m] = (IF m \in spent' THEN 1 ELSE 0)
                   /\ status'[m] = "consumed" => m \in spent' /\ support'[m] = 1
        <5>1. /\ refracted[m] = (IF m \in spent THEN 1 ELSE 0)
              /\ status[m] = "consumed" => m \in spent /\ support[m] = 1
              /\ status[m] = "pending" => m \notin spent
          BY <1>b, <2>1, <4>1 DEF Exact, Rows, Pending
        <5> QED
          BY <2>1, <3>1, <3>2, <5>1
      <4> QED
        BY <4>3, <4>4 DEF Exact
    <3>7. spent' \subseteq Live'
      BY <1>0, <2>1 DEF Live
    <3> QED
      BY <1>c, <2>1, <2>2, <3>4, <3>5, <3>6, <3>7
  <2>4. CASE ~Restorable
    BY <1>4, <1>d, <2>1, <2>2, <2>4 DEF CheckpointAndRestore, agendaVars
  <2> QED
    BY <2>3, <2>4
<1>5. ASSUME NEW max \in Limits \cup {Unlimited}, Run(max)
      PROVE  /\ Looping' /\ spent' \subseteq Live'
             /\ ready' => Rows' /\ Entries' /\ (~CollectChanges' => Exact')
  <2>1. /\ phase = "idle" /\ IF ready THEN phase' = "looping" /\ outcome' = "none"
                             ELSE phase' = "idle"
        /\ UNCHANGED <<session, tokens, agendaVars, current, delta, states, spent>>
    BY <1>5 DEF Run, firingVars
  <2>2. Looping'
    BY <1>0, <1>c, <2>1 DEF Looping, agendaVars
  <2> QED
    BY <1>d, <2>1, <2>2
<1>6. CASE Cancel \/ Halted \/ Limited
  <2>1. /\ phase = "looping" /\ phase' = "idle" /\ current' = NoMatch
        /\ UNCHANGED <<session, tokens, agendaVars, delta, states, spent>>
    BY <1>6 DEF Cancel, Halted, Limited, EndEarly, End, firingVars
  <2>2. Looping'
    BY <1>0, <1>c, <2>1 DEF Looping, agendaVars
  <2> QED
    BY <1>d, <2>1, <2>2
<1>7. CASE Completed
  <2>1. /\ phase = "looping" /\ phase' = "idle" /\ current' = NoMatch
        /\ Compacted(status, support)
        /\ UNCHANGED <<session, tokens, refracted, ready, delta, states, spent>>
    BY <1>7 DEF Completed, End, firingVars
  <2>2. Looping' /\ ready /\ states = <<>>
    BY <1>0, <1>c, <2>1 DEF Looping
  <2>3. Rows' /\ Entries' /\ (~CollectChanges => Exact')
    BY <2>1, <2>2, CompactRows
  <2>4. spent' \subseteq Live'
    BY <1>0, <2>1 DEF Live
  <2> QED
    BY <1>c, <2>1, <2>2, <2>3, <2>4
<1>8. ASSUME NEW m \in Matches, Fire(m)
      PROVE  /\ Looping' /\ spent' \subseteq Live'
             /\ ready' => Rows' /\ Entries' /\ (~CollectChanges' => Exact')
  <2>1. /\ phase = "looping" /\ m \in Pending(status)
        /\ status' = [status EXCEPT ![m] = "consumed"]
        /\ refracted' = [refracted EXCEPT ![m] = 1]
        /\ spent' = spent \cup {m} /\ phase' = "firing" /\ current' = m
        /\ UNCHANGED <<session, tokens, support, ready, delta, states, outcome>>
    BY <1>8 DEF Fire, Foremost, ReadyIn, firingVars
  <2>2. Looping' /\ ready /\ states = <<>>
    BY <1>0, <1>a, <1>c, <2>1 DEF Looping
  <2>3. Touched = {} /\ Touched' = {} /\ Entries'
    BY <2>1, <2>2, NoEntries
  <2>4. support[m] = 1 /\ m \in Live
    BY <1>b, <2>1, <2>2, <2>3 DEF Rows
  <2>5. \A n \in Matches :
          /\ status'[n] = IF n = m THEN "consumed" ELSE status[n]
          /\ refracted'[n] = IF n = m THEN 1 ELSE refracted[n]
    BY <1>0, <2>1, <2>4 DEF TypeOK
  <2>6. Rows'
    BY <1>b, <2>1, <2>2, <2>3, <2>5 DEF Rows, Pending, Live
  <2>7. ASSUME ~CollectChanges
        PROVE  Exact'
    BY <1>b, <2>1, <2>2, <2>4, <2>5, <2>7 DEF Exact, Pending, Live
  <2>8. spent' \subseteq Live'
    BY <1>0, <2>1, <2>4 DEF Live
  <2> QED
    BY <1>c, <2>1, <2>2, <2>3, <2>6, <2>7, <2>8
<1>9. CASE Act
  <2>1. PICK d \in Deltas :
          Propagate(d) /\ IF Direct THEN ApplyAtOnce(d) ELSE Coalesce(d)
    BY <1>9 DEF Act
  <2>2. /\ phase = "firing"
        /\ UNCHANGED <<session, phase, current, outcome>>
    BY <1>9 DEF Act, Acting, runVars
  <2>3. ready
    BY <1>0, <2>2 DEF Looping
  <2>4. CASE Direct
    <3>1. /\ Apply(d.removed, d.added) /\ refracted' = Unrefract(Hold(Elems(d.removed)))
          /\ delta' = "direct" /\ UNCHANGED <<ready, states>>
      BY <2>1, <2>4 DEF ApplyAtOnce
    <3>2. states = <<>> /\ ~CollectChanges
      BY <1>0, <2>4 DEF Looping, Direct
    <3>3. Looping'
      BY <1>0, <1>c, <2>2, <3>1, <3>2 DEF Looping
    <3> QED
      BY <1>c, <2>1, <2>2, <2>3, <3>1, <3>2, <3>3, AtOnce
  <2>5. CASE ~Direct
    <3>1. Coalesce(d) /\ delta' = "coalesced" /\ ready' = ready
      BY <2>1, <2>5 DEF Coalesce, agendaVars
    <3>2. CollectChanges
      BY <1>0, <2>5 DEF Looping, Direct
    <3>3. Looping'
      BY <1>0, <1>c, <2>2, <3>1, <3>2 DEF Looping
    <3> QED
      BY <1>c, <2>1, <2>2, <2>3, <3>1, <3>2, <3>3, AtTheEnd
  <2> QED
    BY <2>4, <2>5
<1>10. CASE ActFocus
  <2>1. UNCHANGED <<session, tokens, agendaVars, delta, states, spent, runVars, outcome>>
    BY <1>10 DEF ActFocus, Acting
  <2>2. Looping'
    BY <1>0, <1>c, <2>1 DEF Looping, agendaVars, runVars
  <2> QED
    BY <1>d, <2>1, <2>2
<1>11. CASE ActHalt
  <2>1. UNCHANGED <<session, tokens, agendaVars, delta, states, spent, phase, current,
                    outcome>>
    BY <1>11 DEF ActHalt, firingVars
  <2>2. Looping'
    BY <1>0, <1>c, <2>1 DEF Looping, agendaVars
  <2> QED
    BY <1>d, <2>1, <2>2
<1>12. CASE Fired
  <2>1. /\ phase = "firing" /\ phase' \in {"compacting", "looping"} /\ current' = NoMatch
        /\ delta' = "none" /\ states' = <<>> /\ Settle
        /\ UNCHANGED <<session, tokens, ready, outcome, spent>>
    BY <1>12 DEF Fired, Forget
  <2>2. Looping' /\ ready
    BY <1>0, <1>c, <2>1 DEF Looping
  <2>3. spent' \subseteq Live' /\ Entries' /\ Touched' = {}
    BY <1>0, <2>1, NoEntries DEF Live
  <2>4. CASE delta = "coalesced"
    <3>1. Rows' /\ CollectChanges
      BY <1>0, <2>1, <2>2, <2>4, Settled DEF Looping
    <3> QED
      BY <1>c, <2>1, <2>2, <2>3, <3>1
  <2>5. CASE delta # "coalesced"
    <3>1. states = <<>> /\ UNCHANGED <<status, support, refracted>>
      BY <1>0, <2>1, <2>5 DEF Looping, Settle
    <3> QED
      BY <1>d, <2>1, <2>2, <3>1 DEF agendaVars
  <2> QED
    BY <2>4, <2>5
<1>13. CASE Compact
  <2>1. /\ phase = "compacting" /\ phase' = "looping" /\ Compacted(status, support)
        /\ UNCHANGED <<session, tokens, refracted, ready, current, delta, states,
                       outcome, spent>>
    BY <1>13 DEF Compact, firingVars
  <2>2. Looping' /\ ready /\ states = <<>>
    BY <1>0, <1>c, <2>1 DEF Looping
  <2>3. Rows' /\ Entries' /\ (~CollectChanges => Exact')
    BY <2>1, <2>2, CompactRows
  <2>4. spent' \subseteq Live'
    BY <1>0, <2>1 DEF Live
  <2> QED
    BY <1>c, <2>1, <2>2, <2>3, <2>4
<1>14. ASSUME NEW how \in {"action_failed", "canceled"}, Abandon(how)
       PROVE  /\ Looping' /\ spent' \subseteq Live'
              /\ ready' => Rows' /\ Entries' /\ (~CollectChanges' => Exact')
  <2>1. /\ phase = "firing" /\ phase' = "idle" /\ current' = NoMatch
        /\ ready' = (delta = "none") /\ delta' = "none" /\ states' = <<>>
        /\ UNCHANGED <<session, tokens, status, support, refracted, spent>>
    BY <1>14 DEF Abandon, Forget, End
  <2>2. Looping' /\ ready
    BY <1>0, <1>c, <2>1 DEF Looping
  <2>3. spent' \subseteq Live'
    BY <1>0, <2>1 DEF Live
  <2>4. CASE ready'
    <3>1. states = <<>> /\ ready' = ready
      BY <1>0, <2>1, <2>2, <2>4 DEF Looping
    <3> QED
      BY <1>d, <2>1, <2>2, <3>1 DEF agendaVars
  <2> QED
    BY <2>2, <2>3, <2>4
<1>15. CASE UNCHANGED vars
  <2>1. UNCHANGED <<session, tokens, agendaVars, states, spent, phase, current, delta,
                    outcome>>
    BY <1>15 DEF vars, runVars, firingVars
  <2>2. Looping'
    BY <1>0, <1>c, <2>1 DEF Looping, agendaVars
  <2> QED
    BY <1>d, <2>1, <2>2
<1> QED
  BY <1>1, <1>2, <1>3, <1>4, <1>5, <1>6, <1>7, <1>8, <1>9, <1>10, <1>11, <1>12, <1>13,
     <1>14, <1>15 DEF Next

\* In every reachable state the agenda is as AgendaInv says.
THEOREM AgendaInvariant ==
  ASSUME Unbranched, Punctual
  PROVE  Spec => []AgendaInv
<1>1. AgendaInv /\ [Next]_vars => AgendaInv'
  BY InvStep
<1> QED
  BY <1>1, InvInit, PTL DEF Spec

----------------------------------------------------------------------------
\* What the invariant says of a session that is not dirty.

LEMMA InvAgendaExact ==
  ASSUME Unbranched, AgendaInv
  PROVE  AgendaExact
<1> SUFFICES ASSUME ready, ~CollectChanges
             PROVE  /\ Pending(status) = Live \ spent
                    /\ \A m \in Pending(status) :
                         support[m] = Cardinality({t \in tokens : MatchOf[t] = m})
  BY DEF AgendaExact
<1>1. Touched = {}
  BY NoEntries DEF AgendaInv, Looping
<1>2. Rows /\ Live \ spent \subseteq Pending(status) /\ tokens \subseteq Tokens
  BY DEF AgendaInv, Exact, TypeOK
<1>3. ASSUME NEW m \in Pending(status)
      PROVE  support[m] = Cardinality({t \in tokens : MatchOf[t] = m})
  <2>1. support[m] = 1 /\ m \in Live
    BY <1>1, <1>2 DEF Rows
  <2>2. PICK t \in tokens : MatchOf[t] = m
    BY <2>1 DEF Live
  <2>3. {u \in tokens : MatchOf[u] = m} = {t}
    BY <1>2, <2>2 DEF Unbranched
  <2> QED
    BY <2>1, <2>3, FS_Singleton
<1> QED
  BY <1>1, <1>2, <1>3 DEF Rows

LEMMA InvNothingStale == AgendaInv => NothingStale
BY NoEntries DEF AgendaInv, Looping, NothingStale, Rows

LEMMA InvRefractionsExact == AgendaInv => RefractionsExact
<1> SUFFICES ASSUME AgendaInv, ready, ~CollectChanges
             PROVE  {m \in Matches : refracted[m] > 0} = spent
  BY DEF RefractionsExact
<1>1. spent \subseteq Matches
  BY DEF AgendaInv, TypeOK
<1> QED
  BY <1>1 DEF AgendaInv, Exact

\* What is written is what holds: the pending rows, and what has fired and holds.
LEMMA InvCheckpointRestores == AgendaInv => CheckpointRestores
<1> SUFFICES ASSUME AgendaInv, phase = "idle", ready, ~CollectChanges
             PROVE  {m \in Matches : Captured[m][1] # "none"} = Live
  BY DEF CheckpointRestores, Restorable
<1>1. /\ TypeOK /\ Rows /\ Exact /\ Touched = {} /\ spent \subseteq Live
      /\ Live \subseteq Matches
  BY NoEntries DEF AgendaInv, Looping, Live, Matches, TypeOK
<1>2. ASSUME NEW m \in Matches
      PROVE  Captured[m][1] # "none" <=> m \in Live
  <2>1. Captured[m] = IF status[m] \in {"pending", "consumed"}
                      THEN <<status[m], support[m]>>
                      ELSE IF refracted[m] > 0 THEN <<"consumed", refracted[m]>>
                      ELSE <<"none", 0>>
    BY <1>1, CapturedType
  <2>2. CASE status[m] \in {"pending", "consumed"}
    <3>1. m \in Live
      BY <1>1, <2>2 DEF Rows, Exact, Pending
    <3> QED
      BY <2>1, <2>2, <3>1
  <2>3. CASE status[m] \notin {"pending", "consumed"} /\ refracted[m] > 0
    <3>1. m \in Live
      BY <1>1, <2>3 DEF Exact
    <3> QED
      BY <2>1, <2>3, <3>1
  <2>4. CASE status[m] \notin {"pending", "consumed"} /\ ~(refracted[m] > 0)
    <3>1. m \notin Live
      BY <1>1, <2>4 DEF Exact, Pending
    <3> QED
      BY <2>1, <2>4, <3>1
  <2> QED
    BY <2>2, <2>3, <2>4
<1> QED
  BY <1>1, <1>2

\* Where one token derives each match and every mutation reaches the agenda, the
\* pending activations of a session whose deltas are applied at once are the matches
\* that hold and have not fired, whatever its rules do to the graph while they fire.
THEOREM AgendaIsExact ==
  ASSUME Unbranched, Punctual
  PROVE  Spec => []AgendaExact
<1>1. AgendaInv => AgendaExact
  BY InvAgendaExact
<1> QED
  BY <1>1, AgendaInvariant, PTL

\* Between firings no session has a pending activation of a match that does not hold
\* or has fired, though its deltas were coalesced and its rows behind the graph.
THEOREM NothingIsStale ==
  ASSUME Unbranched, Punctual
  PROVE  Spec => []NothingStale
BY InvNothingStale, AgendaInvariant, PTL

\* The refraction records are the matches that have fired and hold.
THEOREM RefractionsAreExact ==
  ASSUME Unbranched, Punctual
  PROVE  Spec => []RefractionsExact
BY InvRefractionsExact, AgendaInvariant, PTL

\* An idle session that is not dirty restores from its checkpoint, whatever has been
\* fired, taken away, armed again and compacted before it.
THEOREM CheckpointsRestore ==
  ASSUME Unbranched, Punctual
  PROVE  Spec => []CheckpointRestores
BY InvCheckpointRestores, AgendaInvariant, PTL

----------------------------------------------------------------------------
\* What a run reports.

LEMMA EndsStep ==
  ASSUME Unbranched, AgendaInv, EndsAsReported, [Next]_vars
  PROVE  EndsAsReported'
<1>1. TypeOK /\ (phase # "idle" => ready /\ outcome = "none")
  BY DEF AgendaInv, Looping
<1>2. CASE outcome' \notin {"limit", "completed"}
  BY <1>2 DEF EndsAsReported
<1>3. CASE UNCHANGED <<session, tokens, outcome, spent>>
  BY <1>3 DEF EndsAsReported, Live, CollectChanges, HasAutoFocus
<1>4. CASE Limited
  <2>1. phase = "looping" /\ Focusable /\ outcome' = "limit" /\ UNCHANGED <<tokens, spent>>
    BY <1>4 DEF Limited, EndEarly, End
  <2>2. \E m \in Matches : m \in Pending(status)
    BY <1>1, <2>1, FramesType DEF TypeOK
  <2>3. Pending(status) \subseteq Live \ spent
    BY <1>1, <2>1, InvNothingStale DEF NothingStale
  <2> QED
    BY <2>1, <2>2, <2>3 DEF EndsAsReported, Live
<1>5. CASE Completed
  <2>1. /\ phase = "looping" /\ ~Focusable /\ outcome' = "completed"
        /\ UNCHANGED <<session, tokens, spent>>
    BY <1>5 DEF Completed, End
  <2>2. \A m \in Pending(status) : ModuleOf[m] # Main
    BY <1>1, <2>1, Unfocusable DEF TypeOK
  <2>3. ~CollectChanges => Pending(status) = Live \ spent
    BY <1>1, <2>1, InvAgendaExact DEF AgendaExact
  <2> QED
    BY <2>1, <2>2, <2>3 DEF EndsAsReported, Live, CollectChanges, HasAutoFocus
<1>6. CASE Mutate \/ MoveFocus \/ Reset \/ CheckpointAndRestore \/ Cancel \/ Halted
  BY <1>1, <1>2, <1>6 DEF Mutate, MoveFocus, Reset, CheckpointAndRestore, Cancel, Halted,
     EndEarly, End
<1>7. ASSUME NEW max \in Limits \cup {Unlimited}, Run(max)
      PROVE  EndsAsReported'
  BY <1>2, <1>7 DEF Run
<1>8. CASE \/ \E m \in Matches : Fire(m)
           \/ Act \/ ActFocus \/ ActHalt \/ Fired \/ Compact
  <2>1. phase # "idle" /\ outcome' = outcome
    BY <1>8 DEF Fire, Act, ActFocus, Acting, ActHalt, Fired, Compact
  <2> QED
    BY <1>1, <1>2, <2>1
<1>9. CASE Abandon("action_failed") \/ Abandon("canceled")
  BY <1>2, <1>9 DEF Abandon, End
<1>10. CASE UNCHANGED vars
  BY <1>3, <1>10 DEF vars
<1> QED
  BY <1>4, <1>5, <1>6, <1>7, <1>8, <1>9, <1>10 DEF Next

\* A run that reports its limit leaves a match that holds and has not fired; where
\* deltas are applied at once, one that reports completion leaves none in MAIN.
THEOREM RunsEndAsReported ==
  ASSUME Unbranched, Punctual
  PROVE  Spec => []EndsAsReported
<1>1. Init => EndsAsReported
  BY DEF Init, EndsAsReported
<1>2. AgendaInv /\ EndsAsReported /\ [Next]_vars => EndsAsReported'
  BY EndsStep
<1> QED
  BY <1>1, <1>2, AgendaInvariant, PTL DEF Spec

----------------------------------------------------------------------------
\* The refinement: what MatchLifecycle allows is all that a step does.

LEMMA InitPromised == Init => Promise!Init
<1> SUFFICES ASSUME Init PROVE Promise!Init
  OBVIOUS
<1>1. Live = {}
  BY DEF Init, Live
<1> QED
  BY <1>1 DEF Init, Promise!Init

LEMMA StepPromised ==
  ASSUME Unbranched, AgendaInv, AgendaInv', [Next]_vars
  PROVE  [Promise!Next]_<<Live, spent, current>>
<1>1. /\ phase = "firing" <=> current # NoMatch
      /\ spent \subseteq Live /\ Live' \subseteq Matches /\ tokens \subseteq Tokens
  BY DEF AgendaInv, Looping, Live, Matches, TypeOK
<1>2. ASSUME NEW d \in Deltas, Propagate(d), current' = current
      PROVE  Promise!Change
  <2>1. spent' = spent \cap Live'
    BY <1>2 DEF Propagate, Hold, Live
  <2> QED
    BY <1>1, <1>2, <2>1 DEF Promise!Change
<1>3. CASE UNCHANGED <<tokens, spent, current>>
  BY <1>3 DEF Live
<1>4. CASE Mutate
  <2>1. PICK d \in Deltas, late \in {FALSE, session.deadlines} :
          /\ Propagate(d)
          /\ IF late /\ phase = "looping"
             THEN End("canceled") ELSE outcome' = "none" /\ UNCHANGED runVars
    BY <1>4 DEF Mutate
  <2>2. current' = current
    BY <1>1, <1>4, <2>1 DEF Mutate, End, runVars
  <2> QED
    BY <1>2, <2>1, <2>2 DEF Promise!Next
<1>5. CASE Reset
  <2>1. phase = "idle" /\ tokens' = {} /\ spent' = {} /\ current' = current
    BY <1>5 DEF Reset, runVars
  <2> QED
    BY <1>1, <2>1 DEF Promise!Next, Promise!Restart
<1>6. CASE MoveFocus \/ CheckpointAndRestore
  BY <1>3, <1>6 DEF MoveFocus, CheckpointAndRestore, runVars
<1>7. ASSUME NEW max \in Limits \cup {Unlimited}, Run(max)
      PROVE  UNCHANGED <<tokens, spent, current>>
  BY <1>7 DEF Run
<1>8. CASE Cancel \/ Halted \/ Limited \/ Completed
  <2>1. phase = "looping" /\ current' = NoMatch /\ UNCHANGED <<tokens, spent>>
    BY <1>8 DEF Cancel, Halted, Limited, Completed, EndEarly, End
  <2> QED
    BY <1>1, <1>3, <2>1
<1>9. ASSUME NEW m \in Matches, Fire(m)
      PROVE  Promise!Fire(m)
  <2>1. /\ phase = "looping" /\ m \in Pending(status)
        /\ current' = m /\ spent' = spent \cup {m} /\ tokens' = tokens
    BY <1>9 DEF Fire, Foremost, ReadyIn
  <2>2. ready
    BY <2>1 DEF AgendaInv, Looping
  <2>3. m \in Live \ spent
    BY <2>1, <2>2, InvNothingStale DEF NothingStale
  <2>4. Live' = Live
    BY <2>1 DEF Live
  <2> QED
    BY <1>1, <2>1, <2>3, <2>4 DEF Promise!Fire
<1>10. CASE Act
  <2>1. PICK d \in Deltas : Propagate(d)
    BY <1>10 DEF Act
  <2>2. current' = current
    BY <1>10 DEF Act, Acting, runVars
  <2> QED
    BY <1>2, <2>1, <2>2 DEF Promise!Next
<1>11. CASE ActFocus \/ ActHalt \/ Compact
  BY <1>3, <1>11 DEF ActFocus, Acting, ActHalt, Compact, runVars
<1>12. CASE Fired \/ Abandon("action_failed") \/ Abandon("canceled")
  <2>1. phase = "firing" /\ current' = NoMatch /\ UNCHANGED <<tokens, spent>>
    BY <1>12 DEF Fired, Abandon, End
  <2>2. Live' = Live
    BY <2>1 DEF Live
  <2> QED
    BY <1>1, <2>1, <2>2 DEF Promise!Next, Promise!Fired
<1>13. CASE UNCHANGED vars
  BY <1>3, <1>13 DEF vars, runVars
<1> QED
  BY <1>3, <1>4, <1>5, <1>6, <1>7, <1>8, <1>9, <1>10, <1>11, <1>12, <1>13
     DEF Next, Promise!Next

\* Every session fires a match only while it holds, and once for each time it came to
\* hold: the agenda and its run loop implement MatchLifecycle.
THEOREM FiresOnce ==
  ASSUME Unbranched, Punctual
  PROVE  Spec => FiresOncePerMatch
<1>1. AgendaInv /\ AgendaInv' /\ [Next]_vars => [Promise!Next]_<<Live, spent, current>>
  BY StepPromised
<1> QED
  BY <1>1, InitPromised, AgendaInvariant, PTL DEF Spec, FiresOncePerMatch, Promise!Spec
==============================================================================
