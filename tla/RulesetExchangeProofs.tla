------------------------ MODULE RulesetExchangeProofs -------------------------
(***************************************************************************)
(* Theorems about RulesetExchange: for any facts, rules and rulesets, an   *)
(* exchange takes exactly the facts that the rules that stay cannot hold   *)
(* up, leaves nothing of the rules that go, and carries the agenda over.   *)
(***************************************************************************)
EXTENDS RulesetExchangeProps, NumberLemmas

Holding == InForce(there, rules)

----------------------------------------------------------------------------
\* The cascade.

LEMMA Falling ==
  ASSUME NEW smaller, NEW gone, smaller \subseteq gone, NEW cut, NEW e, Falls(e, smaller, cut)
  PROVE  Falls(e, gone, cut)
BY DEF Falls

\* The levels of the cascade.
Levels(down, start, cut) ==
  /\ down \in [0 .. Cardinality(Papers) -> SUBSET Papers]
  /\ down[0] = start
  /\ \A n \in 1 .. Cardinality(Papers) :
       down[n] = down[n - 1] \cup Unsupported(down[n - 1], cut)
  /\ Sink(start, cut) = down[Cardinality(Papers)]

LEMMA SinkSteps ==
  ASSUME NEW start \in SUBSET Papers, NEW cut, there \subseteq Papers
  PROVE  \E down : Levels(down, start, cut)
<1> DEFINE N == Cardinality(Papers)
           X == SUBSET Papers
           G == [x \in X \X (1 .. N) |-> x[1] \cup Unsupported(x[1], cut)]
           Is(g) == g = [n \in 0 .. N |-> IF n = 0 THEN start
                                          ELSE g[n - 1] \cup Unsupported(g[n - 1], cut)]
           down == CHOOSE g : Is(g)
<1>1. N \in Nat
  BY ExchangeAssumption, FS_CardinalityType
<1>2. \A S : Unsupported(S, cut) \in SUBSET Papers
  BY DEF Unsupported
<1>3. G \in [X \X (1 .. N) -> X]
  BY <1>2
<1>4. PICK f : Builds(f, N, X, start, G)
  <2> HIDE DEF G, N
  <2>1. start \in X
    OBVIOUS
  <2> HIDE DEF X
  <2> QED
    BY <1>1, <1>3, <2>1, Recursion
<1>5. ASSUME NEW n \in 1 .. N
      PROVE  f[n] = f[n - 1] \cup Unsupported(f[n - 1], cut)
  <2>1. f[n - 1] \in X
    BY <1>1, <1>4 DEF Builds
  <2> QED
    BY <1>4, <2>1 DEF Builds
<1>6. Is(f)
  BY <1>1, <1>4, <1>5 DEF Builds
<1>7. Is(down)
  <2> HIDE DEF Is
  <2> QED
    BY <1>6
<1>8. Sink(start, cut) = down[N]
  BY DEF Sink
<1> HIDE DEF down
<1>9. /\ down[0] = start
      /\ \A n \in 1 .. N : down[n] = down[n - 1] \cup Unsupported(down[n - 1], cut)
  <2>1. ASSUME NEW n \in 0 .. N
        PROVE  down[n] = IF n = 0 THEN start
                         ELSE down[n - 1] \cup Unsupported(down[n - 1], cut)
    <3> HIDE DEF N
    <3> QED
      BY <1>7
  <2> HIDE DEF N
  <2>2. 0 \in 0 .. N /\ \A n \in 1 .. N : n \in 0 .. N /\ n # 0
    BY <1>1
  <2> QED
    BY <2>1, <2>2
<1>10. down \in [0 .. N -> SUBSET Papers]
  <2> DEFINE S == {n \in Nat : n <= N => down[n] \in SUBSET Papers}
  <2>1. 0 \in S
    BY <1>9
  <2>2. ASSUME NEW n \in Nat, n \in S
        PROVE  n + 1 \in S
    BY <1>1, <1>2, <1>9, <2>2
  <2>3. Nat \subseteq S
    <3> HIDE DEF S
    <3> QED
      BY <2>1, <2>2, Counting
  <2>4. \A n \in 0 .. N : down[n] \in SUBSET Papers
    BY <1>1, <2>3
  <2>5. down = [n \in 0 .. N |-> down[n]]
    BY <1>7
  <2> QED
    BY <2>4, <2>5
<1> QED
  BY <1>8, <1>9, <1>10 DEF Levels

\* Sink is the least set with start that has whatever it leaves unsupported.
LEMMA SinkFacts ==
  ASSUME NEW start \in SUBSET there, NEW cut, there \subseteq Papers
  PROVE  /\ start \subseteq Sink(start, cut) /\ Sink(start, cut) \subseteq there
         /\ Unsupported(Sink(start, cut), cut) \subseteq Sink(start, cut)
         /\ \A p \in Sink(start, cut) \ start : p \in Unsupported(Sink(start, cut), cut)
         /\ \A S : /\ S \cap start = {}
                   /\ \A T : T \cap S = {} => Unsupported(T, cut) \cap S = {}
                   => S \cap Sink(start, cut) = {}
<1> DEFINE N == Cardinality(Papers)
<1>1. N \in Nat /\ IsFiniteSet(Papers)
  BY ExchangeAssumption, FS_CardinalityType
<1>2. PICK down : /\ down \in [0 .. N -> SUBSET Papers]
                  /\ down[0] = start
                  /\ \A n \in 1 .. N :
                       down[n] = down[n - 1] \cup Unsupported(down[n - 1], cut)
                  /\ Sink(start, cut) = down[N]
  <2>1. start \in SUBSET Papers
    OBVIOUS
  <2>2. PICK down : Levels(down, start, cut)
    BY <2>1, SinkSteps
  <2> QED
    BY <2>2 DEF Levels
<1>3. \A n \in Nat : n + 1 <= N =>
        down[n + 1] = down[n] \cup Unsupported(down[n], cut)
  <2> SUFFICES ASSUME NEW n \in Nat, n + 1 <= N
               PROVE  down[n + 1] = down[n] \cup Unsupported(down[n], cut)
    OBVIOUS
  <2>1. n + 1 \in 1 .. N /\ (n + 1) - 1 = n
    BY <1>1
  <2> QED
    BY <1>2, <2>1
<1>4. \A S, T : S \subseteq T => Unsupported(S, cut) \subseteq Unsupported(T, cut)
  BY Falling DEF Unsupported
<1>5. \A S : Unsupported(S, cut) \subseteq there
  BY DEF Unsupported
<1> HIDE DEF N
\* Each level is between start and there, and what a level has is unsupported without it.
<1>6. \A n \in 0 .. N : /\ start \subseteq down[n] /\ down[n] \subseteq there
                        /\ \A p \in down[n] \ start : p \in Unsupported(down[n], cut)
  <2> DEFINE S == {n \in Nat : n <= N =>
                     /\ start \subseteq down[n] /\ down[n] \subseteq there
                     /\ \A p \in down[n] \ start : p \in Unsupported(down[n], cut)}
  <2>1. 0 \in S
    BY <1>2
  <2>2. ASSUME NEW n \in Nat, n \in S
        PROVE  n + 1 \in S
    <3> SUFFICES ASSUME n + 1 <= N
                 PROVE  /\ start \subseteq down[n + 1] /\ down[n + 1] \subseteq there
                        /\ \A p \in down[n + 1] \ start : p \in Unsupported(down[n + 1], cut)
      OBVIOUS
    <3>1. /\ start \subseteq down[n] /\ down[n] \subseteq there
          /\ \A p \in down[n] \ start : p \in Unsupported(down[n], cut)
      BY <1>1, <2>2
    <3>2. down[n + 1] = down[n] \cup Unsupported(down[n], cut)
      BY <1>3
    <3>3. Unsupported(down[n], cut) \subseteq Unsupported(down[n + 1], cut)
      BY <1>4, <3>2
    <3> QED
      BY <1>5, <3>1, <3>2, <3>3
  <2>3. Nat \subseteq S
    <3> HIDE DEF S
    <3> QED
      BY <2>1, <2>2, Counting
  <2> QED
    BY <1>1, <2>3
\* As long as a level adds something there are at least as many facts as levels.
<1>7. \A n \in 0 .. N : \/ Unsupported(down[n], cut) \subseteq down[n]
                        \/ n <= Cardinality(down[n])
  <2> DEFINE S == {n \in Nat : n <= N => \/ Unsupported(down[n], cut) \subseteq down[n]
                                         \/ n <= Cardinality(down[n])}
  <2>1. \A n \in 0 .. N : IsFiniteSet(down[n]) /\ Cardinality(down[n]) \in Nat
    BY <1>1, <1>2, FS_Subset, FS_CardinalityType
  <2>2. 0 \in S
    BY <1>1, <2>1
  <2>3. ASSUME NEW n \in Nat, n \in S
        PROVE  n + 1 \in S
    <3> SUFFICES ASSUME n + 1 <= N, ~(Unsupported(down[n + 1], cut) \subseteq down[n + 1])
                 PROVE  n + 1 <= Cardinality(down[n + 1])
      OBVIOUS
    <3>1. down[n + 1] = down[n] \cup Unsupported(down[n], cut)
      BY <1>3
    <3>2. ~(Unsupported(down[n], cut) \subseteq down[n])
      <4>1. ASSUME Unsupported(down[n], cut) \subseteq down[n]
            PROVE  down[n + 1] = down[n]
        BY <3>1, <4>1
      <4> QED
        BY <4>1
    <3>3. n <= Cardinality(down[n]) /\ n \in 0 .. N /\ n + 1 \in 0 .. N
      BY <1>1, <2>3, <3>2
    <3>4. down[n] \subseteq down[n + 1] /\ down[n] # down[n + 1]
      BY <3>1, <3>2
    <3>5. /\ Cardinality(down[n]) <= Cardinality(down[n + 1])
          /\ Cardinality(down[n]) = Cardinality(down[n + 1]) => down[n] = down[n + 1]
      BY <2>1, <3>3, <3>4, FS_Subset
    <3> QED
      BY <2>1, <3>3, <3>4, <3>5
  <2>4. Nat \subseteq S
    <3> HIDE DEF S
    <3> QED
      BY <2>2, <2>3, Counting
  <2> QED
    BY <1>1, <2>4
<1>8. Unsupported(down[N], cut) \subseteq down[N]
  <2>1. N \in 0 .. N /\ down[N] \subseteq Papers
    BY <1>1, <1>2
  <2>2. CASE N <= Cardinality(down[N])
    <3>1. Cardinality(down[N]) <= N /\ (Cardinality(down[N]) = N => down[N] = Papers)
      BY <1>1, <2>1, FS_Subset DEF N
    <3>2. Cardinality(down[N]) \in Nat
      BY <1>1, <2>1, FS_Subset, FS_CardinalityType
    <3>3. down[N] = Papers
      BY <1>1, <2>2, <3>1, <3>2
    <3> QED
      BY <1>5, <3>3
  <2> QED
    BY <1>7, <2>1, <2>2
<1>9. ASSUME NEW Q, Q \cap start = {},
             \A T : T \cap Q = {} => Unsupported(T, cut) \cap Q = {}
      PROVE  Q \cap down[N] = {}
  <2> DEFINE S == {n \in Nat : n <= N => Q \cap down[n] = {}}
  <2>1. 0 \in S
    BY <1>2, <1>9
  <2>2. ASSUME NEW n \in Nat, n \in S
        PROVE  n + 1 \in S
    <3> SUFFICES ASSUME n + 1 <= N
                 PROVE  Q \cap down[n + 1] = {}
      OBVIOUS
    <3>1. down[n] \cap Q = {}
      BY <1>1, <2>2
    <3>2. Unsupported(down[n], cut) \cap Q = {}
      BY <1>9, <3>1
    <3> QED
      BY <1>3, <3>1, <3>2
  <2>3. Nat \subseteq S
    <3> HIDE DEF S
    <3> QED
      BY <2>1, <2>2, Counting
  <2> QED
    BY <1>1, <2>3
<1> QED
  BY <1>1, <1>2, <1>6, <1>8, <1>9

----------------------------------------------------------------------------
\* The invariant.

Fates == {"none", "pending", "consumed", "deactivated"}

ExchangeTypes ==
  /\ rules \subseteq Revisions
  /\ there \subseteq filed /\ filed \subseteq Papers /\ told \subseteq there
  /\ row \in [Readings -> Fates] /\ count \in [Readings -> Nat]
  /\ due \subseteq Readings /\ astray \subseteq Readings

\* Rows and additions are of the rules in force; what is due holds, and so does what
\* counts as fired.
InPlace ==
  /\ \A m \in Readings : row[m] # "none" \/ m \in due => m.rule \in rules
  /\ done \subseteq Holding
  /\ due \subseteq Holding \cup astray

\* The activation of m is where it belongs; the last two conditions let what is due
\* come later, for a row that has fired is not armed again by it.
Carried(m) ==
  /\ row[m] = "pending" => m \in Holding \ done
  /\ m \in Holding \ (done \cup due) => row[m] = "pending"
  /\ row[m] = "consumed" => m \in done \/ m.on \in filed \ there
  /\ m \in done => row[m] \in {"consumed", "none"}
  /\ m \in done \cap due => row[m] = "consumed"

\* An edge is of a rule in force that derives, and of a match that holds or is astray.
EdgesInForce ==
  /\ \A e \in owed :
       /\ e[1] \in Readings /\ e[1].rule \in rules /\ Yields[e[1].rule] # NoText
       /\ e[2] \in there
       /\ e[1] \in Holding \cup astray
  /\ \A p \in there \ told : Owing(p)

ExchangeInv ==
  /\ ExchangeTypes
  /\ InPlace
  /\ \A m \in Readings \ astray : Carried(m)
  /\ EdgesInForce

----------------------------------------------------------------------------
\* The graph and the rows from one state to the next.

LEMMA HoldingFacts ==
  /\ \A m : m \in Holding <=> /\ m \in Readings /\ m.rule \in rules /\ m.on \in there
                              /\ \A p \in there : Text[p] \notin Refuses[m.rule]
  /\ \A m : m \in Holding' <=> /\ m \in Readings /\ m.rule \in rules' /\ m.on \in there'
                               /\ \A p \in there' : Text[p] \notin Refuses[m.rule]
BY DEF Holding, InForce, Stands

LEMMA GraphMoves ==
  ASSUME rules' = rules
  PROVE  /\ Taken = Holding \ Holding' /\ Gotten = Holding' \ Holding
BY DEF Holding, Taken, Gotten, InForce, Stands

LEMMA RememberFacts ==
  ASSUME NEW fired, Remember(fired)
  PROVE  done' = (done \cup fired) \cap Holding'
BY DEF Remember, Holding, InForce, Stands

\* What Post makes of a row.
LEMMA PostRows ==
  ASSUME NEW now \in [Readings -> Fates], count \in [Readings -> Nat],
         NEW minus, NEW plus, NEW again, Post(now, minus, plus, again)
  PROVE  /\ row' \in [Readings -> Fates] /\ count' \in [Readings -> Nat]
         /\ \A m \in Readings :
              /\ m \notin minus => row'[m] =
                   IF m \in plus \cup again /\ now[m] \in {"none", "deactivated"}
                   THEN "pending" ELSE now[m]
              /\ m \in minus \ (plus \cup again) /\ (now[m] = "none" \/ count[m] <= 1)
                   => row'[m] \in {"none", "deactivated"}
              /\ m \notin plus \cup again /\ now[m] = "none" => row'[m] = "none"
<1> DEFINE hit(m)   == m \in minus /\ now[m] # "none"
           had(m)   == IF now[m] = "none" THEN 0 ELSE count[m]
           fewer(m) == IF hit(m) /\ had(m) > 0 THEN had(m) - 1 ELSE had(m)
           less(m)  == IF hit(m) /\ fewer(m) = 0 THEN "deactivated" ELSE now[m]
<1>1. /\ count' = [m \in Readings |-> fewer(m) + Times(m, plus, again)]
      /\ row' = [m \in Readings |->
                   IF Times(m, plus, again) > 0 /\ less(m) \in {"none", "deactivated"}
                   THEN "pending" ELSE less(m)]
  BY DEF Post
<1>2. \A m \in Readings : now[m] \in Fates /\ count[m] \in Nat
  OBVIOUS
<1>3. \A m \in Readings : /\ Times(m, plus, again) \in Nat
                          /\ Times(m, plus, again) > 0 <=> m \in plus \cup again
  BY DEF Times
<1>4. \A m \in Readings : had(m) \in Nat /\ fewer(m) \in Nat /\ less(m) \in Fates
  BY <1>2 DEF Fates
<1>5. count' \in [Readings -> Nat]
  <2> HIDE DEF fewer
  <2> QED
    BY <1>1, <1>3, <1>4
<1>6. row' \in [Readings -> Fates]
  <2> HIDE DEF less
  <2> QED
    BY <1>1, <1>4 DEF Fates
<1>7. ASSUME NEW m \in Readings, m \notin minus
      PROVE  row'[m] = IF m \in plus \cup again /\ now[m] \in {"none", "deactivated"}
                       THEN "pending" ELSE now[m]
  <2>1. less(m) = now[m]
    BY <1>7
  <2> HIDE DEF less
  <2> QED
    BY <1>1, <1>3, <2>1
<1>8. ASSUME NEW m \in Readings, m \in minus \ (plus \cup again),
             now[m] = "none" \/ count[m] <= 1
      PROVE  row'[m] \in {"none", "deactivated"}
  <2>1. less(m) \in {"none", "deactivated"}
    BY <1>2, <1>8
  <2>2. ~(Times(m, plus, again) > 0)
    BY <1>3, <1>8
  <2> HIDE DEF less
  <2> QED
    BY <1>1, <2>1, <2>2
<1>9. ASSUME NEW m \in Readings, m \notin plus \cup again, now[m] = "none"
      PROVE  row'[m] = "none"
  <2>1. less(m) = "none"
    BY <1>9
  <2>2. ~(Times(m, plus, again) > 0)
    BY <1>3, <1>9
  <2> HIDE DEF less
  <2> QED
    BY <1>1, <2>1, <2>2
<1> QED
  BY <1>5, <1>6, <1>7, <1>8, <1>9

----------------------------------------------------------------------------
\* The agenda under a mutation.

\* No fact comes back: what a step has is what there was, or was not used before.
Fresh == there' \cap (filed \ there) = {} /\ filed \subseteq filed' /\ rules' = rules

LEMMA ReconcileCarries ==
  ASSUME ExchangeTypes, InPlace, \A m \in Readings \ astray : Carried(m),
         Fresh, Reconcile, Remember({})
  PROVE  /\ row' \in [Readings -> Fates] /\ count' \in [Readings -> Nat]
         /\ due' \subseteq Readings /\ astray' \subseteq Readings /\ astray \subseteq astray'
         /\ InPlace' /\ \A m \in Readings \ astray' : Carried(m)'
<1>1. /\ Taken = Holding \ Holding' /\ Gotten = Holding' \ Holding
      /\ done' = done \cap Holding' /\ Holding' \subseteq Readings
  BY GraphMoves, RememberFacts, HoldingFacts DEF Fresh
<1>2. /\ Post(row, Taken \ due, due \ Taken, Gotten) /\ due' = {}
      /\ astray' = astray \cup Kept(Taken \ due)
                     \cup {m \in Taken \cap due : row[m] \in {"pending", "consumed"}}
  BY DEF Reconcile
<1>3. PICK minus, plus, again :
        minus = Taken \ due /\ plus = due \ Taken /\ again = Gotten
  OBVIOUS
<1>4. Post(row, minus, plus, again)
  BY <1>2, <1>3 DEF Post, Times
<1>5. /\ row' \in [Readings -> Fates] /\ count' \in [Readings -> Nat]
      /\ \A m \in Readings :
           /\ m \notin minus => row'[m] =
                IF m \in plus \cup again /\ row[m] \in {"none", "deactivated"}
                THEN "pending" ELSE row[m]
           /\ m \in minus \ (plus \cup again) /\ (row[m] = "none" \/ count[m] <= 1)
                => row'[m] \in {"none", "deactivated"}
           /\ m \notin plus \cup again /\ row[m] = "none" => row'[m] = "none"
  BY <1>4, PostRows DEF ExchangeTypes
<1>6. astray' \subseteq Readings /\ astray \subseteq astray'
  BY <1>1, <1>2, HoldingFacts DEF Kept, ExchangeTypes
<1>7. \A m \in Readings : count[m] \in Nat /\ row[m] \in Fates
  BY DEF ExchangeTypes
<1>8. ASSUME NEW m \in Readings \ astray'
      PROVE  Carried(m)'
  <2>1. m \notin astray /\ Carried(m)
    BY <1>6, <1>8
  <2>2. m \in minus => row[m] = "none" \/ count[m] <= 1
    <3>1. m \in minus => m \notin Kept(Taken \ due)
      BY <1>2, <1>8
    <3> QED
      BY <1>3, <1>7, <3>1 DEF Kept
  <2>3. CASE m \in minus
    <3>1. m \notin Holding' /\ row'[m] \in {"none", "deactivated"}
      BY <1>1, <1>3, <1>5, <2>2, <2>3
    <3> QED
      BY <1>1, <3>1 DEF Carried
  <2>4. CASE m \in Taken \cap due
    <3>1. row'[m] = row[m] /\ row[m] \notin {"pending", "consumed"} /\ m \notin Holding'
      BY <1>1, <1>2, <1>3, <1>5, <1>8, <2>4
    <3> QED
      BY <1>1, <3>1 DEF Carried
  <2>5. CASE m \in Gotten
    <3>1. m \notin Holding /\ m \in Holding' /\ m \notin done /\ m.on \in there'
      BY <1>1, <2>5, HoldingFacts DEF InPlace
    <3>2. row[m] \in {"none", "deactivated"}
      BY <1>7, <2>1, <3>1 DEF Carried, Fates, Fresh
    <3>3. row'[m] = "pending"
      BY <1>1, <1>3, <1>5, <2>5, <3>2
    <3> QED
      BY <1>1, <1>2, <3>1, <3>3 DEF Carried
  <2>6. CASE m \notin Taken \cup Gotten
    <3>1. /\ m \in Holding <=> m \in Holding'
          /\ m \in done <=> m \in done'
      BY <1>1, <2>6 DEF InPlace
    <3>2. row'[m] = IF m \in due /\ row[m] \in {"none", "deactivated"}
                    THEN "pending" ELSE row[m]
      BY <1>3, <1>5, <2>6
    <3>3. m \in due => m \in Holding
      BY <2>1 DEF InPlace
    <3>4. m \in Holding => m.on \in there
      BY HoldingFacts
    <3>5. m.on \in filed \ there => m.on \in filed' \ there'
      BY DEF Fresh
    <3>6. CASE m \in due /\ row[m] \in {"none", "deactivated"}
      <4>1. m \in Holding' /\ m \notin done'
        BY <2>1, <3>1, <3>3, <3>6 DEF Carried
      <4> QED
        BY <3>2, <3>6, <4>1 DEF Carried
    <3>7. CASE m \in due /\ row[m] \notin {"none", "deactivated"}
      BY <1>2, <1>7, <2>1, <3>1, <3>2, <3>3, <3>4, <3>7 DEF Carried, Fates
    <3>8. CASE m \notin due
      BY <1>2, <2>1, <3>1, <3>2, <3>5, <3>8 DEF Carried
    <3> QED
      BY <3>6, <3>7, <3>8
  <2> QED
    BY <1>3, <2>3, <2>4, <2>5, <2>6
<1>9. InPlace'
  <2>1. ASSUME NEW m \in Readings, row'[m] # "none"
        PROVE  m.rule \in rules'
    <3>1. CASE row[m] # "none" \/ m \in due
      BY <3>1 DEF InPlace, Fresh
    <3>2. CASE row[m] = "none" /\ m \notin due
      <4>1. m \in Gotten
        BY <1>3, <1>5, <2>1, <3>2
      <4> QED
        BY <1>1, <4>1, HoldingFacts
    <3> QED
      BY <3>1, <3>2
  <2> QED
    BY <1>1, <1>2, <2>1 DEF InPlace
<1> QED
  BY <1>2, <1>5, <1>6, <1>8, <1>9

LEMMA DirectCarries ==
  ASSUME ExchangeTypes, InPlace, \A m \in Readings \ astray : Carried(m),
         NEW f \in Readings, row[f] = "pending", Fresh, Direct(f), Remember({f})
  PROVE  /\ row' \in [Readings -> Fates] /\ count' \in [Readings -> Nat]
         /\ due' \subseteq Readings /\ astray' \subseteq Readings /\ astray \subseteq astray'
         /\ InPlace' /\ \A m \in Readings \ astray' : Carried(m)'
<1>1. /\ Taken = Holding \ Holding' /\ Gotten = Holding' \ Holding
      /\ done' = (done \cup {f}) \cap Holding' /\ Holding' \subseteq Readings
  BY GraphMoves, RememberFacts, HoldingFacts DEF Fresh
<1>2. /\ Post([row EXCEPT ![f] = "consumed"], Taken, {}, Gotten) /\ due' = due
      /\ astray' = astray \cup Kept(Taken) \cup (Taken \cap due)
  BY DEF Direct
<1>3. PICK now, minus, again :
        now = [row EXCEPT ![f] = "consumed"] /\ minus = Taken /\ again = Gotten
  OBVIOUS
<1>4. Post(now, minus, {}, again)
  BY <1>2, <1>3 DEF Post, Times
<1>5. /\ now \in [Readings -> Fates] /\ now[f] = "consumed"
      /\ \A m \in Readings : m # f => now[m] = row[m]
  BY <1>3 DEF ExchangeTypes, Fates
<1>6. /\ row' \in [Readings -> Fates] /\ count' \in [Readings -> Nat]
      /\ \A m \in Readings :
           /\ m \notin minus => row'[m] =
                IF m \in {} \cup again /\ now[m] \in {"none", "deactivated"}
                THEN "pending" ELSE now[m]
           /\ m \in minus \ ({} \cup again) /\ (now[m] = "none" \/ count[m] <= 1)
                => row'[m] \in {"none", "deactivated"}
           /\ m \notin {} \cup again /\ now[m] = "none" => row'[m] = "none"
  BY <1>4, <1>5, PostRows DEF ExchangeTypes
<1>7. /\ astray' \subseteq Readings /\ astray \subseteq astray'
      /\ due' \subseteq Readings
  BY <1>1, <1>2, HoldingFacts DEF Kept, ExchangeTypes
<1>8. \A m \in Readings : count[m] \in Nat /\ row[m] \in Fates
  BY DEF ExchangeTypes
<1>9. ASSUME NEW m \in Readings \ astray'
      PROVE  Carried(m)'
  <2>1. m \notin astray /\ Carried(m)
    BY <1>7, <1>9
  <2>2. m \in minus => row[m] = "none" \/ count[m] <= 1
    <3>1. m \in minus => m \notin Kept(Taken)
      BY <1>2, <1>9
    <3> QED
      BY <1>3, <1>8, <3>1 DEF Kept
  <2>3. CASE m \in minus
    <3>1. now[m] = "none" \/ count[m] <= 1
      BY <1>5, <2>2, <2>3
    <3>2. m \notin Holding' /\ row'[m] \in {"none", "deactivated"}
      BY <1>1, <1>3, <1>6, <2>3, <3>1
    <3> QED
      BY <1>1, <3>2 DEF Carried
  <2>4. CASE m \in Gotten
    <3>1. m \notin Holding /\ m \in Holding' /\ m \notin done /\ m.on \in there'
      BY <1>1, <2>4, HoldingFacts DEF InPlace
    <3>2. row[m] \in {"none", "deactivated"} /\ m # f
      BY <1>8, <2>1, <3>1 DEF Carried, Fates, Fresh
    <3>3. row'[m] = "pending"
      BY <1>1, <1>3, <1>5, <1>6, <2>4, <3>2
    <3>4. m \notin due
      BY <2>1, <3>1 DEF InPlace
    <3> QED
      BY <1>1, <1>2, <3>1, <3>2, <3>3, <3>4 DEF Carried
  <2>5. CASE m \notin Taken \cup Gotten
    <3>1. m \in Holding <=> m \in Holding'
      BY <1>1, <2>5
    <3>2. row'[m] = now[m]
      BY <1>3, <1>6, <2>5
    <3>3. m.on \in filed \ there => m.on \in filed' \ there'
      BY DEF Fresh
    <3>4. CASE m = f
      <4>1. m \in Holding'
        BY <2>1, <3>1, <3>4 DEF Carried
      <4> QED
        BY <1>1, <1>5, <3>2, <3>4, <4>1 DEF Carried
    <3>5. CASE m # f
      <4>1. m \in done <=> m \in done'
        BY <1>1, <3>1, <3>5 DEF InPlace
      <4>2. row'[m] = row[m]
        BY <1>5, <3>2, <3>5
      <4> QED
        BY <1>2, <2>1, <3>1, <3>3, <4>1, <4>2 DEF Carried
    <3> QED
      BY <3>4, <3>5
  <2> QED
    BY <1>3, <2>3, <2>4, <2>5
<1>10. InPlace'
  <2>1. ASSUME NEW m \in Readings, row'[m] # "none"
        PROVE  m.rule \in rules'
    <3>1. CASE row[m] # "none"
      BY <3>1 DEF InPlace, Fresh
    <3>2. CASE row[m] = "none"
      <4>1. m # f /\ now[m] = "none"
        BY <1>5, <3>2
      <4>2. m \in Gotten
        BY <1>3, <1>6, <2>1, <4>1
      <4> QED
        BY <1>1, <4>2, HoldingFacts
    <3> QED
      BY <3>1, <3>2
  <2>2. due' \subseteq Holding' \cup astray'
    BY <1>1, <1>2 DEF InPlace
  <2>3. \A m \in due' : m.rule \in rules'
    BY <1>2 DEF InPlace, Fresh, ExchangeTypes
  <2> QED
    BY <1>1, <2>1, <2>2, <2>3 DEF InPlace
<1> QED
  BY <1>6, <1>7, <1>9, <1>10

\* The agenda under an exchange.
LEMMA ExchangeCarries ==
  ASSUME ExchangeTypes, InPlace, \A m \in Readings \ astray : Carried(m),
         there' \subseteq there, filed' = filed, Remember({}),
         NEW next, rules' = next, NEW cut, cut = rules \ next, NEW ends \in BOOLEAN,
         NEW built, built = Holding', NEW plus, plus = {m \in built : Admitted(m, next)},
         Post(Struck(cut), {}, IF ends THEN {} ELSE plus, {}),
         due' = IF ends THEN plus ELSE {},
         astray' = {m \in astray : m.rule \notin cut}
           \cup {m \in Holding \ built : m.rule \in next /\ row[m] = "pending"}
           \cup ((built \ plus) \ done)
  PROVE  /\ row' \in [Readings -> Fates] /\ count' \in [Readings -> Nat]
         /\ due' \subseteq Readings /\ astray' \subseteq Readings
         /\ InPlace' /\ \A m \in Readings \ astray' : Carried(m)'
<1>1. done' = done \cap Holding' /\ Holding' \subseteq Readings /\ Holding \subseteq Readings
  BY RememberFacts, HoldingFacts
<1>2. PICK now : now = Struck(cut)
  OBVIOUS
<1>3. /\ now \in [Readings -> Fates]
      /\ \A m \in Readings : now[m] = IF m.rule \in cut THEN "none" ELSE row[m]
  BY <1>2 DEF Struck, ExchangeTypes, Fates
<1>4. PICK new : new = IF ends THEN {} ELSE plus
  OBVIOUS
<1>5. Post(now, {}, new, {})
  BY <1>2, <1>4 DEF Post, Times
<1>6. /\ row' \in [Readings -> Fates] /\ count' \in [Readings -> Nat]
      /\ \A m \in Readings :
           row'[m] = IF m \in new /\ now[m] \in {"none", "deactivated"}
                     THEN "pending" ELSE now[m]
  <2>1. /\ row' \in [Readings -> Fates] /\ count' \in [Readings -> Nat]
        /\ \A m \in Readings :
             m \notin {} => row'[m] = IF m \in new \cup {} /\ now[m] \in {"none", "deactivated"}
                                      THEN "pending" ELSE now[m]
    BY <1>3, <1>5, PostRows DEF ExchangeTypes
  <2> QED
    BY <2>1
<1>7. /\ plus \subseteq Holding'
      /\ \A m \in plus : m.rule \in next \ rules \/ row[m] # "none"
      /\ \A m \in Holding' \ plus : m.rule \notin next \ rules /\ row[m] = "none"
  BY DEF Admitted
<1>8. due' \subseteq Readings /\ astray' \subseteq Readings
  BY <1>1, <1>7 DEF ExchangeTypes
<1>9. /\ \A m \in Holding' : m.rule \in next
      /\ \A m \in Holding : m.rule \in rules
  BY HoldingFacts
<1>10. \A m \in Readings : m.rule \in cut \/ m.rule \in next
         => (m.rule \in cut <=> m.rule \notin next)
  OBVIOUS
<1>11. ASSUME NEW m \in Readings \ astray'
       PROVE  Carried(m)'
  <2>1. m.rule \notin cut => m \notin astray /\ Carried(m)
    BY <1>11
  <2>2. row[m] # "none" => m.rule \in rules
    BY DEF InPlace
  <2>3. row[m] \in Fates
    BY DEF ExchangeTypes
  <2>4. CASE m.rule \in cut
    <3>1. m \notin Holding' /\ row'[m] = "none"
      BY <1>3, <1>4, <1>6, <1>7, <1>9, <2>4
    <3> QED
      BY <1>1, <3>1 DEF Carried
  <2>5. CASE m.rule \notin cut /\ m \in plus
    <3>1. Carried(m) /\ m \in Holding' /\ now[m] = row[m]
      BY <1>3, <1>7, <2>1, <2>5
    <3>2. m \in done => row[m] = "consumed"
      BY <1>7, <1>9, <2>5, <3>1 DEF Carried, InPlace
    <3>3. row[m] = "consumed" => m \in done
      BY <3>1, HoldingFacts DEF Carried
    <3>4. row[m] = "pending" => m \notin done
      BY <3>1 DEF Carried
    <3>5. CASE ends
      <4>1. row'[m] = row[m] /\ due' = plus
        BY <1>4, <1>6, <3>1, <3>5
      <4> QED
        BY <1>1, <2>5, <3>1, <3>2, <3>3, <3>4, <4>1 DEF Carried
    <3>6. CASE ~ends
      <4>1. /\ row'[m] = IF row[m] \in {"none", "deactivated"} THEN "pending" ELSE row[m]
            /\ due' = {}
        BY <1>4, <1>6, <2>5, <3>1, <3>6
      <4> QED
        BY <1>1, <2>3, <3>1, <3>2, <3>3, <3>4, <4>1 DEF Carried, Fates
    <3> QED
      BY <3>5, <3>6
  <2>6. CASE m.rule \notin cut /\ m \notin plus
    <3>1. Carried(m) /\ m \notin due' /\ row'[m] = row[m]
      BY <1>3, <1>4, <1>6, <2>1, <2>6
    <3>2. CASE m \in Holding'
      <4>1. row[m] = "none" /\ m \in done
        BY <1>7, <1>11, <2>6, <3>2
      <4> QED
        BY <1>1, <3>1, <3>2, <4>1 DEF Carried
    <3>3. CASE m \notin Holding'
      <4>1. row[m] # "pending"
        <5>1. row[m] = "pending" => m \in Holding /\ m.rule \in next
          BY <2>2, <2>6, <3>1 DEF Carried
        <5> QED
          BY <1>11, <3>3, <5>1
      <4>2. ASSUME row[m] = "consumed"
            PROVE  m.on \in filed' \ there'
        <5>1. m \in done \/ m.on \in filed \ there
          BY <3>1, <4>2 DEF Carried
        <5>2. CASE m.on \in filed \ there
          BY <5>2
        <5>3. CASE m \in done
          <6>1. /\ m \in Holding /\ m.on \in there
                /\ \A p \in there : Text[p] \notin Refuses[m.rule]
            BY <5>3, HoldingFacts DEF InPlace
          <6>2. m.rule \in rules'
            BY <2>2, <2>6, <4>2
          <6>3. m.on \notin there'
            BY <3>3, <6>1, <6>2, HoldingFacts
          <6> QED
            BY <6>1, <6>3 DEF ExchangeTypes
        <5> QED
          BY <5>1, <5>2, <5>3
      <4> QED
        BY <1>1, <3>1, <3>3, <4>1, <4>2 DEF Carried
    <3> QED
      BY <3>2, <3>3
  <2> QED
    BY <2>4, <2>5, <2>6
<1>12. InPlace'
  <2>1. ASSUME NEW m \in Readings, row'[m] # "none"
        PROVE  m.rule \in rules'
    <3>1. CASE m \in new
      BY <1>4, <1>7, <1>9, <3>1
    <3>2. CASE m \notin new
      <4>1. row[m] # "none" /\ m.rule \notin cut
        BY <1>3, <1>6, <2>1, <3>2
      <4> QED
        BY <4>1 DEF InPlace
    <3> QED
      BY <3>1, <3>2
  <2>2. due' \subseteq Holding'
    BY <1>7
  <2>3. \A m \in due' : m.rule \in rules'
    BY <1>9, <2>2
  <2> QED
    BY <1>1, <2>1, <2>2, <2>3 DEF InPlace
<1> QED
  BY <1>6, <1>8, <1>11, <1>12

----------------------------------------------------------------------------
\* The edges.

\* A rule that derives refuses nothing: its match holds while its paper is there.
LEMMA DeriversHold ==
  ASSUME NEW m \in Readings, Yields[m.rule] # NoText
  PROVE  /\ m \in Holding <=> m.rule \in rules /\ m.on \in there
         /\ m \in Holding' <=> m.rule \in rules' /\ m.on \in there'
<1>1. Refuses[m.rule] = {}
  BY ExchangeAssumption DEF Readings
<1> QED
  BY <1>1, HoldingFacts

\* What the cascade leaves has edges that do not fall.
LEMMA DropEdges ==
  ASSUME ExchangeTypes, EdgesInForce, NEW start \in SUBSET there, NEW cut,
         NEW gone, gone = Sink(start, cut), Drop(gone, cut),
         \A p \in start : ~Owing(p),
         rules \ cut \subseteq rules',
         \A m \in astray : m.rule \notin cut => m \in astray'
  PROVE  /\ EdgesInForce'
         /\ there' = there \ gone /\ told' \subseteq there'
<1>1. /\ start \subseteq gone /\ gone \subseteq there
      /\ Unsupported(gone, cut) \subseteq gone
      /\ \A p \in gone \ start : p \in Unsupported(gone, cut)
  <2>1. there \subseteq Papers
    BY DEF ExchangeTypes
  <2> QED
    BY <2>1, SinkFacts
<1>2. /\ there' = there \ gone /\ told' = told \ gone
      /\ owed' = {e \in owed : ~Falls(e, gone, cut)}
  BY DEF Drop
<1>3. ASSUME NEW e \in owed'
      PROVE  /\ e[1] \in Readings /\ e[1].rule \in rules' /\ Yields[e[1].rule] # NoText
             /\ e[2] \in there'
             /\ e[1] \in Holding' \cup astray'
  <2>1. /\ e \in owed /\ e[1].rule \notin cut
        /\ ~(e[1].on \in gone /\ e[1] \in Holding)
    BY <1>2 DEF Falls, Holding
  <2>2. /\ e[1] \in Readings /\ e[1].rule \in rules' /\ Yields[e[1].rule] # NoText
        /\ e[2] \in there /\ e[1] \in Holding \cup astray
    BY <2>1 DEF EdgesInForce
  <2>3. e[2] \notin gone
    <3>1. e[2] \in Unsupported(gone, cut) => Falls(e, gone, cut)
      BY <2>1 DEF Unsupported
    <3>2. e[2] \notin start
      BY <2>1 DEF Owing
    <3> QED
      BY <1>1, <1>2, <3>1, <3>2
  <2>4. e[1] \in Holding => e[1] \in Holding'
    BY <1>2, <2>1, <2>2, DeriversHold
  <2>5. e[1] \in astray => e[1] \in astray'
    BY <2>1
  <2> QED
    BY <1>2, <2>2, <2>3, <2>4, <2>5
<1>4. ASSUME NEW p \in there' \ told'
      PROVE  Owing(p)'
  <2>1. p \in there \ told /\ p \notin gone
    BY <1>2
  <2>2. p \notin Unsupported(gone, cut)
    BY <1>1, <2>1
  <2>3. PICK e \in owed : e[2] = p /\ ~Falls(e, gone, cut)
    BY <2>1, <2>2 DEF Unsupported, EdgesInForce
  <2> QED
    BY <1>2, <2>3 DEF Owing
<1> QED
  BY <1>2, <1>3, <1>4 DEF EdgesInForce, ExchangeTypes

\* Where facts are only added, what the edges say stays.
LEMMA GrowEdges ==
  ASSUME ExchangeTypes, EdgesInForce, rules' = rules, there \subseteq there',
         astray \subseteq astray', owed \subseteq owed',
         NEW e \in owed
  PROVE  /\ e[1] \in Readings /\ e[1].rule \in rules' /\ Yields[e[1].rule] # NoText
         /\ e[2] \in there'
         /\ e[1] \in Holding' \cup astray'
BY DeriversHold DEF EdgesInForce

----------------------------------------------------------------------------
\* The invariant is inductive.

LEMMA ExchangeInit == InitExchange => ExchangeInv
<1> SUFFICES ASSUME InitExchange PROVE ExchangeInv
  OBVIOUS
<1>1. Holding = {}
  BY HoldingFacts DEF InitExchange
<1>2. First \subseteq Revisions
  BY ExchangeAssumption
<1> QED
  BY <1>1, <1>2 DEF InitExchange, ExchangeInv, ExchangeTypes, InPlace, Carried, EdgesInForce,
     Fates

LEMMA EnterKeeps ==
  ASSUME ExchangeInv, Enter
  PROVE  ExchangeInv'
<1>1. PICK p \in Papers \ filed :
        /\ there' = there \cup {p} /\ filed' = filed \cup {p} /\ told' = told \cup {p}
  BY DEF Enter, Blank
<1>2. Reconcile /\ Remember({}) /\ UNCHANGED <<rules, owed>>
  BY DEF Enter
<1>3. Fresh
  BY <1>1, <1>2 DEF Fresh, ExchangeInv, ExchangeTypes
<1>4. /\ row' \in [Readings -> Fates] /\ count' \in [Readings -> Nat]
      /\ due' \subseteq Readings /\ astray' \subseteq Readings /\ astray \subseteq astray'
      /\ InPlace' /\ \A m \in Readings \ astray' : Carried(m)'
  BY <1>2, <1>3, ReconcileCarries DEF ExchangeInv
<1>5. ExchangeTypes'
  BY <1>1, <1>2, <1>4 DEF ExchangeInv, ExchangeTypes
<1>6. EdgesInForce'
  <2>1. ASSUME NEW e \in owed'
        PROVE  /\ e[1] \in Readings /\ e[1].rule \in rules' /\ Yields[e[1].rule] # NoText
               /\ e[2] \in there'
               /\ e[1] \in Holding' \cup astray'
    <3>1. e \in owed
      BY <1>2
    <3> QED
      BY <1>1, <1>2, <1>4, <3>1, GrowEdges DEF ExchangeInv
  <2>2. \A q \in there' \ told' : Owing(q)'
    BY <1>1, <1>2 DEF ExchangeInv, EdgesInForce, Owing
  <2> QED
    BY <2>1, <2>2 DEF EdgesInForce
<1> QED
  BY <1>4, <1>5, <1>6 DEF ExchangeInv

LEMMA RecallKeeps ==
  ASSUME ExchangeInv, Recall
  PROVE  ExchangeInv'
<1>1. PICK p \in told : ~Owing(p) /\ Drop(Sink({p}, {}), {})
  BY DEF Recall
<1>2. PICK gone : gone = Sink({p}, {})
  OBVIOUS
<1>3. Drop(gone, {})
  BY <1>1, <1>2 DEF Drop, Falls
<1>4. Reconcile /\ Remember({}) /\ UNCHANGED <<rules, filed>>
  BY DEF Recall
<1>5. {p} \in SUBSET there
  BY DEF ExchangeInv, ExchangeTypes
<1>6. there' = there \ gone
  BY <1>3 DEF Drop
<1>7. Fresh
  BY <1>4, <1>6 DEF Fresh, ExchangeInv, ExchangeTypes
<1>8. /\ row' \in [Readings -> Fates] /\ count' \in [Readings -> Nat]
      /\ due' \subseteq Readings /\ astray' \subseteq Readings /\ astray \subseteq astray'
      /\ InPlace' /\ \A m \in Readings \ astray' : Carried(m)'
  BY <1>4, <1>7, ReconcileCarries DEF ExchangeInv
<1>9. EdgesInForce' /\ told' \subseteq there'
  <2>1. rules \ {} \subseteq rules' /\ \A m \in astray : m.rule \notin {} => m \in astray'
    BY <1>4, <1>8
  <2>2. \A q \in {p} : ~Owing(q)
    BY <1>1
  <2> QED
    BY <1>2, <1>3, <1>5, <2>1, <2>2, DropEdges DEF ExchangeInv
<1>10. ExchangeTypes'
  BY <1>4, <1>6, <1>8, <1>9 DEF ExchangeInv, ExchangeTypes
<1> QED
  BY <1>8, <1>9, <1>10 DEF ExchangeInv

LEMMA PerformKeeps ==
  ASSUME ExchangeInv, Perform
  PROVE  ExchangeInv'
<1>1. PICK m \in Readings :
        /\ row[m] = "pending"
        /\ IF Yields[m.rule] = NoText THEN UNCHANGED <<there, filed, owed>> ELSE Derive(m)
        /\ Direct(m)
        /\ UNCHANGED rules /\ Remember({m})
  BY DEF Perform
<1>2. told' = told
  BY DEF Perform
<1>3. \/ UNCHANGED <<there, filed, owed>>
      \/ /\ Yields[m.rule] # NoText
         /\ \E p \in there \cup (Papers \ filed) :
              /\ there' = there \cup {p} /\ filed' = filed \cup {p}
              /\ owed' = owed \cup {<<m, p>>}
  <2>1. CASE Yields[m.rule] = NoText
    BY <1>1, <2>1
  <2>2. CASE Yields[m.rule] # NoText
    BY <1>1, <2>2 DEF Derive, Saying, Blank
  <2> QED
    BY <2>1, <2>2
<1>4. Fresh
  BY <1>1, <1>3 DEF Fresh, ExchangeInv, ExchangeTypes
<1>5. /\ row' \in [Readings -> Fates] /\ count' \in [Readings -> Nat]
      /\ due' \subseteq Readings /\ astray' \subseteq Readings /\ astray \subseteq astray'
      /\ InPlace' /\ \A n \in Readings \ astray' : Carried(n)'
  BY <1>1, <1>4, DirectCarries DEF ExchangeInv
<1>6. ExchangeTypes'
  BY <1>1, <1>2, <1>3, <1>5 DEF ExchangeInv, ExchangeTypes
<1>7. EdgesInForce'
  <2>1. there \subseteq there' /\ owed \subseteq owed'
    BY <1>3
  <2>2. ASSUME NEW e \in owed'
        PROVE  /\ e[1] \in Readings /\ e[1].rule \in rules' /\ Yields[e[1].rule] # NoText
               /\ e[2] \in there'
               /\ e[1] \in Holding' \cup astray'
    <3>1. CASE e \in owed
      BY <1>1, <1>5, <2>1, <3>1, GrowEdges DEF ExchangeInv
    <3>2. CASE e \notin owed
      <4>1. PICK p \in there' : e = <<m, p>> /\ Yields[m.rule] # NoText
        BY <1>3, <3>2
      <4>2. m.rule \in rules'
        BY <1>1 DEF ExchangeInv, InPlace
      <4>3. m \in astray \/ m \in Holding
        BY <1>1 DEF ExchangeInv, Carried
      <4>4. m \in Holding => m \in Holding'
        BY <2>1, <4>1, <4>2, DeriversHold
      <4> QED
        BY <1>5, <4>1, <4>2, <4>3, <4>4
    <3> QED
      BY <3>1, <3>2
  <2>3. ASSUME NEW q \in there' \ told'
        PROVE  Owing(q)'
    <3>1. CASE q \in there
      <4>1. Owing(q)
        BY <1>2, <2>3, <3>1 DEF ExchangeInv, EdgesInForce
      <4> QED
        BY <2>1, <4>1 DEF Owing
    <3>2. CASE q \notin there
      <4>1. <<m, q>> \in owed' /\ <<m, q>>[2] = q
        BY <1>3, <2>3, <3>2
      <4> QED
        BY <4>1 DEF Owing
    <3> QED
      BY <3>1, <3>2
  <2> QED
    BY <2>2, <2>3 DEF EdgesInForce
<1> QED
  BY <1>5, <1>6, <1>7 DEF ExchangeInv

LEMMA ExchangeKeeps ==
  ASSUME ExchangeInv, Exchange
  PROVE  ExchangeInv'
<1>1. PICK next \in Editions \ {rules}, ends \in BOOLEAN :
        LET cut   == rules \ next
            now   == Struck(cut)
            built == InForce(there', next)
            plus  == {m \in built : Admitted(m, next)}
        IN  /\ rules' = next
            /\ Drop(Sink({}, cut), cut)
            /\ Post(now, {}, IF ends THEN {} ELSE plus, {})
            /\ due' = IF ends THEN plus ELSE {}
            /\ astray' = {m \in astray : m.rule \notin cut}
                 \cup {m \in InForce(there, rules) \ built :
                     m.rule \in next /\ row[m] = "pending"}
                 \cup ((built \ plus) \ done)
  BY DEF Exchange
<1>2. filed' = filed /\ Remember({}) /\ rules' = next
  BY <1>1 DEF Exchange
<1>3. PICK cut, gone, built :
        cut = rules \ next /\ gone = Sink({}, rules \ next) /\ built = Holding'
  OBVIOUS
<1>4. built = InForce(there', next)
  BY <1>2, <1>3 DEF Holding, InForce, Stands
<1>5. PICK plus : plus = {m \in built : Admitted(m, next)}
  OBVIOUS
<1>6. gone = Sink({}, cut)
  BY <1>3
<1>7. /\ Drop(gone, cut)
      /\ Post(Struck(cut), {}, IF ends THEN {} ELSE plus, {})
      /\ due' = IF ends THEN plus ELSE {}
      /\ astray' = {m \in astray : m.rule \notin cut}
           \cup {m \in Holding \ built : m.rule \in next /\ row[m] = "pending"}
           \cup ((built \ plus) \ done)
  <2>1. /\ Drop(Sink({}, cut), cut)
        /\ Post(Struck(cut), {}, IF ends THEN {} ELSE plus, {})
        /\ due' = IF ends THEN plus ELSE {}
        /\ astray' = {m \in astray : m.rule \notin cut}
             \cup {m \in InForce(there, rules) \ built :
                     m.rule \in next /\ row[m] = "pending"}
             \cup ((built \ plus) \ done)
    <3>1. Drop(Sink({}, cut), cut)
      BY <1>1, <1>3
    <3>2. Post(Struck(cut), {}, IF ends THEN {} ELSE plus, {})
      BY <1>1, <1>3, <1>4, <1>5 DEF Post, Times, Struck
    <3>3. due' = IF ends THEN plus ELSE {}
      BY <1>1, <1>3, <1>4, <1>5
    <3>4. astray' = {m \in astray : m.rule \notin cut}
             \cup {m \in InForce(there, rules) \ built :
                     m.rule \in next /\ row[m] = "pending"}
             \cup ((built \ plus) \ done)
      BY <1>1, <1>3, <1>4, <1>5
    <3> QED
      BY <3>1, <3>2, <3>3, <3>4
  <2>2. Drop(gone, cut)
    BY <1>6, <2>1 DEF Drop, Falls
  <2> QED
    BY <2>1, <2>2 DEF Holding
<1>8. EdgesInForce' /\ there' = there \ gone /\ told' \subseteq there'
  <2>1. rules \ cut \subseteq rules' /\ \A m \in astray : m.rule \notin cut => m \in astray'
    BY <1>2, <1>3, <1>7
  <2>2. {} \in SUBSET there /\ \A q \in {} : ~Owing(q)
    OBVIOUS
  <2> QED
    BY <1>6, <1>7, <2>1, <2>2, DropEdges DEF ExchangeInv
<1>9. /\ row' \in [Readings -> Fates] /\ count' \in [Readings -> Nat]
      /\ due' \subseteq Readings /\ astray' \subseteq Readings
      /\ InPlace' /\ \A m \in Readings \ astray' : Carried(m)'
  <2>1. there' \subseteq there
    BY <1>8
  <2> QED
    BY <1>2, <1>3, <1>5, <1>7, <2>1, ExchangeCarries DEF ExchangeInv
<1>10. next \subseteq Revisions
  BY ExchangeAssumption
<1>11. ExchangeTypes'
  BY <1>2, <1>8, <1>9, <1>10 DEF ExchangeInv, ExchangeTypes
<1> QED
  BY <1>8, <1>9, <1>11 DEF ExchangeInv

LEMMA ExchangeStep == ExchangeInv /\ [NextExchange]_exchangeVars => ExchangeInv'
<1> SUFFICES ASSUME ExchangeInv, [NextExchange]_exchangeVars PROVE ExchangeInv'
  OBVIOUS
\* A step that leaves the graph and the agenda alone.
<1>1. ASSUME UNCHANGED <<rules, filed, there, owed, row, count, due, done, astray>>,
             told' \subseteq there, \A p \in told \ told' : Owing(p)
      PROVE  ExchangeInv'
  <2>1. Holding' = Holding
    BY <1>1 DEF Holding
  <2>2. \A m \in Readings \ astray' : Carried(m)'
    BY <1>1, <2>1 DEF ExchangeInv, Carried
  <2> QED
    BY <1>1, <2>1, <2>2 DEF ExchangeInv, ExchangeTypes, InPlace, EdgesInForce, Owing
<1>2. CASE Confirm
  BY <1>1, <1>2 DEF Confirm, ExchangeInv, ExchangeTypes
<1>3. CASE Compact
  <2>1. /\ row' = [m \in Readings |-> IF row[m] = "pending" THEN "pending" ELSE "none"]
        /\ count' = [m \in Readings |-> IF row[m] = "pending" THEN count[m] ELSE 0]
        /\ astray' = astray \cup (due \cap done)
        /\ UNCHANGED <<rules, filed, there, told, owed, due, done>>
    BY <1>3 DEF Compact
  <2>2. Holding' = Holding
    BY <2>1 DEF Holding
  <2>3. ExchangeTypes'
    BY <2>1 DEF ExchangeInv, ExchangeTypes, Fates
  <2>4. \A m \in Readings \ astray' : Carried(m)'
    BY <2>1, <2>2 DEF ExchangeInv, Carried
  <2>5. InPlace' /\ EdgesInForce'
    BY <2>1, <2>2 DEF ExchangeInv, InPlace, EdgesInForce, Owing
  <2> QED
    BY <2>3, <2>4, <2>5 DEF ExchangeInv
<1>4. CASE UNCHANGED exchangeVars
  <2>1. told \subseteq there
    BY DEF ExchangeInv, ExchangeTypes
  <2> QED
    BY <1>1, <1>4, <2>1 DEF exchangeVars
<1> QED
  BY <1>2, <1>3, <1>4, EnterKeeps, RecallKeeps, PerformKeeps, ExchangeKeeps DEF NextExchange

LEMMA ExchangeInvariant == SpecExchange => []ExchangeInv
BY ExchangeInit, ExchangeStep, PTL DEF SpecExchange

----------------------------------------------------------------------------
\* What it says.

\* Whatever the rulesets and the facts, an exchange carries the agenda over: what
\* holds, has not fired and is not due is armed, and nothing else is, but for the
\* matches that are named astray.
THEOREM AgendaIsCarried == SpecExchange => []AgendaCarried
<1>1. ExchangeInv => AgendaCarried
  BY DEF ExchangeInv, Carried, AgendaCarried, Holding
<1> QED
  BY <1>1, ExchangeInvariant, PTL

\* Nothing of a rule that has gone is left, and every derived fact stands on an edge
\* of a rule there is.
THEOREM NothingOfPurgedLeft == SpecExchange => []PurgedLeavesNothing
<1>1. ExchangeInv => PurgedLeavesNothing
  BY DEF ExchangeInv, InPlace, EdgesInForce, PurgedLeavesNothing, Holding
<1> QED
  BY <1>1, ExchangeInvariant, PTL

LEMMA PurgeStep ==
  ASSUME ExchangeInv, [NextExchange]_exchangeVars, rules' # rules
  PROVE  there' = UNION {S \in SUBSET there : Upheld(S, rules')}
<1>1. Exchange
  BY DEF NextExchange, Enter, Confirm, Recall, Perform, Compact, exchangeVars
<1>2. PICK next \in Editions \ {rules} :
        rules' = next /\ Drop(Sink({}, rules \ next), rules \ next)
  BY <1>1 DEF Exchange
<1>3. PICK cut, gone : cut = rules \ next /\ gone = Sink({}, cut)
  OBVIOUS
<1>4. there' = there \ gone
  BY <1>2, <1>3 DEF Drop
<1>5. there \subseteq Papers
  BY DEF ExchangeInv, ExchangeTypes
<1>6. /\ gone \subseteq there /\ Unsupported(gone, cut) \subseteq gone
      /\ \A S : /\ S \cap {} = {}
                /\ \A T : T \cap S = {} => Unsupported(T, cut) \cap S = {}
                => S \cap gone = {}
  <2>1. {} \in SUBSET there
    OBVIOUS
  <2> QED
    BY <1>3, <1>5, <2>1, SinkFacts
<1>7. \A e \in owed : e[1].rule \in cut <=> e[1].rule \notin next
  BY <1>3 DEF ExchangeInv, EdgesInForce
\* What is left is upheld.
<1>8. Upheld(there \ gone, next)
  <2> SUFFICES ASSUME NEW p \in (there \ gone) \ told
               PROVE  \E e \in owed :
                        /\ e[2] = p /\ e[1].rule \in next
                        /\ e[1].on \in there \ gone \/ e[1] \notin Holding
    BY DEF Upheld, Holding
  <2>1. Owing(p) /\ p \notin Unsupported(gone, cut)
    BY <1>6 DEF ExchangeInv, EdgesInForce
  <2>2. PICK e \in owed : e[2] = p /\ ~Falls(e, gone, cut)
    BY <2>1 DEF Unsupported
  <2>3. e[1].rule \in next /\ ~(e[1].on \in gone /\ e[1] \in Holding)
    BY <1>7, <2>2 DEF Falls, Holding
  <2>4. e[1] \in Holding => e[1].on \in there
    BY HoldingFacts
  <2> QED
    BY <2>2, <2>3, <2>4
\* No level of the cascade takes what is upheld.
<1>9. ASSUME NEW S \in SUBSET there, Upheld(S, next)
      PROVE  S \cap gone = {}
  <2>1. ASSUME NEW T, T \cap S = {}, NEW p \in S, p \in Unsupported(T, cut)
        PROVE  FALSE
    <3>1. p \notin told /\ \A e \in owed : e[2] = p => Falls(e, T, cut)
      BY <2>1 DEF Unsupported
    <3>2. PICK e \in owed : /\ e[2] = p /\ e[1].rule \in next
                            /\ e[1].on \in S \/ e[1] \notin Holding
      BY <1>9, <2>1, <3>1 DEF Upheld, Holding
    <3>3. Falls(e, T, cut) /\ e[1].rule \notin cut
      BY <1>7, <3>1, <3>2
    <3> QED
      BY <2>1, <3>2, <3>3 DEF Falls, Holding
  <2>2. \A T : T \cap S = {} => Unsupported(T, cut) \cap S = {}
    BY <2>1
  <2> QED
    BY <1>6, <2>2
<1>10. there \ gone = UNION {S \in SUBSET there : Upheld(S, next)}
  <2>1. there \ gone \in {S \in SUBSET there : Upheld(S, next)}
    BY <1>8
  <2> QED
    BY <1>9, <2>1
<1> QED
  BY <1>2, <1>4, <1>10 DEF Upheld

\* An exchange takes exactly the facts that the rules that stay cannot hold up: the
\* cascade reaches every level, and goes no further, however long the derivations.
THEOREM PurgeTakesExactly == SpecExchange => PurgeTakesTheUnheld
<1>1. ExchangeInv /\ [NextExchange]_exchangeVars
        => [rules' # rules =>
              there' = UNION {S \in SUBSET there : Upheld(S, rules')}]_exchangeVars
  BY PurgeStep
<1> QED
  BY <1>1, ExchangeInvariant, PTL DEF SpecExchange, PurgeTakesTheUnheld
==============================================================================
