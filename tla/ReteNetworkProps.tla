------------------------- MODULE ReteNetworkProps ----------------------------
(***************************************************************************)
(* The properties of ReteNetwork.  What the network should hold is said    *)
(* without it: Matches evaluates the conditions of a rule over the facts,  *)
(* one after the other, as the reference matcher does (matcher.go).        *)
(***************************************************************************)
EXTENDS ReteNetwork

CONSTANTS
  Branches,   \* Branches[t]: the branches of the rule of terminal t, each the
              \* sequence of its conditions [is, of, on]: what it is, the
              \* contents it takes, and the entry whose key it joins (0: none)
  FactKey(_)  \* the key a content is joined by

----------------------------------------------------------------------------

Joined(s, c, m) ==
  {Entry(f, s[f]) : f \in {g \in Ids : /\ s[g] \in c.of
                                       /\ c.on = 0 \/ FactKey(m[c.on].says) = FactKey(s[g])}}
HowMany(s, c, m) == Cardinality(Joined(s, c, m))
Largest(s, c, m) == Max({Amount(<<e>>) : e \in Joined(s, c, m)})

\* A condition, given the matches M of the ones before it.
Extended(s, M, c) ==
  CASE c.is = "fact"    -> UNION {{Append(m, e) : e \in Joined(s, c, m)} : m \in M}
    [] c.is = "not"     -> {m \in M : Joined(s, c, m) = {}}
    [] c.is = "exists"  -> {m \in M : Joined(s, c, m) # {}}
    [] c.is = "count"   -> {Valued(m, [count |-> HowMany(s, c, m), max |-> 0]) : m \in M}
    [] c.is = "max"     ->
         {Valued(m, [count |-> HowMany(s, c, m), max |-> Largest(s, c, m)]) :
            m \in {l \in M : Joined(s, c, l) # {}}}
    [] c.is = "atleast" -> {m \in M : Last(m).says.count >= c.on}

Matches(s, branch) ==
  FoldLeft(LAMBDA M, c : Extended(s, M, c), {<<>>}, branch)

\* How many branches of each rule derive each match.
MatchesOf(s) ==
  LET by == [t \in DOMAIN Branches |->
               [i \in DOMAIN Branches[t] |-> Matches(s, Branches[t][i])]]
      all == UNION {{t} \X UNION {by[t][i] : i \in DOMAIN by[t]} : t \in DOMAIN by}
  IN  [x \in all |-> Cardinality({i \in DOMAIN by[x[1]] : x[2] \in by[x[1]][i]})]

----------------------------------------------------------------------------

Calls == {"add", "remove", "enter", "leave", "refresh", "defer", "lift", "finalize",
          "report", "discard"}

\* Every variable stays in its range, and nothing is left over between events:
\* no output is put off and no delta is pending.
ReteTypeOK ==
  /\ facts \in [Ids -> Values \cup {Absent}]
  /\ before \in [Ids -> Values \cup {Absent}]
  /\ \A f \in Ids : routes[f] \subseteq Range(Alphas)
  /\ \A i \in 1..Len(stack) : stack[i].do \in Calls
  /\ deferring \in BOOLEAN
  /\ \A d \in deferred : Kind[d[1]] = "aggregate"
  /\ Quiet => ~deferring /\ deferred = {} /\ added = EmptyBag /\ removed = EmptyBag

\* Between events the agenda has been told of exactly the matches that the
\* conditions of each rule have over the facts, once for every branch that
\* derives them: by increments, rebuilt from nothing, and when an event failed
\* half-way.
MatchesExact == Quiet => view = MatchesOf(facts)

\* At every step of an event, a join holds an output for each pair of rows that
\* match, and a negative node counts the rows that block each left row, and
\* shows the ones that nothing blocks (joinOutputTable, negativeBetaLeftRow).
RowsExact ==
  \A n \in Nodes :
    /\ Kind[n] = "join" =>
         mem[n].links = {k \in mem[n].left \X mem[n].right : Pairs(n, k[1], k[2])}
    /\ Kind[n] = "not" =>
         /\ \A l \in DOMAIN mem[n].blockers : mem[n].blockers[l] = Blocking(n, l)
         /\ mem[n].shown = {l \in DOMAIN mem[n].blockers : mem[n].blockers[l] = 0}

\* The accumulator of a bucket, kept by additions and subtractions, is what its
\* inputs give when they are added up again, at every step, and between events
\* its output is that result (rebuildAccumulator, removeMemberSubtractive).
AccumulatorsExact ==
  \A n \in Nodes : Kind[n] = "aggregate" =>
    \A p \in DOMAIN mem[n].buckets :
      LET b == mem[n].buckets[p]
      IN  /\ b = Rebuilt(n, b)
          /\ Quiet => b.out = {Valued(p, v) : v \in Results(n, b)}

\* No node is handed a token it has, and nothing is told to take back a token
\* it does not have, though the code takes both without a word: but for a
\* filter that did not let it pass, and for an input whose bucket has gone
\* before it.  A terminal has what the agenda was told of and the event added.
HandsExact ==
  stack # <<>> /\ Now.do \in {"add", "remove"} =>
    LET t    == Now.token
        side == Now.at[2]
        has  == CASE side = "terminal" -> BagIn(<<node, t>>, (view (+) added) (-) removed)
                  [] side = "outer"    -> Outer(node, t) \in DOMAIN mem[node].buckets
                  [] side = "input"    -> t \in Bucket(node, Outer(node, t)).inputs
                  [] side = "union"    -> BagIn(t, mem[node].support)
                  [] Kind[node] = "not" /\ side = "left" -> t \in DOMAIN mem[node].blockers
                  [] OTHER             -> t \in mem[node][side]
    IN  IF Now.do = "add"
        THEN has => side \in {"terminal", "union", "outer"}
        ELSE has \/ side = "input" \/ (side # "terminal" /\ Kind[node] = "filter")
=============================================================================
