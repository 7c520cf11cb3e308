------------------------------ MODULE MCEngine -------------------------------
(***************************************************************************)
(* Instances of WorkingMemory, ReteNetwork, JoinTables, DemandFacts,       *)
(* RulesetExchange and ExplainLog for TLC.  They are checked side by side: *)
(* part, fixed in the initial state, says which of them moves, and the     *)
(* others stay where they began.                                           *)
(***************************************************************************)
EXTENDS WorkingMemoryProps, ReteNetworkProps, JoinTablesProps, DemandFactsProps,
        RulesetExchangeProps, ExplainLogProps

CONSTANTS
  c1, c2, d1, d2, r1, r2, empty, \* contents, rules and nothing of WorkingMemory
  base, fit, spare, goal1, goal2, goal3, trigger, \* contents of DemandFacts
  derives, silent, onward, guarded, \* rules of RulesetExchange
  Versions,                 \* bound: fact versions of WorkingMemory
  NetworkFacts              \* bound: facts of ReteNetwork

VARIABLE part

----------------------------------------------------------------------------
\* WorkingMemory: r1 derives from c1, r2 from d1 while there is no c1; d1 and d2
\* have one unique key, and c2 is of no account to the rules.
AllContents == {c1, c2, d1, d2}
Keys     == [c \in AllContents |-> CASE c = c1 -> 1 [] c = c2 -> 2 [] OTHER -> 3]
AllRules == {r1, r2}
NeedsOf  == [r \in AllRules |-> IF r = r1 THEN {c1} ELSE {d1}]
BlocksOf == [r \in AllRules |-> IF r = r1 THEN {} ELSE {c1}]
AllNames == 1..Versions

----------------------------------------------------------------------------
\* ReteNetwork: nine rules that share their nodes.

\* A content: a template, the key it is joined by, and an amount.
C(of, key, n) == [of |-> of, key |-> key, n |-> n]
As     == {C("A", 1, 0), C("A", 2, 0)}
Bs     == {C("B", 1, 1), C("B", 1, 2), C("B", 2, 1)}
Bigs   == {c \in Bs : c.n > 1}
FactValues == As \cup Bs

FactIds   == 1..NetworkFacts

\* Stages: the nodes are 1 to 11, the root 0, the alpha nodes -1 to -3, and the
\* terminals above 20.
Beginning == 0
AlphaList == <<-1, -2, -3>>
Takes     == (-1 :> As) @@ (-2 :> Bs) @@ (-3 :> Bigs)

\* The graph of the rules of Rulebook.
Kinds == <<"join", "not", "aggregate", "not", "join", "union", "filter",
           "aggregate", "join", "aggregate", "not">>
Edges == (1 :> <<<<21, "terminal">>, <<29, "terminal">>, <<3, "input">>, <<6, "union">>>>)
      @@ (2 :> <<<<22, "terminal">>, <<4, "right">>>>)
      @@ (3 :> <<<<10, "outer">>, <<7, "left">>, <<9, "left">>>>)
      @@ (4 :> <<<<24, "terminal">>>>)
      @@ (5 :> <<<<29, "terminal">>, <<6, "union">>>>)
      @@ (6 :> <<<<25, "terminal">>>>)
      @@ (7 :> <<<<23, "terminal">>>>)
      @@ (8 :> <<<<26, "terminal">>>>)
      @@ (9 :> <<<<10, "input">>>>)
      @@ (10 :> <<<<27, "terminal">>>>)
      @@ (11 :> <<<<28, "terminal">>>>)
      @@ (0 :> <<<<8, "outer">>, <<11, "left">>>>)
      @@ (-1 :> <<<<1, "left">>, <<2, "left">>, <<4, "left">>, <<5, "left">>, <<3, "outer">>>>)
      @@ (-2 :> <<<<1, "right">>, <<2, "right">>, <<9, "right">>, <<8, "input">>>>)
      @@ (-3 :> <<<<5, "right">>, <<11, "right">>>>)
Widths == (3 :> 1) @@ (8 :> 0) @@ (10 :> 2)
Computed == (3 :> {"count", "max"}) @@ (8 :> {"count"}) @@ (10 :> {"count"})
KeyIn(c) == c.key
TemplateIn(c) == c.of
Joins(n, l, r) ==
  CASE n = 4  -> IsPrefix(l, r)
    [] n = 11 -> TRUE
    [] OTHER  -> l[1].says.key = Last(r).says.key
AtLeastTwo(n, t) == Last(t).says.count >= 2
AmountOf(t) == Last(t).says.n

Is(is, of, on) == [is |-> is, of |-> of, on |-> on]
Rulebook ==
     (21 :> <<<<Is("fact", As, 0), Is("fact", Bs, 1)>>>>)
  @@ (22 :> <<<<Is("fact", As, 0), Is("not", Bs, 1)>>>>)
  @@ (23 :> <<<<Is("fact", As, 0), Is("max", Bs, 1), Is("atleast", {}, 2)>>>>)
  @@ (24 :> <<<<Is("fact", As, 0), Is("exists", Bs, 1)>>>>)
  @@ (25 :> <<<<Is("fact", As, 0), Is("fact", Bs, 1)>>>>)
  @@ (26 :> <<<<Is("count", Bs, 0)>>>>)
  @@ (27 :> <<<<Is("fact", As, 0), Is("max", Bs, 1), Is("count", Bs, 1)>>>>)
  @@ (28 :> <<<<Is("not", Bigs, 0)>>>>)
  @@ (29 :> <<<<Is("fact", As, 0), Is("fact", Bs, 1)>>,
           <<Is("fact", As, 0), Is("fact", Bigs, 1)>>>>)

----------------------------------------------------------------------------
\* JoinTables: all tokens have one hash.  One part has three left rows of two
\* keys and one right row, and removes by token and by fact until the rows of
\* a slot are more than its first capacity; the other has pairs of one key on
\* both sides, so that each row has outputs with each row.
LeftRows  == {1, 2, 3}
RightRows == {1, 11, 13}
RowFacts  == {{1, 3, 11}, {2, 13}}
RowKey(side, t) == IF t = 1 THEN 1 ELSE 5
OneHash(t) == 0
Feed == [chains |-> [left |-> {1, 2, 3}, right |-> {1}],
         outputs |-> [left |-> {2, 3}, right |-> {11, 13}]]

----------------------------------------------------------------------------
\* DemandFacts: spare answers two goals, a need fact is asked for by a row on
\* another need fact, and a goal nothing answers by one on that.
AllClaims == {base, fit, spare}
AllGoals  == {goal1, goal2, goal3}
Answering == [g \in AllGoals |-> CASE g = goal1 -> {fit, spare} [] g = goal2 -> {spare}
                                   [] OTHER -> {}]
AllPlans  == 1..5
AskingOn  == <<{base}, {base, fit}, {goal2}, {goal1}, {trigger}>>
Wanted    == <<goal1, goal2, goal1, goal3, goal1>>
Given     == <<base>>

----------------------------------------------------------------------------
\* RulesetExchange: a rule that derives, one that derives from that, and one
\* that what the first derives is in the way of.  The other edition replaces the
\* first rule by one that derives nothing.
TextOf     == <<"x", "y", "z">>
RequiresOf == [r \in {derives, silent, onward, guarded} |-> IF r = onward THEN "y" ELSE "x"]
RefusesOf  == [r \in DOMAIN RequiresOf |-> IF r = guarded THEN {"y"} ELSE {}]
YieldsOf   == [r \in DOMAIN RequiresOf |->
                CASE r = derives -> "y" [] r = onward -> "z" [] OTHER -> "nothing"]
FirstEdition == {derives, onward, guarded}
AllEditions  == {FirstEdition, {silent, onward, guarded}}

----------------------------------------------------------------------------
InitEngine ==
  /\ part \in {"memory", "network", "chains", "outputs", "demand", "exchange", "log"}
  /\ InitMemory /\ InitNetwork /\ InitTables /\ InitDemand /\ InitExchange /\ InitLog

NextEngine ==
  /\ UNCHANGED part
  /\ \/ /\ part = "memory" /\ NextMemory
        /\ UNCHANGED <<networkVars, tableVars, demandVars, exchangeVars, logVars>>
     \/ /\ part = "network" /\ NextNetwork
        /\ UNCHANGED <<memoryVars, tableVars, demandVars, exchangeVars, logVars>>
     \/ /\ part = "demand" /\ NextDemand
        /\ UNCHANGED <<memoryVars, networkVars, tableVars, exchangeVars, logVars>>
     \/ /\ part = "exchange" /\ NextExchange
        /\ UNCHANGED <<memoryVars, networkVars, tableVars, demandVars, logVars>>
     \/ /\ part = "log" /\ NextLog
        /\ UNCHANGED <<memoryVars, networkVars, tableVars, demandVars, exchangeVars>>
     \/ /\ part \in DOMAIN Feed /\ NextTables
        /\ UNCHANGED <<memoryVars, networkVars, demandVars, exchangeVars, logVars>>
        /\ TokensIn(left') \subseteq Feed[part].left
        /\ TokensIn(right') \subseteq Feed[part].right
        /\ elsewhere' \subseteq Feed[part].left

SpecEngine ==
  InitEngine /\ [][NextEngine]_<<part, memoryVars, networkVars, tableVars, demandVars,
                                exchangeVars, logVars>>
=============================================================================
