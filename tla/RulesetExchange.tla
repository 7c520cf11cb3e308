--------------------------- MODULE RulesetExchange ---------------------------
(***************************************************************************)
(* ApplyRuleset on a live session: the rules are exchanged and the facts   *)
(* stay.  What rules that go have derived is taken back with a cascade     *)
(* over the old graph, a new graph is built from the facts that are left,  *)
(* and the agenda goes over from the one to the other.                     *)
(*                                                                         *)
(* A paper is a fact version: it is filed once, and says what it says for  *)
(* good; one content is one fact.  A match of a rule is on one paper.  The *)
(* graph is exact (InForce is what its terminals hold).  Between          *)
(* exchanges the session changes as WorkingMemory says, at the grain of    *)
(* operations; a rule that derives refuses nothing, because what is lost   *)
(* to an assertion is that module's subject.  The agenda is ready from the *)
(* start, and a mutation by an action is applied to it at once.  No rule    *)
(* asks for needs, so that completing them cannot fail.                    *)
(***************************************************************************)
EXTENDS Naturals, FiniteSets

CONSTANTS
  Papers,        \* fact versions
  Text,          \* Text[p]: what p says
  Revisions,     \* rule revisions
  Requires,      \* Requires[r]: what the paper of a match of r says
  Refuses,       \* Refuses[r]: contents that no paper may say
  Yields,        \* Yields[r]: the content its action derives, or NoText
  NoText,
  Editions,      \* the rulesets the session is given: sets of revisions
  First,         \* the one it is made with
  MaxExchanges   \* bound: successful calls of ApplyRuleset

Texts    == {Text[p] : p \in Papers}
Readings == {m \in [rule : Revisions, on : Papers] : Text[m.on] = Requires[m.rule]}

ASSUME ExchangeAssumption ==
  /\ IsFiniteSet(Papers)
  /\ NoText \notin Texts
  /\ Requires \in [Revisions -> Texts]
  /\ Refuses \in [Revisions -> SUBSET Texts]
  /\ Yields \in [Revisions -> Texts \cup {NoText}]
  /\ \A r \in Revisions : Yields[r] # NoText => Refuses[r] = {}
  /\ Editions \subseteq SUBSET Revisions /\ First \in Editions
  /\ MaxExchanges \in Nat

VARIABLES
  rules,      \* Session.revision: the revisions in force
  filed,      \* the papers that have been used
  there,      \* the facts
  told,       \* the ones with stated support
  owed,       \* logicalSupportEdges: <<match, fact it derived>>
  row,        \* status of the activation of each match, "none" without one
  count,      \* its supportCount
  due,        \* additions of pendingLifecycleDelta, if there is one
  exchanges,  \* successful exchanges so far
  done,       \* history: matches that hold and have fired since they came to
  astray      \* history: matches whose activation an exchange has got wrong

exchangeVars == <<rules, filed, there, told, owed, row, count, due, exchanges,
                  done, astray>>

----------------------------------------------------------------------------
\* The graph of a ruleset over some facts.

Stands(m, facts, in) ==
  /\ m.rule \in in /\ m.on \in facts
  /\ \A p \in facts : Text[p] \notin Refuses[m.rule]
InForce(facts, in) == {m \in Readings : Stands(m, facts, in)}

\* The terminal delta of a mutation.
Taken == InForce(there, rules) \ InForce(there', rules)
Gotten == InForce(there', rules) \ InForce(there, rules)

----------------------------------------------------------------------------
\* The agenda.

\* One more for each of the two sets that m is in.
Times(m, S, T) == (IF m \in S THEN 1 ELSE 0) + (IF m \in T THEN 1 ELSE 0)

\* applyTerminalTokenDeltas over the rows now: a match in minus loses a token,
\* and then one in plus or again gets one for each.  A count goes with its row.
Post(now, minus, plus, again) ==
  LET hit(m)   == m \in minus /\ now[m] # "none"
      had(m)   == IF now[m] = "none" THEN 0 ELSE count[m]
      fewer(m) == IF hit(m) /\ had(m) > 0 THEN had(m) - 1 ELSE had(m)
      less(m)  == IF hit(m) /\ fewer(m) = 0 THEN "deactivated" ELSE now[m]
  IN  /\ count' = [m \in Readings |-> fewer(m) + Times(m, plus, again)]
      /\ row' = [m \in Readings |->
                   IF Times(m, plus, again) > 0 /\ less(m) \in {"none", "deactivated"}
                   THEN "pending" ELSE less(m)]

\* An exchange counts the token of a row it keeps twice: one removal is not
\* enough for such a row.
Kept(minus) == {m \in minus : row[m] # "none" /\ count[m] > 1}

\* reconcileAgendaAfterMutation: what is due from an exchange comes first, and a
\* match both due and removed is neither.
Reconcile ==
  /\ Post(row, Taken \ due, due \ Taken, Gotten)
  /\ due' = {}
  /\ astray' = astray \cup Kept(Taken \ due)
                      \cup {m \in Taken \cap due : row[m] \in {"pending", "consumed"}}

\* applyRunAgendaDeltaDirect, after m has been taken to fire: what is due stays.
Direct(m) ==
  /\ Post([row EXCEPT ![m] = "consumed"], Taken, {}, Gotten)
  /\ UNCHANGED due
  /\ astray' = astray \cup Kept(Taken) \cup (Taken \cap due)

\* A match that goes has not fired when it comes back.
Remember(fired) == done' = (done \cup fired) \cap InForce(there', rules')

----------------------------------------------------------------------------
\* Mutations.

Saying(c) == {p \in there : Text[p] = c}
Blank(c)  == {p \in Papers \ filed : Text[p] = c}
Owing(p)  == \E e \in owed : e[2] = p

\* Assert of something new.
Enter ==
  /\ \E c \in Texts : Saying(c) = {} /\ \E p \in Blank(c) :
       there' = there \cup {p} /\ filed' = filed \cup {p} /\ told' = told \cup {p}
  /\ Reconcile
  /\ UNCHANGED <<rules, owed, exchanges>> /\ Remember({})

\* Assert of what is only derived, and Retract of what is derived as well: the
\* agenda is not looked at.
Confirm ==
  /\ \/ \E p \in there \ told : told' = told \cup {p}
     \/ \E p \in told : Owing(p) /\ told' = told \ {p}
  /\ UNCHANGED <<rules, filed, there, owed, row, count, due, exchanges, done, astray>>

----------------------------------------------------------------------------
\* removeLogicalSupportsForSources

\* An edge falls with its rule, or with the match that was its source.
Falls(e, gone, cut) ==
  e[1].rule \in cut \/ (e[1].on \in gone /\ e[1] \in InForce(there, rules))

\* What only edges that fall have held.
Unsupported(gone, cut) ==
  {p \in there \ told : Owing(p) /\ \A e \in owed : e[2] = p => Falls(e, gone, cut)}

\* Faulty variant of Sink: the cascade ends with its first level.
SinkOnce(start, cut) == start \cup Unsupported(start, cut)

\* Level by level.
Sink(start, cut) ==
  LET down[n \in 0..Cardinality(Papers)] ==
        IF n = 0 THEN start ELSE down[n - 1] \cup Unsupported(down[n - 1], cut)
  IN  down[Cardinality(Papers)]

Drop(gone, cut) ==
  /\ there' = there \ gone
  /\ told' = told \ gone
  /\ owed' = {e \in owed : ~Falls(e, gone, cut)}

\* Retract; a fact that is only derived is refused.
Recall ==
  /\ \E p \in told : ~Owing(p) /\ Drop(Sink({p}, {}), {})
  /\ Reconcile
  /\ UNCHANGED <<rules, filed, exchanges>> /\ Remember({})

----------------------------------------------------------------------------
\* Runs.

\* AssertLogical by the action of m: a new fact, or one more edge of one.
Derive(m) ==
  LET c == Yields[m.rule]
  IN  \E p \in IF Saying(c) # {} THEN Saying(c) ELSE Blank(c) :
        /\ there' = there \cup {p} /\ filed' = filed \cup {p}
        /\ owed' = owed \cup {<<m, p>>}

\* Nothing asks whether the match still holds.
Perform ==
  /\ \E m \in Readings :
       /\ row[m] = "pending"
       /\ IF Yields[m.rule] = NoText THEN UNCHANGED <<there, filed, owed>> ELSE Derive(m)
       /\ Direct(m)
       /\ UNCHANGED rules /\ Remember({m})
  /\ UNCHANGED <<told, exchanges>>

\* compactActivationStorage, during a run or at its end: what has fired is
\* forgotten, and an addition that is due will not find it.
Compact ==
  /\ row' = [m \in Readings |-> IF row[m] = "pending" THEN "pending" ELSE "none"]
  /\ count' = [m \in Readings |-> IF row[m] = "pending" THEN count[m] ELSE 0]
  /\ astray' = astray \cup (due \cap done)
  /\ UNCHANGED <<rules, filed, there, told, owed, due, exchanges, done>>

----------------------------------------------------------------------------
\* ApplyRuleset.

\* Faulty variant of Struck: only what is pending is purged.
StruckPending(cut) ==
  [m \in Readings |-> IF m.rule \in cut /\ row[m] = "pending" THEN "none" ELSE row[m]]

\* purgeRuleRevisions
Struck(cut) == [m \in Readings |-> IF m.rule \in cut THEN "none" ELSE row[m]]

\* Faulty variant of Admitted: every match of the new graph is new.
AdmittedAll(m, next) == TRUE

\* filterTerminalTokenDeltasForRulesetApply: a match of a rule that stays is
\* admitted if it has a row already.
Admitted(m, next) == m.rule \in next \ rules \/ row[m] # "none"

\* applyRulesetImmediate.  What the cascade tells of the matches of rules that
\* stay is dropped: those that were lost keep their rows, and those that it let
\* in have none.  The context may end before the agenda is told.
Exchange ==
  /\ exchanges < MaxExchanges
  /\ exchanges' = exchanges + 1
  /\ \E next \in Editions \ {rules}, ends \in BOOLEAN :
       LET cut   == rules \ next
           now   == Struck(cut)
           built == InForce(there', next)
           plus  == {m \in built : Admitted(m, next)}
       IN  /\ rules' = next
           /\ Drop(Sink({}, cut), cut)
           /\ Post(now, {}, IF ends THEN {} ELSE plus, {})
           /\ due' = IF ends THEN plus ELSE {}
           /\ astray' = {m \in astray : m.rule \notin cut}
                \cup {m \in InForce(there, rules) \ built : m.rule \in next /\ row[m] = "pending"}
                \cup ((built \ plus) \ done)
  /\ UNCHANGED filed /\ Remember({})

InitExchange ==
  /\ rules = First
  /\ filed = {} /\ there = {} /\ told = {} /\ owed = {}
  /\ row = [m \in Readings |-> "none"] /\ count = [m \in Readings |-> 0]
  /\ due = {} /\ exchanges = 0
  /\ done = {} /\ astray = {}

NextExchange == Enter \/ Confirm \/ Recall \/ Perform \/ Compact \/ Exchange

SpecExchange == InitExchange /\ [][NextExchange]_exchangeVars
=============================================================================
