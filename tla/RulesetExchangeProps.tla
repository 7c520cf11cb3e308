------------------------ MODULE RulesetExchangeProps -------------------------
(***************************************************************************)
(* What an exchange of the rules keeps.                                    *)
(***************************************************************************)
EXTENDS RulesetExchange

\* The agenda goes over: a match that holds, that no firing since has had and
\* that is not due is armed, nothing else is armed, and so no match of a rule
\* that stays fires twice for an exchange, compacted or not.  The exceptions
\* are named where they arise: rows counted twice, matches the purge has taken
\* or let in, and what is due while a run goes on.
\* (Session.applyRulesetImmediate)
AgendaCarried ==
  LET holding == InForce(there, rules)
  IN  \A m \in Readings \ astray :
        /\ row[m] = "pending" => m \in holding \ done
        /\ m \in holding \ (done \cup due) => row[m] = "pending"

\* Nothing of a rule that has gone is left: no row, no addition that is due and
\* no edge; and what is derived stands on matches of the rules there are.
\* (agenda.purgeRuleRevisions, Session.removeLogicalSupportsForRuleRevisions)
PurgedLeavesNothing ==
  /\ \A m \in Readings : row[m] # "none" \/ m \in due => m.rule \in rules
  /\ \A e \in owed :
       /\ e[1].rule \in rules /\ e[2] \in there
       /\ e[1] \in InForce(there, rules) \cup astray
  /\ \A p \in there \ told : Owing(p)

\* A set of facts that needs nothing of rules other than those in left.
Upheld(S, left) ==
  \A p \in S \ told : \E e \in owed :
    /\ e[2] = p /\ e[1].rule \in left
    /\ e[1].on \in S \/ e[1] \notin InForce(there, rules)

\* An exchange keeps every fact that the rules that stay can hold up, and takes
\* every other: the cascade neither stops early nor goes too far.
\* (Session.removeLogicalSupportsForRuleRevisions)
PurgeTakesTheUnheld ==
  [][rules' # rules =>
       there' = UNION {S \in SUBSET there : Upheld(S, rules')}]_exchangeVars
=============================================================================
