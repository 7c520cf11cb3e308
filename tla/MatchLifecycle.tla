--------------------------- MODULE MatchLifecycle ----------------------------
(***************************************************************************)
(* What the agenda promises of every complete match of a rule: a rule      *)
(* fires only on a match that holds, once for each time the match comes to *)
(* hold, and one firing at a time.  Nothing is promised of when it fires.  *)
(***************************************************************************)
CONSTANTS Matches, NoMatch

VARIABLES live,     \* the matches that hold
          spent,    \* of those, the ones that have fired since they came to hold
          current   \* the match being fired

Init == live \subseteq Matches /\ spent = {} /\ current = NoMatch

\* A match may go, or come, during a firing.
Change ==
  /\ live' \subseteq Matches
  /\ spent' = spent \cap live'
  /\ UNCHANGED current

Fire(m) ==
  /\ current = NoMatch /\ current' = m
  /\ m \in live \ spent
  /\ spent' = spent \cup {m}
  /\ UNCHANGED live

Fired == current # NoMatch /\ current' = NoMatch /\ UNCHANGED <<live, spent>>

\* Reset starts a new generation, in which every match is a new one.
Restart ==
  /\ current = NoMatch
  /\ live' \subseteq Matches
  /\ spent' = {}
  /\ UNCHANGED current

Next == Change \/ Restart \/ Fired \/ \E m \in Matches : Fire(m)

Spec == Init /\ [][Next]_<<live, spent, current>>
=============================================================================
