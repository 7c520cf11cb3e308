-------------------------- MODULE TruthMaintenance ---------------------------
(***************************************************************************)
(* What the session promises of the facts it holds: a fact is there because*)
(* it was stated, or because the firings that derived it still stand, or   *)
(* both; and each operation, with everything it brings down, is one step.  *)
(* Which matches stand is not said here: an operation may undermine any    *)
(* of the reasons, and what it may not do is touch a fact that has one.    *)
(***************************************************************************)
CONSTANTS Ids, Reasons

VARIABLES how,      \* how each fact is held: none, stated, logical or both
          edges     \* <<reason, fact>> of every derivation that stands

Derived(E, f) == \E r \in Reasons : <<r, f>> \in E

\* What is left of "how" when only the edges E stand.
Left(E) == [f \in Ids |->
              CASE how[f] = "logical" /\ ~Derived(E, f) -> "none"
                [] how[f] = "both" /\ ~Derived(E, f) -> "stated"
                [] OTHER -> how[f]]

Undermine == edges' \subseteq edges

Init == how = [f \in Ids |-> "none"] /\ edges = {}

\* An assertion by the user.
State(f) ==
  /\ \/ how[f] = "none" /\ how' = [how EXCEPT ![f] = "stated"]
     \/ how[f] = "logical" /\ how' = [how EXCEPT ![f] = "both"]
  /\ UNCHANGED edges

\* A derivation by the rule that is firing.
Derive(f, r) ==
  /\ how' = [how EXCEPT ![f] = IF @ \in {"none", "logical"}
                               THEN "logical" ELSE "both"]
  /\ edges' = edges \cup {<<r, f>>}

\* Retract takes the user's statement back, and the fact with it if nothing
\* else holds it.
Withdraw(f) ==
  \/ how[f] = "both" /\ how' = [how EXCEPT ![f] = "logical"] /\ UNCHANGED edges
  \/ how[f] = "stated" /\ Undermine /\ how' = [Left(edges') EXCEPT ![f] = "none"]

\* Modify: a stated fact in a new version.
Amend(f, g) ==
  /\ how[f] = "stated" /\ how[g] = "none"
  /\ Undermine
  /\ how' = [Left(edges') EXCEPT ![f] = "none", ![g] = "stated"]

\* An assertion whose unique key another fact has takes its place, whatever
\* held the other one.
Supplant(f, g) ==
  /\ how[f] # "none" /\ how[g] = "none"
  /\ \/ /\ edges' \subseteq {e \in edges : e[2] # f}
        /\ how' = [Left(edges') EXCEPT ![f] = "none", ![g] = "stated"]
     \/ \E r \in Reasons :
          /\ <<r, g>> \in edges'
          /\ edges' \ {<<r, g>>} \subseteq {e \in edges : e[2] # f}
          /\ how' = [Left(edges') EXCEPT ![f] = "none", ![g] = "logical"]

\* An action that fails takes back what its firing derived.
Disown == Undermine /\ how' = Left(edges')

Clear == how' = [f \in Ids |-> "none"] /\ edges' = {}

Next ==
  \/ \E f \in Ids : State(f) \/ Withdraw(f)
  \/ \E f \in Ids, r \in Reasons : Derive(f, r)
  \/ \E f, g \in Ids : Amend(f, g) \/ Supplant(f, g)
  \/ Disown \/ Clear

Spec == Init /\ [][Next]_<<how, edges>>
=============================================================================
