---------------------------- MODULE MCRunAgenda ------------------------------
(***************************************************************************)
(* RunAgenda and AgendaOrder for TLC, side by side: part, fixed in the     *)
(* initial state, says which of them moves.                                *)
(*                                                                         *)
(* RunAgenda has three matches, two of them in MAIN and the third in       *)
(* another module, and one of them with two or-branches when Branched.  An *)
(* auto-focus rule and a listener make a session keep its deltas the same  *)
(* way, so AllKinds has the one that moves the focus too.                  *)
(***************************************************************************)
EXTENDS RunAgendaProps, AgendaOrderProps

CONSTANTS
  t1, t2, t3, t4, a, b, c, main, side, none, Branched,
  Comers,  \* bound: matches of AgendaOrder that come and go
  Resting  \* bound: matches its sessions may start with

VARIABLE part

AllTokens  == IF Branched THEN {t1, t2, t3, t4} ELSE {t1, t2, t3}
Derives    == [t \in AllTokens |->
                 CASE t = t1 -> a [] t = t2 -> b [] t = t3 -> c [] OTHER -> a]
Placed     == [m \in {a, b, c} |-> IF m = c THEN side ELSE main]
Ranked     == [m \in {a, b, c} |-> IF m = b THEN 1 ELSE 0]
Kind(listeners, autoFocus, deadlines) ==
  {[listeners |-> listeners, autoFocus |-> autoFocus, deadlines |-> deadlines]}
Plain      == Kind(FALSE, {}, FALSE)
Listened   == Kind(TRUE, {}, FALSE)
Deadlined  == Kind(FALSE, {}, TRUE)
Focusing   == Kind(FALSE, {c}, FALSE)
AllKinds   == Plain \cup Focusing

----------------------------------------------------------------------------
\* Those that come are of one salience, the last of another module, and under
\* depth only two come; those that rest are of one module and each of its own
\* salience.
AllActivations == 1..(Comers + Resting)
Crowd          == (Comers + 1)..(Comers + Resting)
InModule       == [m \in AllActivations |-> IF m = Comers THEN side ELSE main]
InMain         == [m \in AllActivations |-> main]
Saliences      == [m \in AllActivations |-> IF m \in Crowd THEN m ELSE 0]
InTurn(n, k)   == {s \in UNION {[1..i -> 1..n] : i \in 0..k} : IsInjective(s)}
Comings(n)     ==
  {<<<<m>>, <<>>>> : m \in Crowd} \cup
  {<<r, new>> \in InTurn(n, 1) \X InTurn(n, MaxDelta) : Len(r) + Len(new) \in 1..MaxDelta}
Changes        == [depth |-> Comings(2), breadth |-> Comings(Comers)]
Beginnings     == {<<<<2, 1>>, {}>>, <<<<1, 2>>, {1}>>}
Recent         == [depth |-> {1, 2}, breadth |-> {1}]

\* Of every two heaps of the crowd that differ in the places of the root's
\* children, one, row by row; and none.
Heaps   == {s \in SetToSeqs(Crowd) :
              s[2] < s[3] /\ \A i \in 2..Resting : s[i] < s[i \div 2]}
Crowds  == Heaps \cup {<<>>}
NoCrowd == {<<>>}

----------------------------------------------------------------------------
InitAgenda ==
  /\ part \in {"run", "order"}
  /\ Init /\ InitOrder
  /\ part = "run" => schedule = NewAgenda("depth")
  /\ part = "order" => session = CHOOSE kind \in Sessions : TRUE

NextAgenda ==
  /\ UNCHANGED part
  /\ \/ part = "run" /\ Next /\ UNCHANGED orderVars
     \/ part = "order" /\ NextOrder /\ UNCHANGED vars

SpecAgenda == InitAgenda /\ [][NextAgenda]_<<part, vars, orderVars>>
=============================================================================
