----------------------------- MODULE JoinMemory ------------------------------
(***************************************************************************)
(* What the memory of a join promises the network: two sets of rows, and   *)
(* one output for each pair of rows that match.  It is the memory a join   *)
(* node has in ReteNetwork.                                                *)
(***************************************************************************)
EXTENDS Integers

CONSTANTS
  LeftTokens, RightTokens,
  Matching(_, _)           \* whether a left and a right row go together

VARIABLES lefts, rights, outputs

memoryVars == <<lefts, rights, outputs>>

PairsOf(ls, rs) == {k \in ls \X rs : Matching(k[1], k[2])}

InitMemory == lefts = {} /\ rights = {} /\ outputs = {}

AddLeft(t) ==
  /\ t \notin lefts
  /\ lefts' = lefts \cup {t}
  /\ outputs' = outputs \cup PairsOf({t}, rights)
  /\ UNCHANGED rights

AddRight(t) ==
  /\ t \notin rights
  /\ rights' = rights \cup {t}
  /\ outputs' = outputs \cup PairsOf(lefts, {t})
  /\ UNCHANGED lefts

\* Rows go, and with them exactly the outputs that they took part in.
DropLefts(ts) ==
  /\ lefts' = lefts \ ts
  /\ outputs' = {k \in outputs : k[1] \notin ts}
  /\ UNCHANGED rights

DropRights(ts) ==
  /\ rights' = rights \ ts
  /\ outputs' = {k \in outputs : k[2] \notin ts}
  /\ UNCHANGED lefts

Forget == lefts' = {} /\ rights' = {} /\ outputs' = {}

NextMemory ==
  \/ \E t \in LeftTokens : AddLeft(t)
  \/ \E t \in RightTokens : AddRight(t)
  \/ \E ts \in SUBSET LeftTokens : DropLefts(ts)
  \/ \E ts \in SUBSET RightTokens : DropRights(ts)
  \/ Forget

SpecMemory == InitMemory /\ [][NextMemory]_memoryVars
=============================================================================
