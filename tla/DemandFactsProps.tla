-------------------------- MODULE DemandFactsProps ---------------------------
(***************************************************************************)
(* The properties of DemandFacts.                                          *)
(***************************************************************************)
EXTENDS DemandFacts

Sayable == Claims \cup Goals \cup Questions
Items    == [says : Sayable, copy : Nat]
Rows     == [plan : Plans, on : SUBSET Items]
Job      == [op : {"none", "assert", "retract", "modify", "query", "rebuild"},
             gone : SUBSET Items, doomed : SUBSET Items, answered : SUBSET Rows,
             asking : SUBSET Rows, after : SUBSET Rows, lending : BOOLEAN]

NeedFacts == {i \in Stored : i.says \in Goals}

\* Every variable stays in its range, and one row has one record.
DemandTypeOK ==
  /\ order \in Seq(Items) /\ lent \subseteq Items
  /\ records \subseteq [row : Rows, need : Items]
  /\ \A a, b \in records : a.row = b.row => a = b
  /\ job \in Job
  /\ proof \in Questions \cup {NoQuestion}
  /\ late \subseteq Rows /\ unserved \subseteq Rows /\ adrift \subseteq Items

\* A stored need fact is one that a record needs, or that a row is asking for, or
\* that is about to go, or that came to a rebuilt session alone (adrift); a record
\* needs one that is stored; and there is one for each goal (demandByDemand against
\* the fact store).
NeedsBacked ==
  /\ \A n \in NeedFacts :
       \/ n \in job.doomed \cup adrift
       \/ \E rec \in records : rec.need = n
       \/ \E r \in job.asking : Goal(r) = n.says
  /\ \A rec \in records : rec.need \in NeedFacts /\ rec.need \notin job.doomed
  /\ \A m, n \in NeedFacts : m.says = n.says => m = n

\* Between operations a record's row is in the graph and has no match, but for
\* the rows in late: flushed when it had been answered (session.go:4039 and :839)
\* or was gone (session.go:2575), or answered or taken away while a proof was
\* active.
RecordsCurrent ==
  AtRest => \A rec \in records :
    /\ rec.need.says = Goal(rec.row)
    /\ rec.row \in Unmet(Graph) \cup late

\* Between operations every row of stored facts that has no match has its need
\* fact, but for the rows that asked while a proof was active (docs/advanced.md:
\* when a join needs a fact that does not exist, the runtime generates a demand);
\* and no row is served by a fact that a proof lent and that outlives it.
RowsServed ==
  /\ AtRest => \A r \in Unmet(Stored) : r \in Owners \cup unserved
  /\ proof = NoQuestion => lent = {}
=============================================================================
