-------------------------- MODULE AgendaOrderProps ---------------------------
(***************************************************************************)
(* What the heaps of the agenda have to keep.                              *)
(***************************************************************************)
EXTENDS AgendaOrder

InHeap(q) == ToSet(schedule.heap[q])
Lines     == UNION ToSet(line)
BornAt(m) == CHOOSE i \in DOMAIN line : m \in line[i]

\* stored lists every row once.  A module's heap holds its pending activations,
\* each once, and each activation knows where: remove and fix do nothing for one
\* whose heapIndex is wrong, which would fire after its match is gone
\* (agenda.go:397).  And no activation stands under one it comes before, but in a
\* heap that several births were put into beside others at once (see OldestFirst).
HeapsExact ==
  /\ IsInjective(schedule.stored)
  /\ ToSet(schedule.stored) = {m \in Activations : Status(schedule, m) # "none"}
  /\ \A q \in Queues : InHeap(q) = {m \in Waiting(schedule) : QueueOf[m] = q}
  /\ \A m \in Activations :
       IF m \in Waiting(schedule) THEN At(schedule, m) ELSE schedule.index[m] = 0
  /\ \A q \in Queues \ mixed :
       \A i \in 2..Len(schedule.heap[q]) : ~Above(schedule, q, i)

BornBefore(n, m) ==
  /\ {m, n} \subseteq Lines
  /\ BornAt(n) < BornAt(m) \/ (BornAt(n) = BornAt(m) /\ n < m)
Overtaken(m) ==
  \E n \in InHeap(QueueOf[m]) : SalienceOf[n] = SalienceOf[m] /\ BornBefore(n, m)
Consumes(m) == Status(schedule, m) = "pending" /\ Status(schedule', m) = "consumed"

\* Under breadth, what a module's turn takes was born no later than anything of
\* its salience that stays, through re-arming, compaction, Restore and forks, and
\* of what one mutation bore it has the first tuple, whatever order the graph
\* brought them in (agenda.go:2503: "Same-epoch breadth births are logically
\* simultaneous").  A query proof may take one that is not at the head of its heap.
FirstBornFirst ==
  [][\A m \in Activations :
       (/\ IsBreadth(schedule) /\ Consumes(m)
        /\ QueueOf[m] \notin mixed
        /\ m \in ProofMatches => schedule.index[m] = 1)
       => ~Overtaken(m)]_orderVars

\* The promise without the exception: "fires equal-salience activations in birth
\* order (FIFO)" (agenda.go:21).
OldestFirst ==
  \A q \in Queues : \A n \in InHeap(q) :
    LET m == schedule.heap[q][1]
    IN  (IsBreadth(schedule) /\ SalienceOf[n] = SalienceOf[m] /\ {m, n} \subseteq Lines)
          => BornAt(m) <= BornAt(n)
=============================================================================
