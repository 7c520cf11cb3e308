----------------------------- MODULE AgendaOrder -----------------------------
(***************************************************************************)
(* The order in which pending activations are taken: one binary heap per   *)
(* module, kept by increments (agendaModuleQueue), under the strategy of   *)
(* the session.  Depth takes the most recent first, breadth the one born   *)
(* first; what is born in one mutation, an epoch, is ranked by its tuple.  *)
(* Which matches hold, and their support, is RunAgenda's: here a removal   *)
(* takes the last support of a row away, and an addition arms it.          *)
(***************************************************************************)
EXTENDS Integers, FiniteSets, Sequences, SequencesExt

CONSTANTS
  Activations,  \* numbered by declaration order, binding tuple and identity
  Queues,
  QueueOf,     \* the module of each match
  SalienceOf,     \* its salience
  ProofMatches, \* those that a query proof in progress waits for
  Recencies,    \* bound: under each strategy, the recencies of tokens
  Arrivals,       \* bound: likewise, what a delta may remove and add, in their order
  Firsts,       \* bound: what a first propagation may bring, in its order, and what
                \* of that is gone again before it ends
  Starts        \* bound: what it may bring in the initial state

ASSUME OrderAssumption ==
  /\ Activations \subseteq Nat /\ IsFiniteSet(Activations)
  /\ Recencies \in [{"depth", "breadth"} -> SUBSET Nat]
  /\ QueueOf \in [Activations -> Queues] /\ SalienceOf \in [Activations -> Int]
  /\ ProofMatches \subseteq Activations

VARIABLES
  schedule, \* strategy, rows by match, the order rows are stored in, a heap per
            \* module, and each row's place in its heap
  line,   \* history: what is pending and was born under breadth, as one set
          \* per mutation, oldest first
  mixed,  \* history: modules whose heap had several births put in beside others
          \* at once, until it is rebuilt or empty
  quiet   \* bound: a fork with another strategy, and a session that starts with
          \* matches, only takes or loses what is pending, until it is reset

orderVars == <<schedule, line, mixed, quiet>>

NoActivation  == [status |-> "none", recency |-> 0, ordinal |-> 0, epoch |-> 0, rank |-> 0]
NoHeaps == [q \in Queues |-> <<>>]
Unqueued == [m \in Activations |-> 0]
NewAgenda(strategy) ==
  [strategy |-> strategy, rows |-> [m \in Activations |-> NoActivation], stored |-> <<>>,
   heap |-> NoHeaps, index |-> Unqueued]

IsBreadth(a) == a.strategy = "breadth"
Status(a, m) == a.rows[m].status
Waiting(a)   == {m \in Activations : Status(a, m) = "pending"}
Alive(a)     == {m \in Activations : Status(a, m) \in {"pending", "consumed"}}

\* Ordinals and epochs are only compared, so they are kept dense: the next is
\* one more than any row has, and what a row has is its place among them.
Ordinals(a) == {a.rows[m].ordinal : m \in Activations}
Epochs(a)   == {a.rows[m].epoch : m \in Activations}
LastOf(numbers) == Max(numbers \cup {0})
PlaceIn(numbers, n) == IF n = 0 THEN 0 ELSE Cardinality({k \in numbers : 0 < k /\ k <= n})
Dense(a) ==
  LET ordinals == Ordinals(a)
      epochs   == Epochs(a)
  IN  [a EXCEPT !.rows = [m \in Activations |->
         [@[m] EXCEPT !.ordinal = PlaceIn(ordinals, @), !.epoch = PlaceIn(epochs, @)]]]

----------------------------------------------------------------------------
\* The order of a strategy.

Precedes(s, t) == \E i \in DOMAIN s : s[i] < t[i] /\ \A j \in 1..(i - 1) : s[j] = t[j]

OrderKey(a, m) ==
  LET r == a.rows[m]
  IN  IF IsBreadth(a) THEN <<-SalienceOf[m], r.epoch, r.rank, r.ordinal>>
                      ELSE <<-SalienceOf[m], -r.recency, m>>
Before(a, m, n) == Precedes(OrderKey(a, m), OrderKey(a, n))

----------------------------------------------------------------------------
\* One heap.  The code's array begins at 1, and so does a sequence.

Swap(a, q, i, j) ==
  LET m == a.heap[q][i]
      n == a.heap[q][j]
  IN  [a EXCEPT !.heap[q] = [@ EXCEPT ![i] = n, ![j] = m],
                !.index = [@ EXCEPT ![m] = j, ![n] = i]]

Above(a, q, i) == i > 1 /\ Before(a, a.heap[q][i], a.heap[q][i \div 2])

RECURSIVE SiftUp(_, _, _), SiftDown(_, _, _)
SiftUp(a, q, i) ==
  IF Above(a, q, i) THEN SiftUp(Swap(a, q, i, i \div 2), q, i \div 2) ELSE a

Child(a, q, i) ==
  LET h == a.heap[q]
  IN  IF 2 * i < Len(h) /\ Before(a, h[2 * i + 1], h[2 * i]) THEN 2 * i + 1 ELSE 2 * i
SiftDown(a, q, i) ==
  LET child == Child(a, q, i)
  IN  IF child <= Len(a.heap[q]) /\ Before(a, a.heap[q][child], a.heap[q][i])
      THEN SiftDown(Swap(a, q, i, child), q, child)
      ELSE a

\* Faulty variant: what takes the place of a row can only be too early there.
SiftDownOnly(a, q, i) == SiftDown(a, q, i)
Sift(a, q, i) == IF Above(a, q, i) THEN SiftUp(a, q, i) ELSE SiftDown(a, q, i)

Push(a, m) ==
  LET q == QueueOf[m]
      n == Len(a.heap[q]) + 1
  IN  IF Status(a, m) # "pending" \/ a.index[m] > 0 THEN a
      ELSE SiftUp([a EXCEPT !.heap[q] = Append(@, m), !.index[m] = n], q, n)

TakeOut(a, q, i) ==
  LET last    == Len(a.heap[q])
      m       == a.heap[q][i]
      swapped == IF i = last THEN a ELSE Swap(a, q, i, last)
      cut     == [swapped EXCEPT !.heap[q] = Front(@), !.index[m] = 0]
  IN  IF i = last THEN cut ELSE Sift(cut, q, i)

At(a, m) ==
  LET h == a.heap[QueueOf[m]]
  IN  a.index[m] \in DOMAIN h /\ h[a.index[m]] = m
Dequeue(a, m) == IF At(a, m) THEN TakeOut(a, QueueOf[m], a.index[m]) ELSE a
Fix(a, m)     == IF At(a, m) THEN Sift(a, QueueOf[m], a.index[m]) ELSE a

\* The heaps from nothing, over the rows in the order they are stored in.
Requeued(a) == FoldLeft(Push, [a EXCEPT !.heap = NoHeaps, !.index = Unqueued], a.stored)

----------------------------------------------------------------------------
\* Rows come and go.

\* A row without an activation is stored; one that was deactivated is armed again
\* with the ordinal and the recency it has.
Store(a, m, recency) ==
  IF Status(a, m) = "none"
  THEN [a EXCEPT !.rows[m] = [NoActivation EXCEPT !.status = "pending", !.recency = recency,
                                           !.ordinal = LastOf(Ordinals(a)) + 1],
                 !.stored = Append(@, m)]
  ELSE [a EXCEPT !.rows[m].status = "pending"]

\* Faulty variant: an activation is born once.
BornOnce(a, m, epoch, rank) ==
  IF IsBreadth(a) /\ a.rows[m].epoch \in {0, epoch}
  THEN [a EXCEPT !.rows[m].epoch = epoch, !.rows[m].rank = rank] ELSE a
Born(a, m, epoch, rank) ==
  IF IsBreadth(a) THEN [a EXCEPT !.rows[m].epoch = epoch, !.rows[m].rank = rank] ELSE a

\* A delta queues a row before it says when the row was born, the first
\* propagation of a session afterwards.
Arm(a, m, epoch, recency)      == Born(Push(Store(a, m, recency), m), m, epoch, 0)
ArmFirst(a, m, epoch, recency) == Push(Born(Store(a, m, recency), m, epoch, 0), m)

Disarm(a, m) ==
  LET out == IF Status(a, m) = "pending" THEN Dequeue(a, m) ELSE a
  IN  [out EXCEPT !.rows[m].status = "deactivated"]

\* Births of one epoch are ranked by tuple, one after the other.
RankIn(a, born, m) == Cardinality({n \in born : a.rows[n].epoch = a.rows[m].epoch /\ n <= m})
RankBirths(a, born) ==
  LET inTurn == SetToSortSeq(born, LAMBDA m, n :
                  Precedes(<<a.rows[m].epoch, m>>, <<a.rows[n].epoch, n>>))
  IN  IF ~IsBreadth(a) THEN a
      ELSE FoldLeft(LAMBDA b, m : Fix(Born(b, m, b.rows[m].epoch, RankIn(b, born, m)), m),
                    a, inTurn)

----------------------------------------------------------------------------
\* The first propagation of a session, at its start or after a reset: births of
\* one epoch, some gone again before it ends.
FirstPropagation(strategy, added, gone, recency) ==
  LET armed == FoldLeft(LAMBDA a, m : ArmFirst(a, m, 1, recency), NewAgenda(strategy), added)
      left  == FoldLeft(Disarm, armed, SelectSeq(added, LAMBDA m : m \in gone))
  IN  RankBirths(left, Waiting(left))

Group(a, born) == IF born = {} \/ ~IsBreadth(a) THEN <<>> ELSE <<born>>

InitOrder ==
  /\ \E strategy \in {"depth", "breadth"} : \E added \in Starts, recency \in Recencies[strategy] :
       /\ schedule = FirstPropagation(strategy, added, {}, recency)
       /\ quiet = (added # <<>>)
  /\ line = Group(schedule, Waiting(schedule))
  /\ mixed = {}

Unlined(gone) == SelectSeq([i \in DOMAIN line |-> line[i] \ gone], LAMBDA s : s # {})

\* What a mutation, or a firing of two mutations, takes away and brings:
\* applyTerminalTokenDeltas and its forms without changes.
ApplyTerminalTokenDeltas ==
  \E delta \in Arrivals[schedule.strategy], recency \in Recencies[schedule.strategy] : \E first \in SUBSET ToSet(delta[2]) :
    LET removed == delta[1]
        added == delta[2]
        born  == ToSet(added)
        second == born \ first
        left  == FoldLeft(Disarm, schedule, removed)
        early == LastOf(Epochs(schedule)) + 1
        armed == FoldLeft(LAMBDA a, m :
                   Arm(a, m, IF m \in first THEN early ELSE early + 1, recency), left, added)
        next  == RankBirths(armed, born)
        crowd(q) == {m \in born : QueueOf[m] = q}
        beside(q) == {m \in Waiting(left) : QueueOf[m] = q}
    IN  /\ quiet => added = <<>>
        /\ ToSet(removed) \subseteq Alive(schedule)
        /\ born \cap Alive(left) = {}
        /\ ~IsBreadth(schedule) => second = {}
        /\ first # {} \/ born = {}
        /\ schedule' = Dense(next)
        /\ line' = Unlined(ToSet(removed)) \o Group(schedule, first) \o Group(schedule, second)
        /\ mixed' = {q \in Queues : /\ next.heap[q] # <<>>
                                     /\ \/ q \in mixed
                                        \/ /\ IsBreadth(schedule) /\ Cardinality(crowd(q)) > 1
                                           /\ beside(q) # {}}
        /\ UNCHANGED quiet

\* A token whose tuple stays changes its recency.
ApplyTerminalTokenUpdates ==
  \E m \in ToSet(schedule.stored) : \E recency \in Recencies[schedule.strategy] \ {schedule.rows[m].recency} :
    LET set == [schedule EXCEPT !.rows[m].recency = recency]
    IN  /\ schedule' = IF Status(schedule, m) = "pending" THEN Fix(set, m) ELSE set
        /\ UNCHANGED <<line, mixed, quiet>>

Consume(m, a) ==
  /\ schedule' = [a EXCEPT !.rows[m].status = "consumed"]
  /\ line' = Unlined({m})
  /\ mixed' = {q \in mixed : a.heap[q] # <<>>}
  /\ UNCHANGED quiet

\* nextInternalPtrForModule, and nextInternalPtr where all rules are in MAIN.
TakeOf(q) ==
  LET m == schedule.heap[q][1]
  IN  schedule.heap[q] # <<>> /\ Consume(m, TakeOut(schedule, q, 1))

\* nextInternalPtrForQueryProof: the rows are searched for the first.
TakeForProof ==
  \E m \in Waiting(schedule) \cap ProofMatches :
    /\ \A n \in Waiting(schedule) \cap ProofMatches : ~Before(schedule, n, m)
    /\ At(schedule, m)
    /\ Consume(m, Dequeue(schedule, m))

\* reset, and the propagation of the initial facts.
ResetOrder ==
  /\ \E first \in Firsts, recency \in Recencies[schedule.strategy] :
       schedule' = FirstPropagation(schedule.strategy, first[1], first[2], recency)
  /\ line' = Group(schedule', Waiting(schedule'))
  /\ mixed' = {}
  /\ quiet' = FALSE

\* compactActivationStorage: only what is pending stays.
CompactStorage ==
  LET rows == [m \in Activations |-> IF m \in Waiting(schedule) THEN schedule.rows[m] ELSE NoActivation]
      kept == SelectSeq(schedule.stored, LAMBDA m : m \in Waiting(schedule))
  IN  /\ kept # schedule.stored
      /\ schedule' = Dense(Requeued([schedule EXCEPT !.rows = rows, !.stored = kept]))
      /\ mixed' = {}
      /\ UNCHANGED <<line, quiet>>

\* cloneForFork: the fork may have another strategy.
Fork ==
  /\ \E strategy \in {"depth", "breadth"} :
       /\ schedule' = Requeued([schedule EXCEPT !.strategy = strategy])
       /\ quiet' = (strategy # schedule.strategy)
  /\ mixed' = {}
  /\ UNCHANGED line

\* A checkpoint restored: the graph is built again and brings its rows in any
\* order, and each gets back what it was.
Restore ==
  /\ \E stored \in SetToSeqs(Alive(schedule)) :
       schedule' = Dense(Requeued([schedule EXCEPT
                   !.rows = [m \in Activations |-> IF m \in Alive(schedule) THEN @[m] ELSE NoActivation],
                   !.stored = stored]))
  /\ mixed' = {}
  /\ UNCHANGED <<line, quiet>>

\* purgeRuleRevisions: the rows of rules that go.
PurgeRuleRevisions ==
  \E m \in ToSet(schedule.stored) :
    LET out == IF Status(schedule, m) = "pending" THEN Dequeue(schedule, m) ELSE schedule
    IN  /\ schedule' = Dense([out EXCEPT !.rows[m] = NoActivation,
                                       !.stored = SelectSeq(@, LAMBDA n : n # m)])
        /\ line' = Unlined({m})
        /\ mixed' = {q \in mixed : out.heap[q] # <<>>}
        /\ UNCHANGED quiet

NextOrder ==
  \/ ApplyTerminalTokenDeltas
  \/ \E q \in Queues : TakeOf(q)
  \/ TakeForProof
  \/ ResetOrder
  \/ ~quiet /\ (ApplyTerminalTokenUpdates \/ CompactStorage \/ Fork \/ Restore \/ PurgeRuleRevisions)

SpecOrder == InitOrder /\ [][NextOrder]_orderVars
=============================================================================
