----------------------------- MODULE ExplainLog ------------------------------
(***************************************************************************)
(* The log behind Session.Explain: a listener that keeps the newest        *)
(* mutations of facts, fact by fact, with a mark on the facts whose early  *)
(* ones it has lost, and the bindings of the newest firings.               *)
(*                                                                         *)
(* A mutation and a firing are known by their sequence number.             *)
(***************************************************************************)
EXTENDS Naturals, Sequences, FiniteSets

CONSTANTS
  Subjects,     \* facts
  Authors,      \* activations
  MaxEntries,   \* explainLog.maxEntries
  MaxEvents     \* bound: mutations and firings of one generation

ASSUME LogAssumption ==
  /\ MaxEntries \in Nat \ {0} /\ MaxEvents \in Nat

VARIABLES
  byFact,           \* the entries kept of each fact, oldest first
  arrivals,         \* the facts of all entries kept, oldest first
  truncatedFacts,
  captured,         \* capturedBindings: a firing of each activation, or 0
  bindingArrivals,
  clock,            \* the last sequence number
  completed,        \* history: the last firing of each that did not fail
  recorded          \* history: all mutations since the log was cleared

logVars == <<byFact, arrivals, truncatedFacts, captured, bindingArrivals, clock,
             completed, recorded>>

Tick == clock < MaxEvents /\ clock' = clock + 1

----------------------------------------------------------------------------
\* Faulty variant of Evicted: a fact that loses its last entry is not unmarked.
EvictedMarked(kept, marks, f) ==
  [byFact |-> [kept EXCEPT ![f] = Tail(@)], truncatedFacts |-> marks \cup {f}]

\* evictOldestLocked: a fact that loses its last entry loses its mark with it.
Evicted(kept, marks, f) ==
  [byFact |-> [kept EXCEPT ![f] = Tail(@)],
   truncatedFacts |-> IF Len(kept[f]) = 1 THEN marks \ {f} ELSE marks \cup {f}]

\* record: the entry is added before the oldest one goes.
Note(f) ==
  LET kept  == [byFact EXCEPT ![f] = Append(@, clock')]
      queue == Append(arrivals, f)
      left  == Evicted(kept, truncatedFacts, Head(queue))
  IN  /\ recorded' = Append(recorded, [of |-> f, entry |-> clock'])
      /\ IF Len(queue) <= MaxEntries
         THEN byFact' = kept /\ arrivals' = queue /\ UNCHANGED truncatedFacts
         ELSE /\ byFact' = left.byFact /\ truncatedFacts' = left.truncatedFacts
              /\ arrivals' = Tail(queue)

Queued(a) == IF captured[a] = 0 THEN Append(bindingArrivals, a) ELSE bindingArrivals

\* captureBindings: a firing takes the place of an earlier one of the same
\* activation, in the order as well.
Capture(a) ==
  LET now == [captured EXCEPT ![a] = clock']
  IN  IF Len(Queued(a)) <= MaxEntries
      THEN captured' = now /\ bindingArrivals' = Queued(a)
      ELSE /\ captured' = [now EXCEPT ![Head(Queued(a))] = 0]
           /\ bindingArrivals' = Tail(Queued(a))

----------------------------------------------------------------------------
Change ==
  /\ Tick
  /\ \E f \in Subjects : Note(f)
  /\ UNCHANGED <<captured, bindingArrivals, completed>>

\* The end of a firing, after its mutations; one that fails is not captured.
Firing ==
  /\ Tick
  /\ \E a \in Authors : Capture(a) /\ completed' = [completed EXCEPT ![a] = clock']
  /\ UNCHANGED <<byFact, arrivals, truncatedFacts, recorded>>

\* A log with nothing in it, whatever the sequence number.
Blanked(kept, queue, marks, bindings, fired, last, all) ==
  /\ kept = [f \in Subjects |-> <<>>] /\ queue = <<>> /\ marks = {}
  /\ bindings = [a \in Authors |-> 0] /\ fired = <<>>
  /\ last = [a \in Authors |-> 0] /\ all = <<>>

\* Reset: the sequence numbers go on, here from the start to keep them bounded.
ClearLog ==
  /\ Blanked(byFact', arrivals', truncatedFacts', captured', bindingArrivals',
             completed', recorded')
  /\ clock' = 0

InitLog ==
  /\ Blanked(byFact, arrivals, truncatedFacts, captured, bindingArrivals,
             completed, recorded)
  /\ clock = 0

NextLog == Change \/ Firing \/ ClearLog

SpecLog == InitLog /\ [][NextLog]_logVars
=============================================================================
