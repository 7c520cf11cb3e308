--------------------------- MODULE ExplainLogProps ---------------------------
(***************************************************************************)
(* What the log tells of a fact and of a firing.                           *)
(***************************************************************************)
EXTENDS ExplainLog

\* The entries that are kept are the newest MaxEntries.
Dropped == IF Len(recorded) <= MaxEntries THEN 0 ELSE Len(recorded) - MaxEntries
Of(f, from, to) == {i \in DOMAIN recorded : i \in from..to /\ recorded[i].of = f}

\* The i-th mutation and all after it, of one fact, were never further apart
\* than the log is long: the fact has not been without an entry since.
Unbroken(f, i) ==
  \A j \in Of(f, i, Len(recorded)) :
    \/ Of(f, j + 1, Len(recorded)) = {}
    \/ Of(f, j + 1, j + MaxEntries) # {}

HistoryOf(f) ==
  LET inOrder[i \in Dropped..Len(recorded)] ==
        IF i = Dropped THEN <<>>
        ELSE IF recorded[i].of = f THEN Append(inOrder[i - 1], recorded[i].entry)
        ELSE inOrder[i - 1]
  IN  inOrder[Len(recorded)]

\* What the log has of a fact are its mutations among the newest, in their
\* order, and it is marked exactly if one before them is lost, unless the fact
\* was without an entry in between: then its history looks complete, though
\* docs/advanced.md:223 says it is reported as truncated.  The bindings that are
\* kept are those of the last firing of each activation that did not fail, and
\* each activation that has some is in the queue once.
\* (explainLog.record, evictOldestLocked, captureBindings)
LogTells ==
  /\ \A f \in Subjects :
       /\ byFact[f] = HistoryOf(f)
       /\ f \in truncatedFacts <=>
            /\ byFact[f] # <<>>
            /\ \E i \in Of(f, 1, Dropped) : Unbroken(f, i)
  /\ \A a \in Authors :
       /\ captured[a] \in {0, completed[a]}
       /\ Cardinality({i \in DOMAIN bindingArrivals : bindingArrivals[i] = a})
            = (IF captured[a] = 0 THEN 0 ELSE 1)
=============================================================================
