------------------------- MODULE WorkingMemoryProps --------------------------
(***************************************************************************)
(* The properties of WorkingMemory.                                        *)
(***************************************************************************)
EXTENDS WorkingMemory

Held == {"none", "stated", "logical", "both"}
Memory == [says : [Names -> Contents \cup {Nothing}], how : [Names -> Held],
           edges : SUBSET (Match \X Names)]
Work == [op : {"none", "retract", "modify", "replace", "fail"},
         sources : SUBSET Match, doubtful : SUBSET Names,
         removed : SUBSET Match, added : SUBSET Match,
         put : Contents \cup {Nothing}, as : Held]

\* Every variable stays in the range its Go type and the constants give it.
MemoryTypeOK ==
  /\ [says |-> says, how |-> how, edges |-> edges] \in Memory
  /\ undo \in Memory
  /\ work \in Work
  /\ pending \subseteq Match /\ consumed \subseteq Match /\ ready \in BOOLEAN
  /\ firing \in Match \cup {Nothing} /\ acts \in Nat
  /\ excused \subseteq Match /\ missed \in BOOLEAN

\* A fact is marked as derived exactly when an edge supports it, an edge
\* supports a fact that is there, and during a cascade only a fact it has still
\* to look at may differ (logical_support.go, updateFactSupportState against
\* the three indexes of edges).
SupportExact ==
  /\ \A f \in Names : how[f] = "none" <=> says[f] = Nothing
  /\ \A e \in edges : how[e[2]] \in {"logical", "both"}
  /\ \A f \in Names : how[f] \in {"logical", "both"} =>
                         Derived(f) \/ f \in work.doubtful

\* Between operations, what stands behind every derived fact is a match that
\* holds; the ones that do not were lost to an assertion, which starts no
\* cascade, or had been lost before they derived anything (docs/advanced.md:
\* when a supporting match goes away the support edge is removed).
EdgesGrounded ==
  Idle => \A e \in edges : e[1] \in Holds(says) \cup excused

\* No two facts have one unique key, and no content is held twice, whatever
\* replaces, modifies or fails (duplicateIndexes).
KeysUnique ==
  \A f, g \in Facts(says) : KeyOf[says[f]] = KeyOf[says[g]] => f = g

\* A clean agenda that has been told of everything has an activation, to fire or
\* fired, for every match that holds and for no other: the deltas of an
\* operation and of its cascade, coalesced, add up to what changed.
AgendaFollows ==
  Idle /\ ready /\ ~missed =>
    /\ pending \cup consumed = Holds(says)
    /\ pending \cap consumed = {}

\* The same of the pending activations, with no exception
\* (docs/executable-semantics.md: pending activations that no longer match are
\* removed).
PendingStillHolds == Idle /\ ready => pending \subseteq Holds(says)

Ledger == INSTANCE TruthMaintenance WITH
  Ids <- Names, Reasons <- Match,
  how <- IF Idle THEN how ELSE undo.how,
  edges <- IF Idle THEN edges ELSE undo.edges

\* Each operation is one step of TruthMaintenance, its cascade included: no fact
\* that has a reason goes unless it is the one retracted, modified or replaced,
\* every fact without one goes, and a replacement that fails changes nothing.
KeepsTruth == Ledger!Spec
=============================================================================
