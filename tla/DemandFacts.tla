---------------------------- MODULE DemandFacts ------------------------------
(***************************************************************************)
(* Backward chaining: a row that finds no match at a join on a reactive    *)
(* template asks for one by a need fact, which lives as long as a record   *)
(* says that some row needs it.                                            *)
(*                                                                         *)
(* A fact is an item: what it says and which copy it is.  What a need fact *)
(* says is its goal.  Rows are those of the joins that can ask: a row of a *)
(* plan joins one item for each content of its context, and wants a goal.  *)
(* The graph is exact (ReteNetwork is about that); here a row is its token, *)
(* so an item that comes back is a new copy, and its rows are new owners.  *)
(*                                                                         *)
(* The steps of one operation are apart, and in the order of the code:     *)
(* records on what is gone are released, answered rows give up their       *)
(* records, and what was asked for is put in.  Each step takes a whole     *)
(* level of its queue.  Demand is not limited (demandLimit is 0).          *)
(***************************************************************************)
EXTENDS Naturals, FiniteSets, Sequences

CONSTANTS
  Claims,      \* what a fact of the user can say
  Goals,       \* what a need fact can say
  Questions,   \* what a query's trigger can say
  Supply,      \* Supply[g]: the claims that answer goal g
  Plans,       \* backchainDemands of the joins
  Context,     \* Context[p]: what the items of a row of plan p say
  Wants,       \* Wants[p]: the goal of such a row
  Initials,    \* the initial facts, a sequence of claims
  NoQuestion,
  MaxCopies    \* bound: no mutation begins when a copy with this number is known

ASSUME DemandAssumption ==
  /\ Claims \cap Goals = {} /\ Questions \cap (Claims \cup Goals) = {}
  /\ Supply \in [Goals -> SUBSET Claims]
  /\ IsFiniteSet(Plans)
  /\ Context \in [Plans -> (SUBSET (Claims \cup Goals \cup Questions)) \ {{}}]
  /\ Wants \in [Plans -> Goals]
  \* No row is answered by a fact it is on.
  /\ \A p \in Plans : Context[p] \cap Supply[Wants[p]] = {}
  /\ Initials \in Seq(Claims)
  /\ \A j, k \in DOMAIN Initials : Initials[j] = Initials[k] => j = k
  /\ NoQuestion \notin Questions

VARIABLES
  order,       \* factWorkspace.insertionOrder
  lent,        \* the trigger and the need facts of a proof: in the graph, not
               \* in the store
  records,     \* demandOwnerRecords: which row needs which need fact
  job,         \* the operation under way
  proof,       \* activeQueryProof
  late,        \* history: rows that got, or kept, a record they should not have
  unserved,    \* history: rows whose request went to a proof
  adrift       \* history: need facts that came to a rebuilt session with no
               \* row to need them

demandVars == <<order, lent, records, job, proof, late, unserved, adrift>>

----------------------------------------------------------------------------
\* The graph.

ItemsOf(s) == {s[k] : k \in DOMAIN s}
Stored     == ItemsOf(order)
Graph      == Stored \cup lent

\* The rows of plan p on the items G.
PlanRows(p, G) ==
  {[plan |-> p, on |-> S] : S \in {T \in SUBSET {i \in G : i.says \in Context[p]} :
      /\ {i.says : i \in T} = Context[p]
      /\ Cardinality(T) = Cardinality(Context[p])}}
RowsOn(G)  == UNION {PlanRows(p, G) : p \in Plans}
Goal(r)    == Wants[r.plan]
Met(r, G)  == \E i \in G : i.says \in Supply[Goal(r)]
Unmet(G)   == {r \in RowsOn(G) : ~Met(r, G)}

\* Faulty variant of Asked: a row that loses its last match does not ask again.
AskedNew(G, H) == Unmet(H) \ RowsOn(G)

\* The rows that ask when G becomes H: appendBackchainDemandRequests for a new
\* row without a match, and for one that lost its last.
Asked(G, H) == Unmet(H) \ Unmet(G)

\* The owners resolved when i joins G: the rows it answers, and the new ones
\* that find a match (appendBackchainDemandResolutions).
AnsweredBy(i, G) ==
  LET H == G \cup {i}
  IN  {r \in RowsOn(H) : i.says \in Supply[Goal(r)] \/ (r \notin RowsOn(G) /\ Met(r, H))}

\* A copy that nothing refers to.
Known == Graph \cup {rec.need : rec \in records} \cup adrift
           \cup UNION {r.on : r \in {rec.row : rec \in records} \cup late \cup unserved}
Copy(c) ==
  LET used == {i.copy : i \in {k \in Known : k.says = c}}
  IN  [says |-> c, copy |-> CHOOSE n \in 1..(Cardinality(used) + 1) :
         n \notin used /\ \A m \in 1..(n - 1) : m \in used]
Lent(c) == [says |-> c, copy |-> 0]

\* findPersistentDemandFact; a proof looks among its own facts too.
NeedsIn(G, g) == {i \in G : i.says = g}

----------------------------------------------------------------------------
\* The records.

Owners     == {rec.row : rec \in records}
Record(r, n) == [row |-> r, need |-> n]

\* s without the items of S, by recursion so that it can be reasoned about.
Stripped(s, S) ==
  LET kept[k \in 0..Len(s)] ==
        IF k = 0 THEN <<>>
        ELSE IF s[k] \in S THEN kept[k - 1]
        ELSE Append(kept[k - 1], s[k])
  IN  kept[Len(s)]

\* Faulty variant of Unneeded: one record is as good as all.
UnneededAll(kept, needs) == needs

\* removeBackchainDemandSupportDemandBucket: the need facts that lose their last
\* record.
Unneeded(kept, needs) == {n \in needs \cap Stored : \A rec \in kept : rec.need # n}

NoJob == [op |-> "none", gone |-> {}, doomed |-> {}, answered |-> {},
          asking |-> {}, after |-> {}, lending |-> FALSE]
AtRest == job = NoJob

\* The records of S are dropped.  A need fact without one goes next.
Withdraw(S, next) ==
  /\ records' = records \ S
  /\ job' = [next EXCEPT !.doomed = @ \cup Unneeded(records', {rec.need : rec \in S})]

----------------------------------------------------------------------------
\* Mutations, by the user or by the firing of a proof.

Mutable == AtRest /\ \A i \in Known : i.copy < MaxCopies
Unsaid(c) == \A i \in Stored : i.says # c

\* While a proof is active no owner is resolved, and the requests of its own
\* firings are the proof's (flushBackchainDemandRequestsImmediate).
Open(op, gone, answered, asking) ==
  /\ \E own \in BOOLEAN :
       /\ own => proof # NoQuestion
       /\ job' = [NoJob EXCEPT !.op = op, !.gone = gone, !.asking = asking,
                    !.answered = IF proof = NoQuestion THEN answered ELSE {},
                    !.lending = own]
  /\ late' = IF proof = NoQuestion THEN late ELSE late \cup (answered \cap Owners)
  /\ UNCHANGED <<records, proof, unserved, adrift>>

\* insertFactImmediate
AssertClaim ==
  /\ Mutable /\ UNCHANGED lent
  /\ \E c \in {d \in Claims : Unsaid(d)} :
       /\ order' = Append(order, Copy(c))
       /\ Open("assert", {}, AnsweredBy(Copy(c), Graph), Asked(Graph, Graph'))

\* retractImmediate; a need fact is logical, and refused.
RetractClaim ==
  /\ Mutable /\ UNCHANGED lent
  /\ \E i \in {k \in Stored : k.says \in Claims} :
       /\ order' = Stripped(order, {i})
       /\ Open("retract", {i}, {}, Asked(Graph, Graph'))

\* Faulty variant of ModifyClaim: the records on the old version stay.
ModifyClaimOnly ==
  /\ Mutable /\ UNCHANGED lent
  /\ \E k \in DOMAIN order, c \in {d \in Claims : Unsaid(d)} :
       /\ order[k].says \in Claims
       /\ order' = [order EXCEPT ![k] = Copy(c)]
       /\ LET between == Graph \ {order[k]}
          IN  Open("modify", {}, AnsweredBy(Copy(c), between),
                    Asked(Graph, between) \cup Asked(between, Graph'))

\* modifyImmediate: a removal and an addition whose requests and resolutions are
\* put together.
ModifyClaim ==
  /\ Mutable /\ UNCHANGED lent
  /\ \E k \in DOMAIN order, c \in {d \in Claims : Unsaid(d)} :
       /\ order[k].says \in Claims
       /\ order' = [order EXCEPT ![k] = Copy(c)]
       /\ LET between == Graph \ {order[k]}
          IN  Open("modify", {order[k]}, AnsweredBy(Copy(c), between),
                    Asked(Graph, between) \cup Asked(between, Graph'))

----------------------------------------------------------------------------
\* The steps of an operation.

\* removeBackchainDemandSupportsForFact, or ForFactVersion: the records of rows on
\* what is gone.
Release ==
  /\ job.gone # {}
  /\ Withdraw({rec \in records : rec.row.on \cap job.gone # {}}, [job EXCEPT !.gone = {}])
  /\ UNCHANGED <<order, lent, proof, late, unserved, adrift>>

\* removeSingleBackchainDemandFactAndDependentSupportsImmediate: no row loses a
\* match with a need fact, but the rows on it go.
DropNeeds ==
  /\ job.gone = {} /\ job.doomed # {}
  /\ order' = Stripped(order, job.doomed)
  /\ job' = [job EXCEPT !.gone = job.doomed, !.doomed = {}]
  /\ UNCHANGED <<lent, records, proof, late, unserved, adrift>>

Steady == job.gone = {} /\ job.doomed = {}

\* resolveBackchainDemandRequestsImmediate
Resolve ==
  /\ Steady /\ job.answered # {}
  /\ Withdraw({rec \in records : rec.row \in job.answered}, [job EXCEPT !.answered = {}])
  /\ UNCHANGED <<order, lent, proof, late, unserved, adrift>>

Flushing == Steady /\ job.answered = {} /\ job.asking # {}
Missing  == {g \in Goals : g \in {Goal(r) : r \in job.asking}
                             /\ NeedsIn(Stored, g) = {}}

\* flushBackchainDemandRequestsImmediate: a need fact for each goal that has none,
\* and a record for each row that has none, whether or not the row is still
\* there and still without a match.
Flush ==
  /\ Flushing /\ ~job.lending /\ UNCHANGED lent
  /\ \E s \in [1..Cardinality(Missing) -> {Copy(g) : g \in Missing}] :
       /\ ItemsOf(s) = {Copy(g) : g \in Missing}
       /\ order' = order \o s
  /\ records' = records \cup
       {Record(r, CHOOSE n \in Stored' : n.says = Goal(r)) : r \in job.asking \ Owners}
  /\ job' = [job EXCEPT
       !.asking = Asked(Graph, Graph'),
       !.after = IF proof # NoQuestion THEN {}
                 ELSE @ \cup UNION {AnsweredBy(n, Graph' \ {n}) : n \in Stored' \ Stored}]
  /\ late' = late \cup {r \in job.asking \ Owners : r \notin Unmet(Graph)}
  /\ UNCHANGED <<proof, unserved, adrift>>

\* backchainQueryProofContext.flushDemands: a fact for the proof, and no record.
FlushToProof ==
  /\ Flushing /\ job.lending /\ UNCHANGED order
  /\ lent' = lent \cup {Lent(g) : g \in {h \in Missing : NeedsIn(lent, h) = {}}}
  /\ job' = [job EXCEPT !.asking = Asked(Graph, Graph')]
  /\ unserved' = unserved \cup {r \in job.asking : r.on \subseteq Stored}
  /\ UNCHANGED <<records, proof, late, adrift>>

Flushed == Steady /\ job.answered = {} /\ job.asking = {} /\ job.op # "none"

\* The owners that are resolved behind the requests: at the end of a flush, and
\* when a session settles after a rebuild.
ResolveAfter ==
  /\ Flushed /\ job.after # {}
  /\ Withdraw({rec \in records : rec.row \in job.after}, [job EXCEPT !.after = {}])
  /\ UNCHANGED <<order, lent, proof, late, unserved, adrift>>

Finish ==
  /\ Flushed /\ job.after = {}
  /\ job' = NoJob
  /\ late' = (late \cap Owners) \ Unmet(Graph)
  /\ unserved' = (unserved \cap Unmet(Stored)) \ Owners
  /\ adrift' = {n \in adrift \cap Stored : \A rec \in records : rec.need # n}
  /\ UNCHANGED <<order, lent, records, proof>>

----------------------------------------------------------------------------
\* Query proofs.

\* insertQueryTriggerForProofImmediate
BeginProof ==
  /\ Mutable /\ proof = NoQuestion /\ UNCHANGED order
  /\ \E q \in Questions : proof' = q /\ lent' = {Lent(q)}
  /\ job' = [NoJob EXCEPT !.op = "query", !.asking = Asked(Graph, Graph'), !.lending = TRUE]
  /\ UNCHANGED <<records, late, unserved, adrift>>

\* cleanupQueryProofImmediate, on every way out: what the proof lent leaves the
\* graph, and no record is looked at.
EndProof ==
  /\ AtRest /\ proof # NoQuestion
  /\ proof' = NoQuestion /\ lent' = {}
  /\ late' = late \cup {r \in Owners : r.on \cap lent # {}}
  /\ UNCHANGED <<order, records, job, unserved, adrift>>

----------------------------------------------------------------------------
\* Sessions that are built from facts, one after the other in insertion order.

Prefix(s, k) == {s[m] : m \in 1..k}

\* The rows that had no match when they came.
AskedInTurn(s) == UNION {Asked(Prefix(s, k - 1), Prefix(s, k)) : k \in DOMAIN s}
MetOn(G)       == RowsOn(G) \ Unmet(G)

Rebuild(s, after) ==
  /\ order' = s
  /\ job' = [NoJob EXCEPT !.op = "rebuild", !.asking = AskedInTurn(s), !.after = after]
  /\ lent' = {} /\ records' = {} /\ proof' = NoQuestion
  /\ late' = {} /\ unserved' = {}
  /\ adrift' = {n \in ItemsOf(s) : n.says \in Goals /\
                  \A rec \in records : rec.need = n => rec.row \in late}

\* Fork resolves before there is a record, and then flushes everything.
ForkDemand == Mutable /\ proof = NoQuestion /\ Rebuild(order, {})

\* A checkpoint and its restoration flush first (completeBackchainDemandDelta-
\* Immediate).
RestoreDemand == Mutable /\ proof = NoQuestion /\ Rebuild(order, MetOn(Stored))

FirstFacts == [k \in DOMAIN Initials |-> [says |-> Initials[k], copy |-> 1]]

\* resetImmediate: the initial facts, settled in the same way.
ResetDemand ==
  AtRest /\ proof = NoQuestion /\ Rebuild(FirstFacts, MetOn(ItemsOf(FirstFacts)))

InitDemand ==
  /\ order = FirstFacts
  /\ job = [NoJob EXCEPT !.op = "rebuild", !.asking = AskedInTurn(FirstFacts),
              !.after = MetOn(ItemsOf(FirstFacts))]
  /\ lent = {} /\ records = {} /\ proof = NoQuestion
  /\ late = {} /\ unserved = {} /\ adrift = {}

NextDemand ==
  \/ AssertClaim \/ RetractClaim \/ ModifyClaim
  \/ Release \/ DropNeeds \/ Resolve \/ Flush \/ FlushToProof \/ ResolveAfter \/ Finish
  \/ BeginProof \/ EndProof
  \/ ForkDemand \/ RestoreDemand \/ ResetDemand

SpecDemand == InitDemand /\ [][NextDemand]_demandVars
=============================================================================
