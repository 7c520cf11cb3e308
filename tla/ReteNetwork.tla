----------------------------- MODULE ReteNetwork -----------------------------
(***************************************************************************)
(* The memories of the graph-native Rete network, and how an event of one  *)
(* fact goes through them: alpha nodes route the fact, join, not, filter   *)
(* and union nodes keep rows and hand tokens on, aggregates keep a bucket  *)
(* for each outer token, and the terminals report what came and went.      *)
(*                                                                         *)
(* A token is the sequence of its entries, so that two tokens are equal    *)
(* when the code's are (tokenRefEqual).  The calls an event makes are a    *)
(* stack, one step for each call: the graph has no cycle, so that what a   *)
(* call does to its own node before or after it calls on is of no account. *)
(* Generated facts take another path through the code to the same calls.   *)
(***************************************************************************)
EXTENDS Integers, FiniteSets, Sequences, Bags, SequencesExt, TLC

CONSTANTS
  Ids,           \* fact ids
  Values,      \* what a version of a fact can say
  Absent,        \* no content
  Template(_),   \* the template of a content, which a modification keeps
  Alphas,        \* the alpha nodes in the order of their routes
  Accepts,       \* Accepts[a]: the contents alpha node a takes
  Root,          \* the stage of a rule that begins with no fact
  Kind,          \* Kind[n]: join, not, filter, union or aggregate
  Out,           \* Out[s]: <<node, side>> of the edges of stage s, in the
                 \* order the code visits them
  Width,         \* Width[n]: entries in the outer token of an aggregate
  Specs,         \* Specs[n]: what an aggregate computes, of count and max
  Pairs(_, _, _),\* whether a node's test joins a left and a right token
  Passes(_, _),  \* whether a token passes a filter
  Amount(_)      \* the value an input token adds to an aggregate

Nodes  == DOMAIN Kind
Stages == {Root} \cup Range(Alphas) \cup Nodes

\* An edge goes to a side of a node, or to a terminal.
ASSUME NetworkAssumption ==
  /\ Absent \notin Values
  /\ Alphas \in Seq(Range(Alphas))
  /\ \A i \in 1..Len(Alphas) : Accepts[Alphas[i]] \subseteq Values
  /\ \A n \in Nodes : Kind[n] \in {"join", "not", "filter", "union", "aggregate"}
  /\ \A s \in Stages : /\ Out[s] \in Seq(Range(Out[s]))
                      /\ \A e \in Range(Out[s]) : e[2] = "terminal" \/ e[1] \in Nodes

VARIABLES
  facts,     \* the session's facts, as the event has them
  before,    \* the facts before it
  routes,    \* alpha.factOwnership: the alpha nodes each fact is in
  mem,       \* the memory of each node
  stack,     \* the calls under way, the next one first
  deferring, \* deferAggregateOutputs
  deferred,  \* deferredAggregateOrder: <<aggregate, outer token>>
  added,     \* the terminal delta of the event
  removed,
  view       \* what the agenda has been told: <<terminal, token>>, counted

event       == <<facts, before>>
delta       == <<added, removed>>
networkVars == <<event, routes, mem, stack, deferring, deferred, delta, view>>

----------------------------------------------------------------------------
\* Tokens and calls.

Entry(f, c)     == [id |-> f, says |-> c]
Valued(p, v)    == Append(p, [id |-> 0, says |-> v])
Outer(n, t)     == SubSeq(t, 1, Width[n])
Call(do, at, t) == [do |-> do, at |-> at, token |-> t]

\* A token handed to every edge of a stage.
Along(s, do, t) == [i \in 1..Len(Out[s]) |-> Call(do, Out[s][i], t)]
AlongEach(s, do, ts) == FlattenSeq([i \in 1..Len(ts) |-> Along(s, do, ts[i])])

Now         == Head(stack)
node        == Now.at[1]
Then(calls) == stack' = calls \o Tail(stack)

\* The next call hands a token to a side of a node of this kind.
Doing(do, side, kinds) ==
  stack # <<>> /\ Now.do = do /\ Now.at[2] = side /\ Kind[node] \in kinds

EmptyMemory(n) ==
  CASE Kind[n] = "join"      -> [left |-> {}, right |-> {}, links |-> {}]
    [] Kind[n] = "not"       -> [right |-> {}, blockers |-> <<>>, shown |-> {}]
    [] Kind[n] = "filter"    -> [left |-> {}]
    [] Kind[n] = "union"     -> [support |-> EmptyBag]
    [] Kind[n] = "aggregate" -> [buckets |-> <<>>]

\* A row of a map, set or dropped.
With(f, k, v) == [j \in DOMAIN f \cup {k} |-> IF j = k THEN v ELSE f[j]]
Without(f, k) == [j \in DOMAIN f \ {k} |-> f[j]]

----------------------------------------------------------------------------
\* Joins.

JoinLeft ==
  /\ Doing("add", "left", {"join"})
  /\ LET t == Now.token
         partners == {r \in mem[node].right : Pairs(node, t, r)}
     IN  /\ mem' = [mem EXCEPT ![node].left = @ \cup {t},
                               ![node].links = @ \cup ({t} \X partners)]
         /\ \E rs \in SetToSeqs(partners) :
              Then(AlongEach(node, "add", [i \in DOMAIN rs |-> t \o rs[i]]))
  /\ UNCHANGED <<event, routes, deferring, deferred, delta, view>>

JoinRight ==
  /\ Doing("add", "right", {"join"})
  /\ LET t == Now.token
         partners == {l \in mem[node].left : Pairs(node, l, t)}
     IN  /\ mem' = [mem EXCEPT ![node].right = @ \cup {t},
                               ![node].links = @ \cup (partners \X {t})]
         /\ \E ls \in SetToSeqs(partners) :
              Then(AlongEach(node, "add", [i \in DOMAIN ls |-> ls[i] \o t]))
  /\ UNCHANGED <<event, routes, deferring, deferred, delta, view>>

Unlinked(n, gone) == mem[n].links \ gone

\* A row goes: its stored links are drained, and each output they hold is
\* taken back (propagateStoredJoinedRemovals).
Unjoin ==
  /\ \E side \in {"left", "right"} :
       /\ Doing("remove", side, {"join"})
       /\ LET t == Now.token
              gone == {k \in mem[node].links : k[IF side = "left" THEN 1 ELSE 2] = t}
          IN  /\ mem' = [mem EXCEPT
                   ![node].left = IF side = "left" THEN @ \ {t} ELSE @,
                   ![node].right = IF side = "right" THEN @ \ {t} ELSE @,
                   ![node].links = Unlinked(node, gone)]
              /\ \E ks \in SetToSeqs(gone) :
                   Then(AlongEach(node, "remove", [i \in DOMAIN ks |-> ks[i][1] \o ks[i][2]]))
  /\ UNCHANGED <<event, routes, deferring, deferred, delta, view>>

----------------------------------------------------------------------------
\* Negative nodes: a left row counts the right rows that match it, and its
\* output is there while there are none.

Blocking(n, l) == Cardinality({r \in mem[n].right : Pairs(n, l, r)})

NotLeft ==
  /\ Doing("add", "left", {"not"})
  /\ LET t == Now.token
         free == Blocking(node, t) = 0
     IN  /\ mem' = [mem EXCEPT
              ![node].blockers = With(@, t, Blocking(node, t)),
              ![node].shown = IF free THEN @ \cup {t} ELSE @]
         /\ Then(IF free THEN Along(node, "add", t) ELSE <<>>)
  /\ UNCHANGED <<event, routes, deferring, deferred, delta, view>>

\* The left rows a right row matches, with the blockers they then have.
Touched(n, t)   == {l \in DOMAIN mem[n].blockers : Pairs(n, l, t)}
Counted(n, t, d) == [l \in DOMAIN mem[n].blockers |->
                       mem[n].blockers[l] + IF l \in Touched(n, t) THEN d ELSE 0]

NotRight ==
  /\ Doing("add", "right", {"not"})
  /\ LET t == Now.token
         blocked == {l \in Touched(node, t) : mem[node].blockers[l] = 0}
     IN  /\ mem' = [mem EXCEPT ![node].right = @ \cup {t},
                               ![node].blockers = Counted(node, t, 1),
                               ![node].shown = @ \ blocked]
         /\ \E ls \in SetToSeqs(blocked) : Then(AlongEach(node, "remove", ls))
  /\ UNCHANGED <<event, routes, deferring, deferred, delta, view>>

UnNotLeft ==
  /\ Doing("remove", "left", {"not"})
  /\ LET t == Now.token
     IN  /\ mem' = [mem EXCEPT ![node].blockers = Without(@, t),
                               ![node].shown = @ \ {t}]
         /\ Then(IF t \in mem[node].shown THEN Along(node, "remove", t) ELSE <<>>)
  /\ UNCHANGED <<event, routes, deferring, deferred, delta, view>>

\* Faulty variant of Freed: any row that loses a blocker is let go.
FreedEarly(n, t) == Touched(n, t) \ mem[n].shown

Freed(n, t) == {l \in Touched(n, t) : mem[n].blockers[l] = 1}

\* unblockLeftRows
UnNotRight ==
  /\ Doing("remove", "right", {"not"})
  /\ LET t == Now.token
     IN  IF t \in mem[node].right
         THEN /\ mem' = [mem EXCEPT ![node].right = @ \ {t},
                                    ![node].blockers = Counted(node, t, -1),
                                    ![node].shown = @ \cup Freed(node, t)]
              /\ \E ls \in SetToSeqs(Freed(node, t)) : Then(AlongEach(node, "add", ls))
         ELSE Then(<<>>) /\ UNCHANGED mem
  /\ UNCHANGED <<event, routes, deferring, deferred, delta, view>>

----------------------------------------------------------------------------
\* Filters and unions.

Filter ==
  /\ Doing("add", "left", {"filter"})
  /\ LET t == Now.token
     IN  IF Passes(node, t)
         THEN mem' = [mem EXCEPT ![node].left = @ \cup {t}] /\ Then(Along(node, "add", t))
         ELSE Then(<<>>) /\ UNCHANGED mem
  /\ UNCHANGED <<event, routes, deferring, deferred, delta, view>>

\* The predicate is not evaluated again: what did not pass has no row.
Unfilter ==
  /\ Doing("remove", "left", {"filter"})
  /\ LET t == Now.token
     IN  IF t \in mem[node].left
         THEN mem' = [mem EXCEPT ![node].left = @ \ {t}] /\ Then(Along(node, "remove", t))
         ELSE Then(<<>>) /\ UNCHANGED mem
  /\ UNCHANGED <<event, routes, deferring, deferred, delta, view>>

\* insertUnionSupport: a token goes on when its first support comes.
Unite ==
  /\ Doing("add", "union", {"union"})
  /\ LET t == Now.token
     IN  /\ mem' = [mem EXCEPT ![node].support = @ (+) SetToBag({t})]
         /\ Then(IF BagIn(t, mem[node].support) THEN <<>> ELSE Along(node, "add", t))
  /\ UNCHANGED <<event, routes, deferring, deferred, delta, view>>

\* Faulty variant of LastGone: the first support that goes takes the token along.
FirstGone(n, t) == BagIn(t, mem[n].support)

LastGone(n, t) == BagIn(t, mem[n].support) /\ mem[n].support[t] = 1

\* removeUnionSupport.  A support goes by the handle of the token it came with:
\* what is handed to a union is taken back from the memory that holds it.
Disunite ==
  /\ Doing("remove", "union", {"union"})
  /\ LET t == Now.token
     IN  /\ mem' = [mem EXCEPT ![node].support = @ (-) SetToBag({t})]
         /\ Then(IF LastGone(node, t) THEN Along(node, "remove", t) ELSE <<>>)
  /\ UNCHANGED <<event, routes, deferring, deferred, delta, view>>

----------------------------------------------------------------------------
\* Aggregates.

NewBucket == [inputs |-> {}, count |-> 0, max |-> 0, out |-> {}]

Bucket(n, p) == IF p \in DOMAIN mem[n].buckets THEN mem[n].buckets[p] ELSE NewBucket

\* reteGraphAccumulatorState.addToken: the first input is the maximum, then one
\* that is larger.
Larger(n, b, t) == IF "max" \in Specs[n] /\ (b.count = 0 \/ Amount(t) > b.max)
                   THEN Amount(t) ELSE b.max
Grown(n, b, t)  == [b EXCEPT !.inputs = @ \cup {t}, !.count = @ + 1,
                             !.max = Larger(n, b, t)]

\* addExtremum: what does not compare is an error, and fails the event.
Comparable(n, t) == "max" \in Specs[n] => Amount(t) \in Int

\* rebuildAccumulator: from nothing, over the inputs that are left, which are
\* added one by one; the maximum is that of them all.
Rebuilt(n, b) == [b EXCEPT
  !.count = Cardinality(b.inputs),
  !.max = IF "max" \in Specs[n] /\ b.inputs # {}
          THEN Max({Amount(t) : t \in b.inputs}) ELSE 0]

\* Faulty variant of Exact: a maximum is taken for reversible.
ExactAlways(n, b, t) == b.count > 0

\* removeMemberSubtractive says no when the maximum goes.
Exact(n, b, t) == b.count > 0 /\ ("max" \in Specs[n] => Amount(t) # b.max)

Shrunk(n, b, t) ==
  LET left == [b EXCEPT !.inputs = @ \ {t}]
  IN  IF Exact(n, b, t) THEN [left EXCEPT !.count = @ - 1] ELSE Rebuilt(n, left)

\* results: a maximum of nothing is no result.
Results(n, b) == IF "max" \in Specs[n] /\ b.count = 0 THEN {}
                 ELSE {[count |-> b.count, max |-> b.max]}

\* refreshAggregateOutputDeferred
Refresh(n, p) ==
  IF deferring
  THEN deferred' = deferred \cup {<<n, p>>} /\ Then(<<>>)
  ELSE Then(<<Call("refresh", <<n, "changed">>, p)>>) /\ UNCHANGED deferred

\* openBucket and removeBucket
OpenBucket ==
  /\ Doing("add", "outer", {"aggregate"})
  /\ LET p == Outer(node, Now.token)
     IN  /\ mem' = [mem EXCEPT ![node].buckets = With(@, p, Bucket(node, p))]
         /\ IF Bucket(node, p).out = {} THEN Refresh(node, p)
            ELSE Then(<<>>) /\ UNCHANGED deferred
  /\ UNCHANGED <<event, routes, deferring, delta, view>>

RemoveBucket ==
  /\ Doing("remove", "outer", {"aggregate"})
  /\ LET p == Outer(node, Now.token)
     IN  /\ mem' = [mem EXCEPT ![node].buckets = Without(@, p)]
         /\ Then(AlongEach(node, "remove", SetToSeq(Bucket(node, p).out)))
  /\ UNCHANGED <<event, routes, deferring, deferred, delta, view>>

\* An input may be there before the outer token that opens its bucket.
InsertInput ==
  /\ Doing("add", "input", {"aggregate"})
  /\ LET t == Now.token
         p == Outer(node, t)
     IN  IF t \in Bucket(node, p).inputs
         THEN Then(<<>>) /\ UNCHANGED <<mem, deferred>>
         ELSE /\ Comparable(node, t)
              /\ mem' = [mem EXCEPT
                   ![node].buckets = With(@, p, Grown(node, Bucket(node, p), t))]
              /\ Refresh(node, p)
  /\ UNCHANGED <<event, routes, deferring, delta, view>>

\* And it may be taken back after its bucket has gone.
RemoveInput ==
  /\ Doing("remove", "input", {"aggregate"})
  /\ LET t == Now.token
         p == Outer(node, t)
     IN  IF t \in Bucket(node, p).inputs
         THEN /\ mem' = [mem EXCEPT
                   ![node].buckets = With(@, p, Shrunk(node, Bucket(node, p), t))]
              /\ Refresh(node, p)
         ELSE Then(<<>>) /\ UNCHANGED <<mem, deferred>>
  /\ UNCHANGED <<event, routes, deferring, delta, view>>

Defers    == Call("defer", <<>>, <<>>)
Lifts     == Call("lift", <<>>, <<>>)
Finalizes == Call("finalize", <<>>, <<>>)

\* While calls are made every refresh is put off, and done once behind them.
PutOff(calls) == <<Defers>> \o calls \o <<Lifts, Finalizes>>

\* refreshAggregateOutputInternalForce: the old output is taken back as refreshes
\* go at the time, the new one is handed on with them put off, and whoever began
\* to put them off sees to them.
RefreshOutput ==
  /\ stack # <<>> /\ Now.do = "refresh"
  /\ LET p   == Now.token
         b   == Bucket(node, p)
         new == {Valued(p, v) : v \in Results(node, b)}
         same == Now.at[2] = "changed" /\ new # {} /\ b.out = new
     IN  IF p \notin DOMAIN mem[node].buckets \/ same
         THEN Then(<<>>) /\ UNCHANGED mem
         ELSE /\ mem' = [mem EXCEPT ![node].buckets[p].out = new]
              /\ Then(AlongEach(node, "remove", SetToSeq(b.out))
                      \o (LET handed == AlongEach(node, "add", SetToSeq(new))
                          IN  IF new = {} \/ deferring THEN handed
                              ELSE PutOff(handed)))
  /\ UNCHANGED <<event, routes, deferring, deferred, delta, view>>

Defer ==
  /\ stack # <<>> /\ Now.do = "defer"
  /\ deferring' = TRUE
  /\ Then(<<>>)
  /\ UNCHANGED <<event, routes, mem, deferred, delta, view>>

Lift ==
  /\ stack # <<>> /\ Now.do = "lift"
  /\ deferring' = FALSE
  /\ Then(<<>>)
  /\ UNCHANGED <<event, routes, mem, deferred, delta, view>>

InOrderOfNodes(batch) == \A i, j \in DOMAIN batch : i < j => batch[i][1] <= batch[j][1]

\* Faulty variant of Finalize: what its refreshes put off is not seen to.
FinalizeOnce ==
  /\ stack # <<>> /\ Now.do = "finalize"
  /\ \E batch \in SetToSeqs(deferred) :
       /\ InOrderOfNodes(batch)
       /\ Then([i \in DOMAIN batch |->
                  Call("refresh", <<batch[i][1], "forced">>, batch[i][2])])
  /\ deferred' = {}
  /\ UNCHANGED <<event, routes, mem, deferring, delta, view>>

\* finalizeDeferredAggregateOutputs, until nothing is put off: a batch in the
\* order of the nodes, each refreshed whether or not its result changed.  The
\* buckets of one node come in an order of hashes.  What the refreshes put off
\* while they still are is the next batch.
Finalize ==
  /\ stack # <<>> /\ Now.do = "finalize"
  /\ \E batch \in SetToSeqs(deferred) :
       /\ InOrderOfNodes(batch)
       /\ Then(IF batch = <<>> THEN <<>>
               ELSE [i \in DOMAIN batch |->
                       Call("refresh", <<batch[i][1], "forced">>, batch[i][2])]
                    \o <<Now>>)
  /\ deferred' = {}
  /\ UNCHANGED <<event, routes, mem, deferring, delta, view>>

----------------------------------------------------------------------------
\* Terminals: a rule's terminal stores no row, it adds to the delta.

InsertTerminal ==
  /\ stack # <<>> /\ Now.do = "add" /\ Now.at[2] = "terminal"
  /\ added' = added (+) SetToBag({<<node, Now.token>>})
  /\ Then(<<>>)
  /\ UNCHANGED <<event, routes, mem, deferring, deferred, removed, view>>

RemoveTerminal ==
  /\ stack # <<>> /\ Now.do = "remove" /\ Now.at[2] = "terminal"
  /\ removed' = removed (+) SetToBag({<<node, Now.token>>})
  /\ Then(<<>>)
  /\ UNCHANGED <<event, routes, mem, deferring, deferred, added, view>>

----------------------------------------------------------------------------
\* Events of a fact.

Reports == Call("report", <<>>, <<>>)

\* insertWorkingFactInternal and removeWorkingFact over the routes of a fact.
AtAlphas(taking, do, f, c) ==
  FlattenSeq([i \in 1..Len(Alphas) |->
    IF Alphas[i] \in taking THEN <<Call(do, <<Alphas[i], f>>, <<Entry(f, c)>>)>> ELSE <<>>])

Taking(c) == {a \in Range(Alphas) : c \in Accepts[a]}
Entering(f, c) == AtAlphas(Taking(c), "enter", f, c)
Leaving(f, c)  == AtAlphas(Taking(c) \cap routes[f], "leave", f, c)

\* propagateAlphaStage: the fact is recorded, and goes along every edge.
EnterAlpha ==
  /\ stack # <<>> /\ Now.do = "enter"
  /\ routes' = [routes EXCEPT ![Now.at[2]] = @ \cup {node}]
  /\ Then(Along(node, "add", Now.token))
  /\ UNCHANGED <<event, mem, deferring, deferred, delta, view>>

LeaveAlpha ==
  /\ stack # <<>> /\ Now.do = "leave"
  /\ routes' = [routes EXCEPT ![Now.at[2]] = @ \ {node}]
  /\ Then(Along(node, "remove", Now.token))
  /\ UNCHANGED <<event, mem, deferring, deferred, delta, view>>

Quiet == stack = <<>>

\* propagateEvent: what an event makes of the aggregates is seen at its end.
Propagate(calls) == PutOff(calls) \o <<Reports>>

InsertFact ==
  /\ Quiet
  /\ \E f \in Ids, c \in Values :
       /\ facts[f] = Absent
       /\ facts' = [facts EXCEPT ![f] = c]
       /\ stack' = Propagate(Entering(f, c))
  /\ before' = facts
  /\ UNCHANGED <<routes, mem, deferring, deferred, delta, view>>

RemoveFact ==
  /\ Quiet
  /\ \E f \in Ids :
       /\ facts[f] # Absent
       /\ facts' = [facts EXCEPT ![f] = Absent]
       /\ stack' = Propagate(Leaving(f, facts[f]))
  /\ before' = facts
  /\ UNCHANGED <<routes, mem, deferring, deferred, delta, view>>

\* refreshRouteScopedModifyByEvents: the old version goes and the new one comes,
\* two events within one, which sees to the aggregates once, behind both.
UpdateFact ==
  /\ Quiet
  /\ \E f \in Ids, c \in Values :
       /\ facts[f] \notin {Absent, c} /\ Template(facts[f]) = Template(c)
       /\ facts' = [facts EXCEPT ![f] = c]
       /\ stack' = Propagate(Leaving(f, facts[f]) \o Entering(f, c))
  /\ before' = facts
  /\ UNCHANGED <<routes, mem, deferring, deferred, delta, view>>

\* coalesceTerminalTokenDeltas: what is left of b when c is paired with it.
Coalesced(b, c) == b (-) c

\* The agenda takes what went before what came, and skips what it does not have.
Report ==
  /\ stack # <<>> /\ Now.do = "report"
  /\ view' = (view (-) Coalesced(removed, added)) (+) Coalesced(added, removed)
  /\ added' = EmptyBag /\ removed' = EmptyBag
  /\ Then(<<>>)
  /\ before' = facts
  /\ UNCHANGED <<facts, routes, mem, deferring, deferred>>

----------------------------------------------------------------------------
\* From nothing: resetFactWorkspaceForGenerationWithDelta.  The outputs are seen to
\* with refreshes still put off, until none is.

Rebuilding(fs, end) ==
  <<Defers>> \o Along(Root, "add", <<>>)
  \o FlattenSeq([i \in 1..Len(fs) |-> Entering(fs[i], facts'[fs[i]])])
  \o <<Finalizes, Lifts, Call(end, <<>>, <<>>)>>

Present(s) == {f \in Ids : s[f] # Absent}

Cleared ==
  /\ routes' = [f \in Ids |-> {}]
  /\ mem' = [n \in Nodes |-> EmptyMemory(n)]
  /\ deferring' = FALSE /\ deferred' = {}
  /\ added' = EmptyBag /\ removed' = EmptyBag

\* Reset, Restore and ApplyRuleset: a new graph, and a new agenda from it.
RebuildGraph ==
  /\ Quiet
  /\ UNCHANGED event
  /\ \E fs \in SetToSeqs(Present(facts)) : stack' = Rebuilding(fs, "report")
  /\ Cleared
  /\ view' = EmptyBag

\* An expression of an alpha node, a join, a filter or an aggregate cannot be
\* evaluated, on the way in or on the way out: the event is given up, the facts
\* are what they were, and the graph is built again from them
\* (restoreReteAfterPropagationFailure).
FailEvent ==
  /\ stack # <<>> /\ Now.do \in {"enter", "add", "leave", "remove"} /\ before # facts
  /\ facts' = before
  /\ \E fs \in SetToSeqs(Present(before)) : stack' = Rebuilding(fs, "discard")
  /\ Cleared
  /\ UNCHANGED <<before, view>>

\* Faulty variant of Discard: the delta of the rebuild is left to the next event.
DiscardNothing ==
  /\ stack # <<>> /\ Now.do = "discard"
  /\ Then(<<>>)
  /\ UNCHANGED <<event, routes, mem, deferring, deferred, delta, view>>

Discard ==
  /\ stack # <<>> /\ Now.do = "discard"
  /\ added' = EmptyBag /\ removed' = EmptyBag
  /\ Then(<<>>)
  /\ UNCHANGED <<event, routes, mem, deferring, deferred, view>>

InitNetwork ==
  /\ facts = [f \in Ids |-> Absent] /\ before = facts
  /\ routes = [f \in Ids |-> {}]
  /\ mem = [n \in Nodes |-> EmptyMemory(n)]
  /\ stack = <<Defers>> \o Along(Root, "add", <<>>) \o <<Finalizes, Lifts, Reports>>
  /\ deferring = FALSE /\ deferred = {}
  /\ added = EmptyBag /\ removed = EmptyBag
  /\ view = EmptyBag

NextNetwork ==
  \/ InsertFact \/ RemoveFact \/ UpdateFact \/ RebuildGraph \/ FailEvent
  \/ EnterAlpha \/ LeaveAlpha
  \/ JoinLeft \/ JoinRight \/ Unjoin
  \/ NotLeft \/ NotRight \/ UnNotLeft \/ UnNotRight
  \/ Filter \/ Unfilter \/ Unite \/ Disunite
  \/ OpenBucket \/ RemoveBucket \/ InsertInput \/ RemoveInput
  \/ RefreshOutput \/ Defer \/ Lift \/ Finalize
  \/ InsertTerminal \/ RemoveTerminal \/ Report \/ Discard

SpecNetwork == InitNetwork /\ [][NextNetwork]_networkVars
=============================================================================
