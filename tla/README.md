# A TLA+ model of the gess engine

gess is an embeddable rule engine: a session holds typed facts, a Rete network
keeps the matches of a compiled ruleset, and `Run` fires the matches in agenda
order, each firing being free to change the facts again. This directory holds a
model of the parts of `internal/engine` where order, interleaving and failure
decide whether a session is right, the TLC runs that check it on small
instances, and TLAPS proofs of the properties of the core for every instance.

    tlc -workers 2 -config gate_shared.cfg MCSessionGate
    tlc -workers 2 -config gate_loops.cfg MCSessionGate
    tlc -workers 2 -config agenda.cfg MCRunAgenda
    tlc -workers 2 -config engine.cfg MCEngine
    tlapm SessionGateProofs.tla
    tlapm WorkingMemoryProofs.tla
    tlapm RunAgendaProofs.tla
    tlapm RulesetExchangeProofs.tla
    tlapm DemandFactsProofs.tla
    tlapm ReteNetworkProofs.tla
    tlapm ExplainLogProofs.tla
    tlapm NumberLemmas.tla

`PROJECT.json` maps every definition to the lines it models and lists runs,
faulty variants, hazards, findings and theorems.

## Inventory

| Part | State | Operations | What makes it correct |
| --- | --- | --- | --- |
| Session gate (`session.go`, `run.go`) | channels `mu.mutate`, `mu.lock`, `runGuard`; `listenerDispatchActive` | `beginMutation`, `lock`, `endMutation`, `beginRun`, `endRun`, `runGuardHeld` | exclusion; one loop; every token given back on every path |
| Mutation queue (`session.go`) | `mutationQueue` under `mutationQueueMu`, one result channel per request | enqueue, pop, drain, fail | each request applied at most once, in order, and answered |
| Agenda (`agenda.go`) | activations by match identity: status, support, queues | apply terminal deltas, take the next, compact | pending = holding and not fired; one firing per match |
| Run loop (`run.go`) | locals of `runAgendaLoop`, `runHaltRequested`, the recorded delta | drain, select, fire, reconcile, abandon | ends as reported; a failure leaves the agenda exact or dirty |
| Focus stack (`focus.go`) | `focusStack` | push, pop, clear, auto-focus | a completed run leaves nothing reachable pending |
| Refractions (`session_refraction_store.go`) | records of fired matches | record, remove, clear | exactly the matches that fired and still hold |
| Logical support (`logical_support.go`) | support edges by source and by fact | add, remove a source, cascade, capture and restore | a logical fact lives exactly while a source supports it |
| Fact store (`session_fact_store.go`, `fact.go`) | facts, duplicate index, recency, allocator | assert, modify, retract, replace on a unique key | duplicate policy; a failed mutation leaves no trace |
| Rete network (`rete_*.go`) | alpha memories, join, negative, aggregate and terminal memories | propagate add, remove, modify | memories = the reference matcher's result |
| Token tables (`rete_graph_token_bucket_table.go`) | open-addressed tables, chained rows | insert, find, remove, grow, clear | behaves as a map or a multiset |
| Backward chaining (`backchain_*.go`, `query.go`) | demand facts, owners, proof scope, cascade budget | request, support, answer, clean up | no demand outlives its last owner; the budget ends cascades |
| Compilation and `ApplyRuleset` (`ruleset.go`, `session.go`) | the immutable `Ruleset`; a session's revision | compile, apply | incompatible facts are refused; support of removed rules is purged |
| Fork and `WhatIf` (`session.go`, `whatif.go`) | a copy of everything a session owns | fork, run, diff, close | the base session is not touched |
| Checkpoint (`checkpoint_*.go`) | the wire document | capture, restore | restoring gives the session that was captured |
| Mutation log (`mutation_log.go`) | checkpoints, each with the hash of the record before it | append, replay | replay verifies the chain and ends at the last checkpoint |
| Explain log, why-not (`explain_log.go`, `whynot*.go`) | bounded history | record, evict, enrich | truncation is always reported |
| Events and diagnostics (`event.go`, ...) | listeners, sequence numbers | emit | every listener sees the order of commits |
| DSL, formatter, tools, MCP server, scenario runner | none of the engine's | parse, render, drive | text in, text out |

How they meet: an operation of a goroutine passes the gate, or, while a `Run`
holds the guard, becomes a request in the queue. A mutation changes the fact
store, propagates through the network, and returns a delta of terminal tokens.
Outside a firing that delta is applied to the agenda at once
(`reconcileAgendaAfterMutation`); inside one it is recorded, and applied either
at once (*direct*) or, when agenda changes have to be reported to listeners or
auto-focus, when the firing ends (*coalesced*). Listeners are called
synchronously in between.

What is hard: the gate and the guard are taken, given back and probed in
several steps by goroutines that interleave; `Run` holds the guard but not the
gate while it fires; contexts end at any point; a mutation is committed before
the agenda learns of it; a match may go and come back within one firing; rows
are compacted while their matches hold; a checkpoint has to say, of a graph it
does not store, which matches have fired; a cascade is several mutations that
look like one; every memory of the network, every index of a table and every
record of demand is kept by increments; and an exchange of the rules rebuilds the
graph under an agenda that stays.

## Modules

    SessionService    what callers are promised                    (abstract)
      ^ SessionGate     the gate, the guard, the queue, the loop around them
          SessionGateProps, MCSessionGate, SessionGateProofs

    MatchLifecycle    what the agenda promises                     (abstract)
      ^ RunAgenda       activations, deltas, refraction, focus, the run loop
          RunAgendaProps, RunAgendaProofs
    AgendaOrder       the heaps of the agenda and the strategies
          AgendaOrderProps

    TruthMaintenance  why a fact is there                          (abstract)
      ^ WorkingMemory   facts, support edges, cascades, replacement
          WorkingMemoryProps, WorkingMemoryProofs

    ReteNetwork       the memories of the graph, event by event
          ReteNetworkProps   with the conditions of a rule as reference
          ReteNetworkProofs

    JoinMemory        what the memory of a join promises           (abstract)
      ^ JoinTables      arenas, chains, indexes and output links
          JoinTablesProps

    DemandFacts       need facts, their records, query proofs
          DemandFactsProps, DemandFactsProofs
    RulesetExchange   ApplyRuleset on a live session
          RulesetExchangeProps, RulesetExchangeProofs
    ExplainLog        the bounded log behind Explain
          ExplainLogProps, ExplainLogProofs

    NumberLemmas      induction and counting, for the proofs

    MCRunAgenda       instances of RunAgenda and AgendaOrder
    MCEngine          instances of the six modules from WorkingMemory on

`^` is "is implemented by", checked with `INSTANCE ... WITH` as a property of a
run. The modules meet where one takes as exact what another keeps: RunAgenda,
WorkingMemory, DemandFacts and RulesetExchange read the matches off the facts,
which is what `MatchesExact` of ReteNetwork checks; ReteNetwork's joins hold the
sets and outputs of JoinMemory, which JoinTables implements; RunAgenda is given
deltas, which WorkingMemory composes; and all of them run between a gate taken
and a gate given back, which is SessionGate's.

**SessionGate.** Each call (a mutation, `Run`, a proof query, a reader,
`Close`) is a goroutine that executes one API operation. A step is one channel
operation, one atomic access or one critical section of `mutationQueueMu`; `pc`
names the place in the code. `guard`, `mutate` and `lock` are the one-slot
channels, `gate[c]` what `c` has taken of them, `probing` the calls whose
`runGuardHeld` has put its own token in the guard. `queue` and `batch` are the
queue and the requests a run has popped; `answer` the result channels.
`effects`, the mutations applied to working memory, and `pending`, the number
of eligible activations, stand for the rest of the engine. `arrivals`, the
requests in the order they were queued, is a history variable.

What follows a commit may still fail, and the caller is told so although its
mutation stays: the rest of a `Compound` mutation's own work (an *error*), and
the reconciliation, directly or for the queue, with a context that has ended, on
a session that a `Close` has closed since `endMutation` (*closed*), or on an
agenda that a failed action has left `dirty` (*unsupported*). A proof query that
cannot have the gate back cleans up without it (`Cleanup`). Left out or put
together: the dispatches of action-failed and agenda events; the first drain of a
run and its refusal of a dirty agenda are the one step `Precheck`. Reset, which mends a
dirty agenda, is left out.

**SessionService.** What a caller may conclude from an answer, whatever happens
afterwards: from *ok*, that the mutation took effect, once; from *misuse* or the
failure of a run, that it never does; from any other error only that the session
was in the state the error names and that the mutation takes effect no more.

**RunAgenda.** The state of one session's owner, at the grain of operations:
`tokens` is the content of the rule terminals and a mutation is the delta it
emits, so a match has one token per or-branch that derives it. `status` and
`support` are the activations, `refracted` the refraction store, `states` the
coalesced deltas of the current firing (`runAgendaStates`). `spent` is a history
variable: the holding matches that have fired since they came to hold. Other
goroutines appear as mutations between firings, where the loop drains them;
that they appear nowhere else is the gate's business (and, as
`applied_while_firing` shows, not always true). Recency is left open: within a
salience any order of firing is explored: the order is AgendaOrder's. A delta is
net: it has no match both ways. WorkingMemory's `AgendaFollows` is why, and its
exceptions are two: Modify merges its cascade's delta without coalescing it
(`stale_pending`), and the cascade of a failed action tells nothing (`missed`).
A refraction record is made without the support of its activation and then counts
one (`publicActivation`); deltas count it from there.

**AgendaOrder.** `schedule` is one value, as every operation is a function of it:
the rows with recency, ordinal, epoch and rank, the order they are stored in, a
heap per module as the array it is, and each row's `heapIndex` (`index`).
Matches are numbered by what ties and ranks are decided by; ordinals and epochs
are only compared and are renumbered densely (`Dense`), so they need no bound.
Support is RunAgenda's: here a removal is the last one. A delta may bring births
of two epochs, as a coalesced one does. `line` is history, the pending matches
by birth; so is `mixed`, the modules whose heap is what the counterexample
`birth_order` makes of it. `quiet` is a bound.

**WorkingMemory.** A fact version has a name; `says` and `how` are its content
and its `supportState`, `edges` the support index (`<<match, fact>>`). Rules are
abstract: a rule needs some contents and is blocked by others, and `Holds` is
the set of its matches. `Insert`, `Restate`, `DeriveAgain`, `Retract`, `Modify`,
`Replace` are the operations; each of the last three leaves `work`, the
cascade of `removeLogicalSupportsForSources`, which `Undermine` and `Reconsider`
take one fact and one level at a time until a `Finish...` action tells the
agenda. `undo` is `captureLogicalSupportState` with the cloned workspace, and
`AbandonReplace` the rollback of a replacement that fails after its cascade.
`Fire`, `EndFiring`, `Fail` are a firing with the mutations of its action.
Two history variables name what the code does not do: `excused`, matches lost
to an assertion (which starts no cascade) or gone before their action derived
from them, and `missed`, an agenda that was not told of the cascade of a failed
action (`action.go:2016` drops the delta).

**ReteNetwork.** The nodes' memories (`mem`), the routes of alpha nodes, and
the calls of one event as a stack, so that an event is many steps and may fail
between any two (`restoreReteAfterPropagationFailure` then rebuilds). Join,
negative, filter, union and aggregate nodes and rule terminals; insertion,
removal and update in place; deferred aggregate outputs and their refresh. An
update puts outputs off over both its halves, the removal and the addition, then
lifts that and finalizes once (`Propagate`); an event on its own does the same. A
refresh that brings a new output puts off, unless outputs are put off already, and
finalizes what that leaves. A rebuild finalizes while outputs are still put off,
batch after batch. An event may fail on the way in and on the way out. Of
the aggregates, count and max are modelled, one that subtracts and one that has
to rebuild. Terminals of rules keep no rows (`view` is what the agenda was
told). A union counts the support of a token by its value, where the code counts by
the handle under which the token was handed in; a token is taken back from the
memory that handed it in. Generated facts and the fast paths for a single shape of condition reach
the same calls by another way and are left out.

**JoinTables.** `betaJoinBucketTable` as it is stored: the arena of rows with
the chain of each slot and the free list, the identity index with two inline
places and an overflow, and `holders`, what each token remembers of where it is
stored, which another node's table can take over (`elsewhere`). `links` are the
outputs, each in two chains. `negativeBetaLeftBucketTable` repeats the chains
and is not modelled again; nor is `removeIdentityTokenScan`, for tokens that no
longer resolve.

**DemandFacts.** An item is what a fact says and which copy it is; a row of a
plan is on some items and wants a goal. `records` are the owner records; `job`
the operation under way, whose steps come in the code's order: release the
records of what is gone, resolve the rows that found an answer, flush what was
asked for. `BeginProof` to `EndProof` are a query proof with its lent facts;
`ForkDemand`, `RestoreDemand` and `ResetDemand` rebuild the graph and settle its demand, each
in its own order. Each step takes a whole level of its queue. Left out: the
demand limit, the hash tables of the records, demand without an owner token,
rows on a fact that answers them, templates that allow duplicates, ApplyRuleset and
failed propagation. The
history variables `late`, `unserved` and `adrift` name what the code leaves
behind (below).

**RulesetExchange.** Facts, edges, the agenda's rows with their support counts,
and `rules`. `Exchange` is `applyRulesetImmediate`: the purge cascade over the
old graph, the new graph from what is left, purged rows, filtered additions, and
the lifecycle delta, which is applied or, when the context ends, stays `due`.
Around it the session changes at the grain of operations. `done` and `astray`
are history: the matches that hold and have fired, and the ones whose
activation an exchange has got wrong. Left out: refusals and failures before the
switch, which change nothing; an unchanged ruleset, which only rebinds closures;
globals; demand, and with it the error of completing it after the switch
(session.go:3230); coalesced firings; an agenda that was never ready.

**ExplainLog.** `record`, `evictOldestLocked`, `captureBindings` and `clear`,
with the complete history in `recorded` and `completed`.

Near each operator that has one, a *faulty variant* (`LessBlindly`,
`PopNewest`, `SinkOnce`, ...) is the operator with a plausible mistake. Variants are used
nowhere; replacing the operator by its variant must break the property
`PROJECT.json` pairs it with, which shows that the property can fail.

## What the runs show

| Run | Instance | Shows |
| --- | --- | --- |
| `gate_shared` | a goroutine that mutates (its context may be canceled), takes a snapshot and closes the session; another with a mutation whose own work may fail behind the commit; a Run that may be canceled and whose action may fail | `TypeOK`; locked work is exclusive; tokens all come back; requests are served first in, first out (`InOrder`) and, no context being canceled, each that was popped is answered (`AnsweredWhileLive`); SessionGate implements SessionService (`KeepsPromise`) |
| `gate_loops` | a mutation, a Run and a proof query, with a listener; the contexts of the first two may be canceled | one loop; `TokensHeld` (the inductive invariant of the proofs); under fairness `Run` and the query return (`CallsReturn`), and so does a canceled caller (`CanceledReturns`) |
| `agenda` | three matches in two modules with two saliences, with and without an auto-focus rule, limits, two actions per firing; beside it, three matches that come and go under each strategy, and sessions that start with six | the properties of RunAgenda and of AgendaOrder |
| `engine` | one instance of each of WorkingMemory, ReteNetwork, JoinTables (two), DemandFacts, RulesetExchange, ExplainLog | the properties of each |

In `agenda`: `AgendaExact` (deltas applied at once: pending = holding and not
fired, support = number of tokens), `NothingStale` (any session, between
firings), `RefractionsExact` and `CheckpointRestores` (refraction records,
compaction and Restore agree), `EndsAsReported` (a reported limit leaves work, a
reported completion leaves none in MAIN), and `FiresOncePerMatch`, the
refinement of MatchLifecycle over every history of mutations, cancellations,
failures, compactions, resets and restores.

Of AgendaOrder: `HeapsExact` (heap, status and `heapIndex` agree, and a heap is
one) and `FirstBornFirst` (breadth takes what was born first, and of one mutation
the first tuple, through re-arming, compaction, Restore and forks). As in
`engine`, `part`, fixed in the initial state, says which of the two moves.

In `engine`:

| Part | Properties | Say |
| --- | --- | --- |
| memory | `SupportExact`, `EdgesGrounded`, `KeysUnique` | edges, support states and holding matches agree through cascades, replacements, rollbacks and failed actions; a unique key has one fact |
| | `AgendaFollows` | what an operation and its cascade tell the agenda is what changed |
| | `KeepsTruth` | an operation with its cascade is one step of TruthMaintenance |
| network | `MatchesExact` | the agenda has been told of exactly the matches that the rules' conditions have over the facts |
| | `RowsExact`, `AccumulatorsExact`, `HandsExact` | at every step, outputs, blocker counts and accumulators are what they would be from nothing, and no node takes back what it was not given |
| chains, outputs | `LinksExact`, `RowsFound` | the chains, indexes, hints and links are consistent |
| | `TablesJoin` | the tables implement JoinMemory |
| demand | `NeedsBacked`, `RecordsCurrent`, `RowsServed` | need facts, records and asking rows agree |
| exchange | `AgendaCarried` | what holds and has not fired is armed, and nothing else, whatever the exchange |
| | `PurgedLeavesNothing`, `PurgeTakesTheUnheld` | of rules that go nothing stays; every fact the others can hold up does |
| log | `LogTells` | what is kept is the newest, in order, and marked exactly when something before it is lost, but for one case |

`TypeOK`, `MemoryTypeOK` and `ReteTypeOK` are the type invariants; that of DemandFacts,
`DemandTypeOK`, is proved only.

### Bounds

`MaxActivations` 1 lets a loop go from nothing to do to something and back
while it drains. Two mutations are the least with an order, a batch of two and
a request left behind in it (`gate_shared`); a Run and a proof query are the least
that compete for the guard, and one mutation the least that probes it between them
(`gate_loops`). In `gate_shared` a committed mutation is answered *error*,
*unsupported* when it was made directly, and *closed* both ways; *unsupported*
through the queue takes a second run after the one that lost the delta. That, and
two mutations with two loops, only the proofs cover. In RunAgenda `MaxDelta`
2 lets one mutation take a match away and bring another, `MaxActs` 2 lets a
firing take a match away and bring it back, `MaxSupport` 2 is one more than a
match with one branch should ever have, and `MaxFocus` 2 gives a frame above
another. `CompactFloor` is 1 where the code has 64, a performance constant: with
three matches compaction must happen after two retired rows to happen at all.

In AgendaOrder three matches of one salience, one of them in another module,
give re-arming between births, and two of them in one heap. A heap of two has no
side branches: the sessions that start with six matches begin with each of the
heaps six can form, and six is the least with a row whose replacement has to go
up. They, and a fork with another strategy, only take and lose what is pending
(`quiet`). A delta has two matches at most (`MaxDelta`), and under depth, whose
order has no history, only two of the three come.

In `engine`: memory has three fact versions, two rules (one derives from `c1`,
one from `d1` unless there is a `c1`, so that an assertion can take a match away)
and two contents with one unique key; three versions are a fact, what is derived
from it, and what replaces either, and two mutations per firing let an action
undo its own. The network has eleven nodes of every kind, shared by nine rules,
and three facts of two templates with two join keys; two facts on one side are
what makes a count other than 0 or 1 and an extremum that leaves. In the tables
all tokens have one hash and a table starts with one slot (8 in the code), so
that chains, collisions, growth and the index's overflow happen with three rows
on a side. In demand, three claims, three goals and five plans: a claim that answers
two goals, a row on a need fact, a goal that nothing answers; the second copy of
a fact is what comes back after it went (`MaxCopies`). The exchange has three
papers and two exchanges, A to B and back: a chain of two derivations, and a rule
that the first derivation is in the way of. The log keeps two entries of five
events of two facts and three activations.

### Fairness

Only `gate_loops` and `lost_wakeup` need it: `FairSpec` is weak fairness of each
goroutine's steps, which is what the Go scheduler gives a runnable goroutine. Where a
step needs a mutex that another goroutine can take again and again, weak
fairness is less than `sync.Mutex` promises, so nothing is assumed that is not
there. Cancelling a context is not a fair action: it may never happen. The model
has finitely many calls, so `CallsReturn` does not say that a Run ends under an
endless stream of new mutations; it need not.

### Where code and documentation part

Eight runs end in the counterexample they are named for.

| Run | Property | What happens |
| --- | --- | --- |
| `lost_wakeup` | `MutatorsReturn` | a mutation queued between the loop's last look at the queue and `endRun` is drained by nobody |
| `applied_while_firing` | `AppliedBetweenFirings` | a mutation that saw the guard free passes the gate `Run` has just given back, and applies while an action runs |
| `dropped_batch` | `EveryPoppedAnswered` | a cancellation while one request is applied leaves the rest of the popped batch unanswered |
| `agenda_parity` | `ReturnsArmed` | with a listener attached, a rule whose action takes away its match and restores it is not armed again; without a listener it is |
| `agenda_refire` | `FiresOncePerMatch` | an or-rule's match, fired and compacted, fires again when its other branch comes to hold |
| `agenda_deadline` | `NothingStale` | a context that ends between commit and reconciliation loses the delta; the agenda stays *ready* |
| `birth_order` | `OldestFirst` | under breadth, several births put beside older activations at once leave a heap that is none, and a younger one fires first |
| `stale_pending` | `PendingStillHolds` | Modify merges its delta with its cascade's and does not coalesce them: a match it brings and its own cascade takes away stays pending |

Elsewhere the code does less, or other, than a strong property would say, and
the property names the exception:

- An assertion starts no cascade, and an action may derive after its own match
  is gone: such facts stay on edges of matches that do not hold (`excused`;
  docs/advanced.md:169, docs/session-lifecycle.md:469).
- The cascade of a failed action is not told to the agenda (`missed`).
- A modification of a fact that answers a goal flushes half of its requests
  after it resolved them, a retraction flushes requests of rows that have gone
  since, and a fork resolves before it flushes where Restore, Reset and
  ApplyRuleset flush first: need facts for rows that are matched or gone
  (`late`; session.go:4039, :2575, :838).
- While a query proof is active, requests of its own firings go to the proof
  (session.go:2259), those of a mutation that its loop drains do not; resolutions
  are dropped, whoever mutates (session.go:2361; `late`, `unserved`).
- An exchange counts the token of a row it keeps a second time, so that one
  removal leaves it pending; it drops what its purge cascade tells of the
  matches of rules that stay, so that a lost one stays pending and one let in is
  not armed; and what an ended context leaves due is applied by the next
  mutation, after a firing or a compaction it does not fit (`astray`).
- A fact whose log entries have all been evicted loses its mark, and its next
  entry begins a history that looks complete (docs/advanced.md:223).

## Theorems

`SessionGateProofs` proves, with `GateAssumption` only (the sets of calls are
disjoint, `After` and `Cancelable` are about calls), for any number of calls,
any program order and any contexts:

- `TokensInvariant`: `Spec => []TokensHeld`
- `Exclusion`: `Spec => []LockedWorkExclusive`
- `OneLoopAtATime`: `Spec => []OneLoop`
- `NothingLeaks`: `Spec => []TokensReturned`

The three safety properties are not inductive: that two calls are not in locked
sections says nothing of who filled the channel. `TokensHeld` is: each of the
three channels and the mutex is full exactly while one call holds it, and what a
call holds (`gate`, `probing`) is what its place in the code allows (`GateAt`).
A step either moves one call between places that hold the same things, the
lemmas `...Walks` and `WalkInv`, or takes or returns exactly one token, which
`TokenTaken` and `TokenReturned` reduce to a step on one set of holders. Of
`TypeOK` only the part about places and tokens (`Types`) is needed.

Its second part goes on from there to the queue, with the same assumption:

- `GateTypesKept`: `Spec => []TypeOK`
- `FirstInFirstOut`: `Spec => []InOrder`

Two invariants carry them. `TypeInv` adds to the places and tokens the ranges of
the other variables, and that a run has popped requests exactly where the code
works on a batch (`BatchHeld`). As the guard has one holder, only one run has a
batch (`Alone`), so what waits is that batch followed by the queue; `QueueInv`
says that it is the end of `arrivals`, that no caller waits twice, and that what
waits has no answer. Every action leaves what waits alone, appends to it
(`JoinQueue`), moves it from queue to batch (`PopQueue`), answers its head
(`AnswerOldest`) or drops it (`DropBatch`, `DropQueue`).

Its third part builds on both:

- `PromiseKept`: `Spec => KeepsPromise`, the refinement of SessionService
- `NobodyForgotten`: `Spec => []AnsweredWhileLive`

`PromiseInv` says of every mutation whether it has taken effect: it has not
before its call works on memory; a result or an answer that is written agrees
with it (`Agrees`: *ok* is said of one that has, *misuse* and *failed* of one that
has not, and the other errors of either, since a mutation may fail behind its
commit); and a request that waits has taken effect only if it is the
oldest of its run's batch and the run has applied it and not answered it yet
(`InHand`). A caller who does not wait for a request any more has given up
(`Awaited`), so a late effect is one that SessionService allows. That a request
takes effect once needs `QueueInv`: nobody waits twice, or in the queue while
still on the way in. `CausesInv` says that whoever has, or brings, the answer
*closed* has seen the session closed, and *unsupported* the agenda dirty; neither
ends. `Known` is what SessionService calls `told`; a step of one
call alone is a submission, an answer, a give-up or a stutter (`CallServed`), and
a step of a run tells nobody anything (`Drains`). `NobodyForgotten` is as strong
as the code: `dropped_batch` shows the request that is forgotten once a context
is canceled.

`WorkingMemoryProofs` proves, with `MemoryAssumption` (every rule needs
something; names are natural numbers), for any rules, contents, keys, names and
any bound on a firing:

- `MemoryTyped`, `SupportStaysExact`, `KeysStayUnique`, `EdgesStayGrounded`,
  `AgendaKeepsUp`: the five invariants of the part *memory*
- `TruthKept`: `SpecMemory => Ledger!Spec`, the refinement

None is inductive alone. A replacement that fails restores `undo`, so each has to
be said of `undo` as well; in a cascade, a fact may differ from its edges only
while it is in `work.doubtful` (`SupportInv`), an edge may stand on a match that
does not hold only while its match is in `work.sources` (`GroundedInv`), the key
of the fact to put stays free (`KeysInv`), and the deltas gathered so far are the
difference between the matches when the operation began and now (`DeltaExact` in
`AgendaInv`), for which `RemovalLoses`, `AdditionGains` and `ModificationLoses`
say what a change of facts does to `Holds`. The refinement needs that the edges
only shrink, and that what is held is always what `Left` makes of the edges that
are left (`TruthInv`); a step inside a cascade stutters, since the mapping shows
`undo` until the operation ends.

`RunAgendaProofs` proves typing with `AgendaAssumption` only (modules, saliences
and kinds of session are what their names say; bounds are numbers):

- `AgendaTypes`: `Spec => []TypeOK`

and, for any tokens, rules, modules, listeners, auto-focus rules, limits and
bounds that satisfy two hypotheses more,

- `AgendaIsExact`, `NothingIsStale`, `RefractionsAreExact`, `CheckpointsRestore`,
  `RunsEndAsReported`: the other five invariants of RunAgenda
- `FiresOnce`: `Spec => FiresOncePerMatch`, the refinement of MatchLifecycle

The hypotheses are those of the run `agenda`, and each stands for a
counterexample of the code: `Unbranched`, one token derives each match
(`agenda_refire` has an or-rule), and `Punctual`, no context ends between commit
and reconciliation (`agenda_deadline`). Without either the theorems are false.

`AgendaInv` is inductive. While a firing coalesces, rows lag behind the graph, so
what a row says is qualified by what the entries will say (`Rows`: a pending row's
match holds, or an entry tells of it); the entries know of each match they name
how its row stood at first and whether it holds now (`Tells`), one entry a match,
and none of them names a match that has fired and holds (`Entries`). From that
`Settled` shows that what `Net` keeps is exactly the rows to disarm and to arm,
which `AppliedRows` turns into the rows afterwards. `Exact` is what is added where
deltas are applied at once: every match that holds and has not fired is pending,
and refractions count what has fired. `Looping` says when there are entries at
all. With a listener there is no such addition: `agenda_parity` is the
counterexample.

`RecordAll`, `PushAll`, `AutoFocused` and `Net` are recursive functions and
enumerations of index sets: `NumberLemmas` proves what they need. Its `Counting`
is induction over the numbers as a statement on sets, from the least member that
a set has (`Least`); `Recursion` says that a function defined by its predecessor
exists, and `Nths` that `Nth` numbers a finite set.

`RulesetExchangeProofs` proves, with `ExchangeAssumption` only (contents and
revisions are what their names say, a rule that derives refuses nothing, and there
are finitely many papers), for any rulesets and any number of exchanges,

- `AgendaIsCarried`, `NothingOfPurgedLeft`: the two invariants of RulesetExchange
- `PurgeTakesExactly`: `SpecExchange => PurgeTakesTheUnheld`, its action property

For a match that is not astray, `Carried` adds to what the run checks that a row
that has fired is of a match that still holds or of a paper that is gone: a paper is
filed once, so a row that says "consumed" never stands in the way of a match that
comes back. Matches that are due are the exception, and `Carried` says what their
rows may be until the agenda is told. `EdgesInForce` is why a cascade over the old
graph can see every edge: it is of a rule in force. `SinkFacts` says that the
cascade, a recursive function over levels, is the least set closed under
`Unsupported`: the levels grow until one is equal to the next, and there are not
more of them than papers (`Falling`, with the induction of NumberLemmas). From
that `PurgeStep` shows that what is left upholds itself, and that no set which does
is ever touched.

`DemandFactsProofs` proves, with `DemandAssumption` only, for any claims, goals,
plans and initial facts and any bound on the copies,

- `DemandTyped`: `SpecDemand => []DemandTypeOK`
- `NeedsAreBacked`, `RecordsAreCurrent`, `RowsAreServed`: the other three invariants
  of DemandFacts

`DemandAssumption` says that the user, the need facts and the queries have templates
of their own, that there are finitely many plans, each on some item
(`appendBackchainDemandRequests` returns when a context is empty), that no row is
answered by a fact it is on (as in *Modules*), and that no two initial facts say the
same: the model's store holds a claim once, as templates do that do not allow
duplicates.

Two of them speak of the state between operations; `DemandInv` speaks of every step of
one. A record whose row is no longer without a match is one the operation has still
to drop: its row is on what is gone, or among the answered (`Current`). A row that
has no match and no record is one the operation is still asking for (`Served`), what
is gone is out of the graph, and who is answered has a match (`Departed`). A drop of
need facts removes only what no record is on, so no row loses its answer by it, and
while requests go to a proof they back nothing (`Apart`). That `JoinRows`,
`LeaveRows` and `AsksRows` lose no row is why the additions and removals of a
modification may be put together. A need fact is new because the items that anything
refers to are finitely many (`Small`, `FreeNumber`). For a rebuilt session
`TurnsFacts` says that a row without a match in the end asked when its last item
came, so that a need fact with a current record finds a row that asks for it again.
The store's removals are the recursive `Stripped`: the prover has no definition of
the library's `SelectSeq`.

`ReteNetworkProofs` proves, with `NetworkAssumption` only (an edge goes to a side of
a node or to a terminal, and alpha nodes take contents), for any nodes, edges, facts,
tests and amounts,

- `ReteTyped`: `SpecNetwork => []ReteTypeOK`
- `AccumulatorsStayExact`: `SpecNetwork => []AccumulatorsExact`
- `RowsStayExact`: `SpecNetwork /\ []HandsExact => []RowsExact`

`Stacked` is the invariant of the calls: each refers to what is there, and the last
ends the event. Who puts outputs off stops doing so further down the stack
(`Lifted`), and below each call that may put one off there is one that finalizes
(`Finishes`); `FlowOK` adds that a stop is on the stack while outputs are put off and
a finalizing call while any is. So nothing is put off when the event ends, on the
schedule of an update, of a nested refresh and of a rebuild alike, and nothing is left
to the next. `Shape` says of each memory what it holds: a
join's outputs are the pairs of its rows that match, and a bucket's count and maximum
are those of its inputs, for which `AmountsMax` and `ShrunkShape` show that an input
below the maximum may go without a rebuild. `OutputsDue` is why no output stays old:
a bucket whose output is not its result is put off, or a call to refresh it is on the
stack (`Awaited`); a finalizing call turns the first into the second, and a refresh of
another bucket leaves both alone. `NotsExact` is what negative nodes count. Only there
is the hypothesis needed: a right row that is handed over twice is counted twice, as
the code's tables do not refuse it (`betaJoinBucketTable.insert`). That it is not is
`HandsExact`, which depends on how the network was compiled.

`ExplainLogProofs` proves, with `LogAssumption` only (the capacity is a positive number),
for any facts and activations,

- `LogAlwaysTells`: `SpecLog => []LogTells`

`LogInv` keeps, for each fact, its entries as those of its mutations that are not yet
evicted: `KeptOf` with the number of mutations that are gone. `KeptAppend` and
`KeptDrop` are what a new mutation and an eviction make of it, and the lemmas `Whole...`
what the eviction of the oldest one does to the mark.

Only model-checked:

- everything in AgendaOrder, whose sifting is recursive, and in JoinTables, whose
  chains are read by recursive walks;
- `MatchesExact` and `HandsExact`: they hold of a network that is compiled from rules,
  and the proof would need the correspondence of nodes and conditions, which is the
  compiler's;
- both liveness properties, which the prover does not reach (nor `ENABLED`, nor the
  library's induction theorems, which take an operator).

## Plan

1. Proofs: the chains of JoinTables as an invariant on pointers without the
   recursive walks; `MatchesExact` over the conditions a network is compiled from.
2. A cascade that fails half-way, and support edges and cascades in RunAgenda's
   checkpoints.
3. The demand limit, and demand in an exchange.
4. The sum and collect aggregates, and rows on generated facts.

## Not modelled

Parsing, rendering, compilation and wire formats are pure functions with
round-trip, golden and fuzz tests. Values, expressions and predicates are
evaluated by code without state, and so are the matcher's candidates and
why-not's walks. A record of the mutation log is a whole checkpoint: its hash
chain is sequential and has nothing between its steps. `WhatIf` forks, runs a
scenario on the fork, compares two snapshots and closes the fork; what a fork
copies is values. The MCP server runs every tool under one mutex around one
session; it, the command-line tools and the scenario runner drive the API
modelled here. Data races that follow from `applied_while_firing` are not
explored further: the model shows that the two goroutines are there at the same
time.

Behaviour of the code that was met on the way and that the modules above leave
out:

- A cascade whose own propagation fails (logical_support.go:391) leaves edges and
  facts removed; the restoration in session.go:3469 makes new token handles, by
  which old owner records are not found again.
- `insertLogicalFactImmediate` drops the demands of its delta, and a logical
  cascade never releases the demand records of the facts it removes.
- A demand limit reached in Retract or Modify returns before the graph and the
  demand state are settled (session.go:2336).
- The removal of one branch of an or-rule removes the support edges of a match
  that another branch derives (logical_support.go:293).
- Refraction records of purged revisions stay, so that after A, B, A a checkpoint
  says of a newly armed match that it has fired.
- The captured bindings of an activation that fires again replace the earlier
  ones, also for the mutations of the earlier firing.
