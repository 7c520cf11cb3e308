----------------------------- MODULE RunAgenda -------------------------------
(***************************************************************************)
(* The agenda of one session and the loop that fires it: activations and   *)
(* their support counts, the two ways a mutation made by a rule action     *)
(* reaches the agenda (applied at once, or coalesced until the firing      *)
(* ends), refraction, the focus stack, and the ways a run ends.            *)
(*                                                                         *)
(* The Rete graph is abstract: "tokens" is the content of its rule         *)
(* terminals, and a mutation is the terminal delta it emits.  A match (a   *)
(* rule revision with a fact tuple) has one terminal token per or-branch   *)
(* that derives it.  The state is the session owner's: queued mutations of *)
(* other goroutines enter between firings, at the point where the run loop *)
(* drains them.  Recency is abstract: within one salience any order of     *)
(* firing is explored.  Strategy is depth, the default.                    *)
(***************************************************************************)
EXTENDS Integers, Sequences, FiniteSets

CONSTANTS
  Tokens,        \* the terminal tokens the graph can hold
  MatchOf,       \* MatchOf[t]: the match that token t is a derivation of
  ModuleOf,      \* ModuleOf[m]: the module of the rule of match m
  Salience,      \* Salience[m]: the salience of the rule of match m
  Modules,
  Main,          \* the MAIN module
  Sessions,      \* the kinds of session: [listeners, autoFocus, deadlines]
  NoMatch,       \* no match is being fired
  Limits,        \* the values given to WithMaxFirings
  CompactFloor,  \* compactRetiredActivationFloor
  MaxDelta,      \* bound: tokens one mutation adds and removes
  MaxActs,       \* bound: mutations and focus changes of one firing
  MaxSupport,    \* bound: the support count of an activation
  MaxFocus       \* bound: frames of the focus stack

Matches   == {MatchOf[t] : t \in Tokens}
Unlimited == -1

ASSUME AgendaAssumption ==
  /\ ModuleOf \in [Matches -> Modules]
  /\ Salience \in [Matches -> Int]
  /\ Main \in Modules
  /\ NoMatch \notin Matches
  /\ Sessions \subseteq [listeners : BOOLEAN, autoFocus : SUBSET Matches,
                  deadlines : BOOLEAN]
  /\ Limits \subseteq Nat
  /\ {CompactFloor, MaxDelta, MaxActs, MaxSupport, MaxFocus} \subseteq Nat

VARIABLES
  session,    \* the kind of this session, fixed when it is made
  tokens,     \* the tokens the rule terminals hold
  status,     \* the status of each match's activation, "none" without one
  support,    \* its supportCount
  refracted,  \* sessionRefractionStore: the support its record carries, or 0 without one
  focus,      \* the focus stack, bottom first
  ready,      \* agendaDriver.ready; a session that is not ready is dirty
  phase,      \* "idle", "looping" (between firings) or "firing"
  current,    \* the match being fired
  fired,      \* firings of this run, counted when it has a limit
  limit,      \* its WithMaxFirings
  halt,       \* runHaltRequested
  delta,      \* how this firing's deltas are kept: none, direct, coalesced
  states,     \* runAgendaStates
  acts,       \* mutations and focus changes made by this firing
  outcome,    \* how the last run ended, if nothing has happened since
  spent       \* history: live matches fired since they came to hold

agendaVars == <<status, support, refracted, ready>>
runVars    == <<phase, current, fired, limit, halt>>
firingVars == <<delta, states, acts>>
vars == <<session, tokens, agendaVars, focus, runVars, firingVars, outcome,
          spent>>

----------------------------------------------------------------------------
\* The graph.

Live        == {MatchOf[t] : t \in tokens}
Hold(toks)  == {MatchOf[t] : t \in toks}
Elems(s)    == {s[i] : i \in DOMAIN s}
Lists(S)    == {s \in UNION {[1..n -> S] : n \in 0..MaxDelta} :
                  \A i, j \in DOMAIN s : i # j => s[i] # s[j]}
\* The graph cancels an addition against a removal of the same match before
\* it reports them.
Deltas == {d \in [removed : Lists(Tokens), added : Lists(Tokens)] :
             /\ Len(d.removed) + Len(d.added) \in 1..MaxDelta
             /\ Hold(Elems(d.removed)) \cap Hold(Elems(d.added)) = {}}

After(d) == (tokens \ Elems(d.removed)) \cup Elems(d.added)

\* The graph follows the mutation; a match that goes is no longer spent.
Propagate(d) ==
  /\ Elems(d.removed) \subseteq tokens
  /\ Elems(d.added) \cap tokens = {}
  /\ tokens' = After(d)
  /\ spent' = spent \cap Hold(After(d))

----------------------------------------------------------------------------
\* The agenda.

Pending(st)    == {m \in Matches : st[m] = "pending"}
Count(list, m) == Cardinality({i \in DOMAIN list : MatchOf[list[i]] = m})
Known(st)      == {m \in Matches : st[m] # "none"}

\* Faulty variant of Less: the count is not kept from going below zero.
LessBlindly(a, b) == a - b

Less(a, b) == IF a < b THEN 0 ELSE a - b

SupportWithout(removed, m) == Less(support[m], Count(removed, m))

\* Faulty variants of StatusWithout: an activation that has fired is left as
\* it is, and one that has not is left in its queue.
StatusOfPending(removed, m) ==
  IF /\ Count(removed, m) > 0
     /\ SupportWithout(removed, m) = 0
     /\ status[m] = "pending"
  THEN "deactivated" ELSE status[m]

StatusOfConsumed(removed, m) ==
  IF /\ Count(removed, m) > 0
     /\ SupportWithout(removed, m) = 0
     /\ status[m] = "consumed"
  THEN "deactivated" ELSE status[m]

\* An activation that loses its last token is deactivated, fired or not.
StatusWithout(removed, m) ==
  IF /\ Count(removed, m) > 0
     /\ SupportWithout(removed, m) = 0
     /\ status[m] \in {"pending", "consumed"}
  THEN "deactivated" ELSE status[m]

\* A new match gets an activation; one that was deactivated is armed again.
Armed(removed, added) ==
  {m \in Hold(Elems(added)) :
     StatusWithout(removed, m) \in {"none", "deactivated"}}

Apply(removed, added) ==
  /\ support' = [m \in Matches |->
                   SupportWithout(removed, m) + Count(added, m)]
  /\ status' = [m \in Matches |->
                  IF m \in Armed(removed, added)
                  THEN "pending" ELSE StatusWithout(removed, m)]

\* Faulty variant of Unrefract: removals leave the refractions alone.
UnrefractNone(S) == refracted

Unrefract(S) == [m \in Matches |-> IF m \in S THEN 0 ELSE refracted[m]]

HasAutoFocus   == session.autoFocus # {}
CollectChanges == session.listeners \/ HasAutoFocus

\* compactActivationStorage: only pending activations are kept.
Compacted(st, sup) ==
  /\ status' = [m \in Matches |->
                  IF st[m] = "pending" THEN "pending" ELSE "none"]
  /\ support' = [m \in Matches |-> IF st[m] = "pending" THEN sup[m] ELSE 0]

----------------------------------------------------------------------------
\* The focus stack.

Top(stack) == IF stack = <<>> THEN Main ELSE stack[Len(stack)]

PushOn(stack, module) ==
  IF Top(stack) = module THEN stack ELSE Append(stack, module)

PushAll(stack, modules) ==
  LET pushed[n \in 0..Len(modules)] ==
        IF n = 0 THEN stack ELSE PushOn(pushed[n - 1], modules[n])
  IN  pushed[Len(modules)]

\* The modules applyAutoFocus pushes, in the order the activations were made.
AutoFocused(removed, added) ==
  LET armed    == Armed(removed, added) \cap session.autoFocus
      First(i) == \A j \in 1..(i - 1) : MatchOf[added[j]] # MatchOf[added[i]]
      kept     == {i \in DOMAIN added : MatchOf[added[i]] \in armed /\ First(i)}
      Nth(n)   == CHOOSE i \in kept : Cardinality({j \in kept : j < i}) = n - 1
  IN  [n \in 1..Cardinality(kept) |-> ModuleOf[MatchOf[added[Nth(n)]]]]

PushAutoFocus(removed, added) ==
  focus' = IF CollectChanges
           THEN PushAll(focus, AutoFocused(removed, added)) ELSE focus

ReadyIn(module, m) == m \in Pending(status) /\ ModuleOf[m] = module

\* How many frames nextFocusedActivation keeps, -1 when no frame, and not MAIN
\* either, has a pending activation.
Frames ==
  LET has == {i \in 0..Len(focus) :
                \E m \in Matches : ReadyIn(Top(SubSeq(focus, 1, i)), m)}
  IN  IF has = {} THEN -1 ELSE CHOOSE i \in has : \A j \in has : j <= i

Focusable == Frames >= 0

\* With every rule in MAIN, a MAIN frame is never popped.
AllInMain == \A m \in Matches : ModuleOf[m] = Main
Exhausted ==
  LET mains == {i \in DOMAIN focus : focus[i] = Main}
  IN  IF AllInMain /\ mains # {}
      THEN SubSeq(focus, 1, CHOOSE i \in mains : \A j \in mains : j <= i)
      ELSE <<>>

Foremost(module) ==
  {m \in Matches : /\ ReadyIn(module, m)
                   /\ \A n \in Matches :
                        ReadyIn(module, n) => Salience[n] <= Salience[m]}

Bounded ==
  /\ Len(focus') <= MaxFocus
  /\ \A m \in Matches : support'[m] <= MaxSupport

----------------------------------------------------------------------------
\* Operations between firings.

Init ==
  /\ session \in Sessions
  /\ tokens = {} /\ spent = {}
  /\ status = [m \in Matches |-> "none"]
  /\ support = [m \in Matches |-> 0]
  /\ refracted = [m \in Matches |-> 0]
  /\ focus = <<Main>>
  /\ ready = TRUE
  /\ phase = "idle" /\ current = NoMatch
  /\ fired = 0 /\ limit = Unlimited /\ halt = FALSE
  /\ delta = "none" /\ states = <<>> /\ acts = 0
  /\ outcome = "none"

\* reconcileAgendaAfterMutation, of a mutation that the graph already has: the
\* agenda stays as it is when it is dirty, and when the mutation's context has
\* ended since ("late").
Reconcile(d, late) ==
  IF ready /\ ~late
  THEN /\ Apply(d.removed, d.added)
       /\ refracted' = Unrefract(Hold(Elems(d.removed)))
       /\ PushAutoFocus(d.removed, d.added)
       /\ UNCHANGED ready
  ELSE UNCHANGED <<agendaVars, focus>>

\* What the loop kept for itself goes with it; the halt request is read only
\* by the loop and cleared when the next one starts.
End(how) ==
  /\ phase' = "idle" /\ outcome' = how /\ current' = NoMatch
  /\ fired' = 0 /\ limit' = Unlimited /\ halt' = FALSE

\* A mutation of the owner, or a queued one that the run loop drains: a late one
\* ends the run.
Mutate ==
  /\ phase \in {"idle", "looping"}
  /\ \E d \in Deltas, late \in {FALSE, session.deadlines} :
       /\ Propagate(d)
       /\ Reconcile(d, late)
       /\ IF late /\ phase = "looping"
          THEN End("canceled") ELSE outcome' = "none" /\ UNCHANGED runVars
  /\ Bounded
  /\ UNCHANGED <<session, firingVars>>

Refocus(stack) == Len(stack) <= MaxFocus /\ stack # focus /\ focus' = stack

ChangeFocus ==
  \/ \E module \in Modules : Refocus(PushOn(focus, module))
  \/ focus # <<>> /\ Refocus(SubSeq(focus, 1, Len(focus) - 1))
  \/ Refocus(<<>>)

MoveFocus ==
  /\ phase \in {"idle", "looping"}
  /\ ChangeFocus
  /\ outcome' = "none"
  /\ UNCHANGED <<session, tokens, agendaVars, runVars, firingVars, spent>>

\* Reset, seen before the initial facts are asserted again.
Reset ==
  /\ phase = "idle"
  /\ tokens' = {} /\ spent' = {}
  /\ status' = [m \in Matches |-> "none"]
  /\ support' = [m \in Matches |-> 0]
  /\ refracted' = [m \in Matches |-> 0]
  /\ focus' = <<Main>>
  /\ ready' = TRUE
  /\ outcome' = "none"
  /\ UNCHANGED <<session, runVars, firingVars>>

\* Faulty variant of Captured: only what the agenda still holds is written.
CapturedRows ==
  [m \in Matches |->
     IF status[m] \in {"pending", "consumed"}
     THEN <<status[m], support[m]>> ELSE <<"none", 0>>]

\* What Checkpoint writes for each match: pending and consumed activations,
\* and the refractions of activations the agenda has released.
Captured ==
  [m \in Matches |->
     CASE status[m] \in {"pending", "consumed"} -> <<status[m], support[m]>>
       [] status[m] \notin {"pending", "consumed"} /\ refracted[m] > 0
                                      -> <<"consumed", refracted[m]>>
       [] OTHER                       -> <<"none", 0>>]

\* Restore rebuilds the graph from the facts and demands that the activations
\* it finds are the ones the checkpoint holds.
Restorable == {m \in Matches : Captured[m][1] # "none"} = Live

CheckpointAndRestore ==
  /\ phase = "idle" /\ ready
  /\ IF Restorable
     THEN /\ status' = [m \in Matches |-> Captured[m][1]]
          /\ support' = [m \in Matches |-> Captured[m][2]]
          /\ refracted' = [m \in Matches |-> IF Captured[m][1] = "consumed"
                                             THEN Captured[m][2] ELSE 0]
     ELSE UNCHANGED <<status, support, refracted>>
  /\ outcome' = "none"
  /\ UNCHANGED <<session, tokens, ready, focus, runVars, firingVars, spent>>

----------------------------------------------------------------------------
\* The run loop.

Run(max) ==
  /\ phase = "idle"
  /\ IF ready
     THEN phase' = "looping" /\ outcome' = "none" /\ limit' = max
     ELSE phase' = "idle" /\ outcome' = "failed" /\ UNCHANGED limit
  /\ UNCHANGED <<session, tokens, agendaVars, focus, current, fired, halt,
                 firingVars, spent>>

EndEarly(how) ==
  /\ End(how)
  /\ UNCHANGED <<session, tokens, agendaVars, focus, firingVars, spent>>

Cancel == phase = "looping" /\ EndEarly("canceled")
Halted == phase = "looping" /\ halt /\ EndEarly("halted")

AtLimit == limit # Unlimited /\ fired >= limit

\* Faulty variant of Limited: the limit is reported without asking whether
\* anything is left to fire.
LimitedWhenDrained == phase = "looping" /\ ~halt /\ AtLimit /\ EndEarly("limit")

Limited ==
  /\ phase = "looping" /\ ~halt /\ AtLimit /\ Focusable
  /\ EndEarly("limit")

\* Nothing is left in any focused module, at the limit or before it.
Completed ==
  /\ phase = "looping" /\ ~halt /\ ~Focusable
  /\ focus' = Exhausted
  /\ Compacted(status, support)
  /\ End("completed")
  /\ UNCHANGED <<session, tokens, refracted, ready, firingVars, spent>>

\* The snapshot of the activation that fires leaves its support out, and its
\* record carries one.
Fire(m) ==
  /\ phase = "looping" /\ ~halt /\ ~AtLimit /\ Focusable
  /\ focus' = SubSeq(focus, 1, Frames)
  /\ m \in Foremost(Top(focus'))
  /\ status' = [status EXCEPT ![m] = "consumed"]
  /\ refracted' = [refracted EXCEPT ![m] = 1]
  /\ spent' = spent \cup {m}
  /\ phase' = "firing" /\ current' = m
  /\ fired' = IF limit = Unlimited THEN fired ELSE fired + 1
  /\ UNCHANGED <<session, tokens, support, ready, limit, halt, firingVars,
                 outcome>>

----------------------------------------------------------------------------
\* Inside a firing: the rule's actions.

Acting ==
  /\ phase = "firing" /\ acts < MaxActs
  /\ acts' = acts + 1
  /\ UNCHANGED <<session, runVars, outcome>>

\* canApplyRunAgendaDeltaDirect, of a session whose agenda is not dirty.
Direct == ~CollectChanges /\ delta # "coalesced"

ApplyAtOnce(d) ==
  /\ Apply(d.removed, d.added)
  /\ refracted' = Unrefract(Hold(Elems(d.removed)))
  /\ delta' = "direct"
  /\ UNCHANGED <<ready, states>>

\* recordCoalescedRunAgendaToken: one entry per match, with whether the match
\* was pending when it was first touched and whether it is present now.
Record(entries, m, isPresent) ==
  IF \E i \in DOMAIN entries : entries[i].match = m
  THEN [i \in DOMAIN entries |->
          IF entries[i].match = m
          THEN [entries[i] EXCEPT !.present = isPresent] ELSE entries[i]]
  ELSE Append(entries, [match |-> m, initial |-> status[m] = "pending",
                        present |-> isPresent])

RecordAll(entries, list, isPresent) ==
  LET recorded[n \in 0..Len(list)] ==
        IF n = 0 THEN entries
        ELSE Record(recorded[n - 1], MatchOf[list[n]], isPresent)
  IN  recorded[Len(list)]

Coalesce(d) ==
  /\ states' = RecordAll(RecordAll(states, d.removed, FALSE), d.added, TRUE)
  /\ delta' = "coalesced"
  /\ UNCHANGED agendaVars

Act ==
  /\ Acting
  /\ \E d \in Deltas :
       /\ Propagate(d)
       /\ IF Direct THEN ApplyAtOnce(d) ELSE Coalesce(d)
  /\ UNCHANGED focus

ActFocus ==
  /\ Acting
  /\ ChangeFocus
  /\ UNCHANGED <<tokens, agendaVars, delta, states, spent>>

ActHalt ==
  /\ phase = "firing" /\ ~halt /\ halt' = TRUE
  /\ UNCHANGED <<session, tokens, agendaVars, focus, phase, current, fired,
                 limit, firingVars, outcome, spent>>

----------------------------------------------------------------------------
\* The end of a firing.

Forget == delta' = "none" /\ states' = <<>> /\ acts' = 0

\* Faulty variant of Net: the way an entry began is not looked at.
NetOfAll(isPresent) ==
  LET kept   == {i \in DOMAIN states : states[i].present = isPresent}
      Nth(n) == CHOOSE i \in kept : Cardinality({j \in kept : j < i}) = n - 1
  IN  [n \in 1..Cardinality(kept) |->
         CHOOSE t \in Tokens : MatchOf[t] = states[Nth(n)].match]

\* An entry that ends as it began is dropped; the token that stands for the
\* others is any token of the match, for only the match is looked up.
Net(isPresent) ==
  LET kept   == {i \in DOMAIN states : /\ states[i].present = isPresent
                                       /\ states[i].initial # isPresent}
      Nth(n) == CHOOSE i \in kept : Cardinality({j \in kept : j < i}) = n - 1
  IN  [n \in 1..Cardinality(kept) |->
         CHOOSE t \in Tokens : MatchOf[t] = states[Nth(n)].match]

Absent == {states[i].match : i \in {j \in DOMAIN states : ~states[j].present}}

\* reconcileRunAgendaDelta.
Settle ==
  IF delta = "coalesced"
  THEN /\ Apply(Net(FALSE), Net(TRUE))
       /\ refracted' = Unrefract(Absent \cup Hold(Elems(Net(FALSE))))
       /\ PushAutoFocus(Net(FALSE), Net(TRUE))
  ELSE UNCHANGED <<status, support, refracted, focus>>

Retired(st) == Cardinality(Known(st) \ Pending(st))
MaxOf(a, b) == IF a < b THEN b ELSE a

Crowded(st) == Retired(st) > MaxOf(CompactFloor, 4 * Cardinality(Pending(st)))

\* The firing ends; when enough rows have retired the storage is compacted
\* before anything else runs.
Fired ==
  /\ phase = "firing"
  /\ Settle
  /\ Bounded
  /\ phase' = IF Crowded(status') THEN "compacting" ELSE "looping"
  /\ current' = NoMatch
  /\ Forget
  /\ UNCHANGED <<session, tokens, ready, fired, limit, halt, outcome, spent>>

Compact ==
  /\ phase = "compacting" /\ phase' = "looping"
  /\ Compacted(status, support)
  /\ UNCHANGED <<session, tokens, refracted, ready, focus, current, fired,
                 limit, halt, firingVars, outcome, spent>>

\* An action fails, or the context is canceled, after the firing has begun:
\* whatever it did to the graph, a recorded delta leaves the agenda dirty.
Abandon(how) ==
  /\ phase = "firing"
  /\ ready' = (delta = "none")
  /\ Forget
  /\ End(how)
  /\ UNCHANGED <<session, tokens, status, support, refracted, focus, spent>>

Next ==
  \/ Mutate \/ MoveFocus \/ Reset \/ CheckpointAndRestore
  \/ \E max \in Limits \cup {Unlimited} : Run(max)
  \/ Cancel \/ Halted \/ Limited \/ Completed
  \/ \E m \in Matches : Fire(m)
  \/ Act \/ ActFocus \/ ActHalt
  \/ Fired \/ Compact
  \/ Abandon("action_failed") \/ Abandon("canceled")

Spec == Init /\ [][Next]_vars
=============================================================================
