--------------------------- MODULE WorkingMemory -----------------------------
(***************************************************************************)
(* The facts of a session: how each is held, the support edges of the      *)
(* derived ones, the cascade that takes derived facts away when a match    *)
(* that derived them is lost, and what the agenda is told of it.           *)
(*                                                                         *)
(* A fact version has a name; only its content and its unique key matter.  *)
(* A name that nothing refers to may be used again.  Rules are abstract: a *)
(* rule holds when some contents are there (Needs) and others are not      *)
(* (Blocks), and its match is identified by the fact versions it is on.    *)
(* The graph is exact: Holds is what its terminals hold.  The steps of a   *)
(* cascade are apart because listeners are called between them.            *)
(***************************************************************************)
EXTENDS Integers, FiniteSets

CONSTANTS
  Contents,    \* what a fact can say
  KeyOf,       \* KeyOf[c]: its duplicate key; contents with one key replace
               \* each other, and one content is one fact
  Rules,
  Needs,       \* Needs[r]: the contents rule r joins
  Blocks,      \* Blocks[r]: the contents it negates
  Names,       \* Names of fact versions: 1..n
  Nothing,     \* no content, no match
  ActionsFail, \* whether an action may return an error
  MaxActs      \* bound: mutations of one firing

ASSUME MemoryAssumption ==
  /\ Needs \in [Rules -> (SUBSET Contents) \ {{}}]
  /\ Blocks \in [Rules -> SUBSET Contents]
  /\ Nothing \notin Contents
  /\ Names \subseteq Nat
  /\ ActionsFail \in BOOLEAN
  /\ MaxActs \in Nat

VARIABLES
  says,      \* what each fact says
  how,       \* workingFact.supportState: none, stated, logical or both
  edges,     \* logicalSupportEdges: <<match that derived it, fact>>
  work,      \* the operation whose cascade is under way
  undo,      \* the memory before it: uniqueKeyReplaceUndo
  pending,   \* the activations to fire
  consumed,  \* the ones that have fired
  ready,     \* agendaDriver.ready; an agenda that is not is dirty
  firing,    \* the match being fired
  acts,      \* mutations made by this firing that reached the agenda
  excused,   \* history: matches lost without a cascade, or that derived a
             \* fact after they were lost
  missed     \* history: the agenda was not told of a change

memory      == <<says, how, edges>>
agenda      == <<pending, consumed, ready>>
run         == <<firing, acts>>
memoryVars  == <<memory, work, undo, agenda, run, excused, missed>>

Match == [rule : Rules, on : SUBSET Names]

----------------------------------------------------------------------------
\* The facts and the matches on them.

Facts(s)    == {f \in Names : s[f] # Nothing}
Said(s)     == {s[f] : f \in Facts(s)}
Standing(s) == {r \in Rules : Needs[r] \subseteq Said(s)
                                /\ Blocks[r] \cap Said(s) = {}}
MatchIn(r, s) == [rule |-> r, on |-> {f \in Facts(s) : s[f] \in Needs[r]}]
Holds(s)      == {MatchIn(r, s) : r \in Standing(s)}

VersionsOf(S) == UNION {m.on : m \in S}
Sources(E)    == {e[1] : e \in E}

\* The terminal delta of a step.
Lost   == Holds(says) \ Holds(says')
Gained == Holds(says') \ Holds(says)

\* logicalSupportMemory.countForFact is not zero.
Derived(f) == \E e \in edges : e[2] = f

----------------------------------------------------------------------------
\* The operation under way.

NoWork == [op |-> "none", sources |-> {}, doubtful |-> {}, removed |-> {},
           added |-> {}, put |-> Nothing, as |-> "none"]
Idle   == work.op = "none"
Empty  == [says |-> [f \in Names |-> Nothing],
           how |-> [f \in Names |-> "none"], edges |-> {}]

\* A name for a new version: nothing remembers the one it had.
Remembered ==
  Facts(says) \cup Facts(undo.says) \cup {e[2] : e \in edges}
  \cup VersionsOf(Sources(edges) \cup pending \cup consumed \cup work.removed
              \cup work.added \cup ({firing} \ {Nothing}))
Fresh == {n \in Names \ Remembered : \A k \in Names \ Remembered : n <= k}

\* A mutation by the user between firings, or by the action that is firing.
Mutating == Idle /\ (firing # Nothing => acts < MaxActs)
Recorded == acts' = IF firing = Nothing THEN 0 ELSE acts + 1

\* applyTerminalTokenDeltas: what went is taken out before what came is put
\* in, and what came again is not armed twice.
Tell(removed, added) ==
  IF ready
  THEN /\ consumed' = consumed \ removed
       /\ pending' = (pending \ removed) \cup (added \ consumed')
       /\ UNCHANGED ready
  ELSE UNCHANGED agenda

\* Matches that do not hold and are still the source of an edge.
Excuse(lost) ==
  excused' = ((excused \cup lost) \cap Sources(edges')) \ Holds(says')

----------------------------------------------------------------------------
\* Operations that remove no fact.

\* Assert of a fact that is there by derivation alone.
Restate ==
  /\ Mutating
  /\ \E f \in Facts(says) : how[f] = "logical" /\ how' = [how EXCEPT ![f] = "both"]
  /\ UNCHANGED <<says, edges, work, undo, agenda, run, excused, missed>>

\* AssertLogical of a fact that is there.
DeriveAgain ==
  /\ Mutating /\ firing # Nothing
  /\ \E f \in Facts(says) :
       /\ how' = [how EXCEPT ![f] = IF @ = "logical" THEN @ ELSE "both"]
       /\ edges' = edges \cup {<<firing, f>>}
  /\ UNCHANGED <<says, work, undo, agenda, run, missed>>
  /\ Excuse({firing})

\* Faulty variant of Unused: only a fact that says the same is looked for.
UnusedContent(c) == \A f \in Facts(says) : says[f] # c

Unused(c) == \A f \in Facts(says) : KeyOf[says[f]] # KeyOf[c]

\* The new fact f, stated or derived by the firing.
Put(f, c, as) ==
  /\ says' = [says EXCEPT ![f] = c]
  /\ how' = [how EXCEPT ![f] = as]
  /\ edges' = IF as = "logical" THEN edges \cup {<<firing, f>>} ELSE edges
  /\ Excuse(Lost \cup (IF as = "logical" THEN {firing} ELSE {}))

\* Faulty variant of Manner: a derivation without a rule that fires.
MannerAny == {"stated", "logical"}

Manner == IF firing = Nothing THEN {"stated"} ELSE {"stated", "logical"}

\* insertFactImmediate and insertLogicalFactImmediate of a new fact.  Matches it
\* blocks are lost, and keep the edges they are the source of.
Insert ==
  /\ Mutating
  /\ \E c \in Contents, f \in Fresh, as \in Manner : Unused(c) /\ Put(f, c, as)
  /\ Tell(Lost, Gained)
  /\ Recorded
  /\ UNCHANGED <<work, undo, firing, missed>>

----------------------------------------------------------------------------
\* Operations that remove one, and start a cascade.

\* Faulty variant of Begin: what a modification loses starts no cascade.
BeginUnlessModify(op, put, as) ==
  /\ work' = [op |-> op, sources |-> IF op = "modify" THEN {} ELSE Lost,
              doubtful |-> {}, removed |-> Lost,
              added |-> Gained, put |-> put, as |-> as]
  /\ undo' = [says |-> says, how |-> how, edges |-> edges]
  /\ UNCHANGED <<agenda, run, excused, missed>>

Begin(op, put, as) ==
  /\ work' = [op |-> op, sources |-> Lost,
              doubtful |-> {}, removed |-> Lost,
              added |-> Gained, put |-> put, as |-> as]
  /\ undo' = [says |-> says, how |-> how, edges |-> edges]
  /\ UNCHANGED <<agenda, run, excused, missed>>

\* Retract of a fact that is also derived only takes the statement back.
Unstate ==
  /\ Mutating
  /\ \E f \in Facts(says) : how[f] = "both" /\ how' = [how EXCEPT ![f] = "logical"]
  /\ UNCHANGED <<says, edges, work, undo, agenda, run, excused, missed>>

Gone(f) == says' = [says EXCEPT ![f] = Nothing] /\ how' = [how EXCEPT ![f] = "none"]

\* retractImmediate; a fact that is only derived is refused.
Retract ==
  /\ Mutating
  /\ \E f \in Facts(says) : how[f] = "stated" /\ Gone(f)
  /\ UNCHANGED edges
  /\ Begin("retract", Nothing, "none")

\* modifyImmediate: refused for a fact that is derived, and when another fact
\* has the key the new content would have.
Modify ==
  /\ Mutating
  /\ \E f \in Facts(says), g \in Fresh, c \in Contents :
       /\ ~Derived(f) /\ c # says[f]
       /\ \A h \in Facts(says) \ {f} : KeyOf[says[h]] # KeyOf[c]
       /\ says' = [says EXCEPT ![f] = Nothing, ![g] = c]
       /\ how' = [how EXCEPT ![f] = "none", ![g] = how[f]]
  /\ UNCHANGED edges
  /\ Begin("modify", Nothing, "none")

\* Faulty variant of Purged: the edges that support the old fact are left.
PurgedNone(f) == edges

\* purgeReceivedLogicalSupport
Purged(f) == {e \in edges : e[2] # f}

\* An assertion whose unique key another fact has: that fact goes first,
\* whatever holds it (fullyRetractFactForReplace).
Replace ==
  /\ Mutating
  /\ \E f \in Facts(says), c \in Contents, as \in Manner :
       /\ KeyOf[says[f]] = KeyOf[c] /\ says[f] # c
       /\ Gone(f)
       /\ edges' = Purged(f)
       /\ Begin("replace", c, as)

----------------------------------------------------------------------------
\* removeLogicalSupportsForSources

Cascading == ~Idle

\* One level: the edges of every match that was lost go first.
Undermine ==
  /\ Cascading /\ work.doubtful = {} /\ work.sources # {}
  /\ edges' = {e \in edges : e[1] \notin work.sources}
  /\ work' = [work EXCEPT !.sources = {}, !.doubtful = {e[2] : e \in edges \ edges'}]
  /\ UNCHANGED <<says, how, undo, agenda, run, excused, missed>>

\* Then each fact that lost one is looked at, in an order of no consequence: it
\* goes if nothing holds it any more, and what it was matched by is next.
Reconsider ==
  /\ Cascading
  /\ \E f \in work.doubtful :
       IF f \in Facts(says) /\ how[f] = "logical" /\ ~Derived(f)
       THEN /\ Gone(f)
            /\ work' = [work EXCEPT
                 !.doubtful = @ \ {f},
                 !.sources = @ \cup Lost,
                 !.removed = @ \cup Lost,
                 !.added = @ \cup Gained]
       ELSE /\ how' = IF how[f] = "both" /\ ~Derived(f)
                      THEN [how EXCEPT ![f] = "stated"] ELSE how
            /\ work' = [work EXCEPT !.doubtful = @ \ {f}]
            /\ UNCHANGED says
  /\ UNCHANGED <<edges, undo, agenda, run, excused, missed>>

Settled == Cascading /\ work.sources = {} /\ work.doubtful = {}
Done    == work' = NoWork /\ undo' = Empty

\* coalesceReteAgendaDelta: a match both added and removed is neither.
Both == work.removed \cap work.added

\* Faulty variant of FinishRetract: the two deltas are not coalesced.
FinishRetractUncoalesced ==
  /\ Settled /\ work.op = "retract"
  /\ Tell(work.removed, work.added)
  /\ Recorded /\ Done
  /\ UNCHANGED <<memory, firing, missed>>
  /\ Excuse({})

FinishRetract ==
  /\ Settled /\ work.op = "retract"
  /\ Tell(work.removed \ Both, work.added \ Both)
  /\ Recorded /\ Done
  /\ UNCHANGED <<memory, firing, missed>>
  /\ Excuse({})

\* Modify tells the agenda of both: the removal of a match it does not have,
\* then its addition.
FinishModify ==
  /\ Settled /\ work.op = "modify"
  /\ Tell(work.removed, work.added)
  /\ missed' = (missed \/ Both # {})
  /\ Recorded /\ Done
  /\ UNCHANGED <<memory, firing>>
  /\ Excuse({})

\* The new fact takes the place of the old one, and the two changes are told
\* as one.
FinishReplace ==
  /\ Settled /\ work.op = "replace"
  /\ \E g \in Fresh : Put(g, work.put, work.as)
  /\ LET removed == work.removed \cup Lost
         added   == work.added \cup Gained
     IN  Tell(removed \ added, added \ removed)
  /\ Recorded /\ Done
  /\ UNCHANGED <<firing, missed>>

\* Faulty variant of Restored: the captured support is forgotten.
RestoredFacts == says' = undo.says /\ how' = undo.how /\ UNCHANGED edges

\* rollbackUniqueKeyReplace
Restored == says' = undo.says /\ how' = undo.how /\ edges' = undo.edges

\* The propagation of a replacement fails, at any point before it is committed.
AbandonReplace ==
  /\ Cascading /\ work.op = "replace"
  /\ Restored
  /\ Done
  /\ UNCHANGED <<agenda, run, excused, missed>>
----------------------------------------------------------------------------
\* Firing.

Fire ==
  /\ Idle /\ firing = Nothing /\ ready
  /\ \E m \in pending :
       /\ firing' = m
       /\ pending' = pending \ {m} /\ consumed' = consumed \cup {m}
  /\ UNCHANGED <<memory, work, undo, ready, acts, excused, missed>>

EndFiring ==
  /\ Idle /\ firing # Nothing
  /\ firing' = Nothing /\ acts' = 0
  /\ UNCHANGED <<memory, work, undo, agenda, excused, missed>>

\* An action returns an error: what the firing derived is taken back, and the
\* agenda is not told of that.
Fail ==
  /\ Idle /\ firing # Nothing /\ ActionsFail
  /\ work' = [NoWork EXCEPT !.op = "fail", !.sources = {firing}]
  /\ undo' = [says |-> says, how |-> how, edges |-> edges]
  /\ UNCHANGED <<memory, agenda, run, excused, missed>>

\* abandonRunAgendaDelta makes the agenda dirty if the firing recorded a delta.
FinishFail ==
  /\ Settled /\ work.op = "fail"
  /\ ready' = (ready /\ acts = 0)
  /\ missed' = (missed \/ (acts = 0 /\ work.removed \cup work.added # {}))
  /\ firing' = Nothing /\ acts' = 0
  /\ Done
  /\ UNCHANGED <<memory, pending, consumed>>
  /\ Excuse({})

\* Reset, seen before the initial facts are asserted again.
ResetMemory ==
  /\ Idle /\ firing = Nothing
  /\ says' = Empty.says /\ how' = Empty.how /\ edges' = {}
  /\ pending' = {} /\ consumed' = {} /\ ready' = TRUE
  /\ excused' = {} /\ missed' = FALSE
  /\ UNCHANGED <<work, undo, run>>

InitMemory ==
  /\ says = Empty.says /\ how = Empty.how /\ edges = {}
  /\ work = NoWork /\ undo = Empty
  /\ pending = {} /\ consumed = {} /\ ready = TRUE
  /\ firing = Nothing /\ acts = 0
  /\ excused = {} /\ missed = FALSE

NextMemory ==
  \/ Restate \/ DeriveAgain \/ Insert \/ Unstate \/ Retract \/ Modify \/ Replace
  \/ Undermine \/ Reconsider
  \/ FinishRetract \/ FinishModify \/ FinishReplace \/ AbandonReplace
  \/ Fire \/ EndFiring \/ Fail \/ FinishFail
  \/ ResetMemory

SpecMemory == InitMemory /\ [][NextMemory]_memoryVars
=============================================================================
