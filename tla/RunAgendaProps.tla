--------------------------- MODULE RunAgendaProps ----------------------------
(***************************************************************************)
(* The properties of RunAgenda.                                            *)
(***************************************************************************)
EXTENDS RunAgenda

Entry == [match : Matches, initial : BOOLEAN, present : BOOLEAN]

\* Every variable stays in the range its Go type and constants give it.
TypeOK ==
  /\ session \in Sessions
  /\ tokens \subseteq Tokens
  /\ status \in [Matches -> {"none", "pending", "consumed", "deactivated"}]
  /\ support \in [Matches -> Nat]
  /\ refracted \in [Matches -> Nat]
  /\ focus \in Seq(Modules)
  /\ ready \in BOOLEAN
  /\ phase \in {"idle", "looping", "firing", "compacting"}
  /\ current \in Matches \cup {NoMatch}
  /\ fired \in Nat /\ limit \in Nat \cup {Unlimited} /\ halt \in BOOLEAN
  /\ delta \in {"none", "direct", "coalesced"}
  /\ states \in Seq(Entry)
  /\ acts \in 0..MaxActs
  /\ outcome \in {"none", "completed", "halted", "limit", "canceled",
                  "failed", "action_failed"}
  /\ spent \subseteq Matches

Promise == INSTANCE MatchLifecycle WITH live <- Live

\* A rule fires only on a match that holds, and once for each time it came to
\* hold: run.go's selection, over every history of assertions, retractions,
\* cancellations, compactions and restores (docs/executable-semantics.md: a
\* complete tuple becomes one activation).
FiresOncePerMatch == Promise!Spec

\* In a session whose deltas are applied at once, the agenda is exact whenever
\* it is not dirty: the pending activations are the matches that hold and have
\* not fired, and each counts the tokens that derive it.
AgendaExact ==
  ready /\ ~CollectChanges =>
    /\ Pending(status) = Live \ spent
    /\ \A m \in Pending(status) :
         support[m] = Cardinality({t \in tokens : MatchOf[t] = m})

\* With a listener or an auto-focus rule the agenda may lag behind the graph
\* during a firing; between firings it holds no match that does not.
NothingStale ==
  ready /\ phase # "firing" => Pending(status) \subseteq Live \ spent

\* A match that comes to hold after it fired is pending again before the next
\* activation is selected, however its deltas reached the agenda
\* (docs/executable-semantics.md: mutations from an action propagate before the
\* next activation is selected).
ReturnsArmed ==
  ready /\ phase \in {"idle", "looping"} => Live \ spent \subseteq Pending(status)

\* The refraction records a checkpoint is written from are the matches that
\* have fired and still hold: session_refraction_store.go against the agenda,
\* in a session whose deltas are applied at once.
RefractionsExact ==
  ready /\ ~CollectChanges => {m \in Matches : refracted[m] > 0} = spent

\* An idle session with a clean agenda can be restored from its checkpoint
\* (docs/session-lifecycle.md, Durable checkpoints): the activations written
\* are those of the matches that hold.
CheckpointRestores ==
  phase = "idle" /\ ready /\ ~CollectChanges => Restorable

\* A run that reports the firing limit leaves a match for the next run to fire,
\* in the graph and not only on the agenda, and in a session whose deltas are
\* applied at once a run that reports completion leaves none in MAIN, the module
\* below every focus frame (docs/executable-semantics.md: a run goes on until
\* quiescence, halt, limit, cancellation or error).
EndsAsReported ==
  /\ outcome = "limit" => Live \ spent # {}
  /\ outcome = "completed" /\ ~CollectChanges =>
       \A m \in Live \ spent : ModuleOf[m] # Main
=============================================================================
