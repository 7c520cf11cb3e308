--------------------------- MODULE SessionService ----------------------------
(***************************************************************************)
(* What a session promises the callers of its mutating operations: each    *)
(* one takes effect at most once, success is told only of one that did,    *)
(* and a refusal for the way calls met ("misuse", "failed" with the run)   *)
(* only of one that never will.  An error does not say as much: a mutation *)
(* that is committed may still fail behind the commit, or meet an agenda   *)
(* that is lost or a session that was closed since.  But it is final, and  *)
(* only a caller that gives up (its context is canceled) does not know     *)
(* whether its mutation takes effect later.                                *)
(***************************************************************************)
EXTENDS Sequences

CONSTANTS Mutators,  \* the mutating calls
          Firings    \* where the effects of rule actions come from

VARIABLES told,      \* what each caller knows
          applied,   \* the effects on working memory, in order
          shut,      \* the session is closed
          lost       \* the agenda has lost a delta

condition == <<shut, lost>>

Took(m) == \E i \in DOMAIN applied : applied[i] = m

Init ==
  /\ told = [m \in Mutators |-> "unmade"]
  /\ applied = <<>>
  /\ shut = FALSE /\ lost = FALSE

Tell(m, what) ==
  told' = [told EXCEPT ![m] = what] /\ UNCHANGED <<applied, condition>>

Submit(m) == told[m] = "unmade" /\ Tell(m, "open")

GiveUp(m) == told[m] \in {"unmade", "open"} /\ Tell(m, "canceled")

Confirm(m) == told[m] = "open" /\ Took(m) /\ Tell(m, "ok")

\* Refused for the calls it met, or with the run that was to apply it.
Decline(m) ==
  /\ told[m] = "open" /\ ~Took(m)
  /\ \E why \in {"misuse", "failed"} : Tell(m, why)

\* Refused for the state of the session, or failed.
Fail(m) ==
  /\ told[m] = "open"
  /\ \/ shut /\ Tell(m, "closed")
     \/ lost /\ Tell(m, "unsupported")
     \/ Tell(m, "error")

\* Nothing a caller asked for takes effect on a closed session, and nothing
\* does after its caller was told.
TakeEffect(m) ==
  /\ told[m] \in {"open", "canceled"} /\ ~Took(m) /\ ~shut
  /\ applied' = Append(applied, m)
  /\ UNCHANGED <<told, condition>>

RuleAction == \E r \in Firings :
  /\ applied' = Append(applied, r)
  /\ UNCHANGED <<told, condition>>

Shut == shut' = TRUE /\ UNCHANGED <<told, applied, lost>>
Lose == lost' = TRUE /\ UNCHANGED <<told, applied, shut>>

Next ==
  \/ \E m \in Mutators :
       \/ Submit(m) \/ GiveUp(m) \/ Confirm(m) \/ Decline(m) \/ Fail(m)
       \/ TakeEffect(m)
  \/ RuleAction \/ Shut \/ Lose

Spec == Init /\ [][Next]_<<told, applied, condition>>
=============================================================================
