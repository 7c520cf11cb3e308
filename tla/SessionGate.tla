----------------------------- MODULE SessionGate -----------------------------
(***************************************************************************)
(* How concurrent calls share one engine session: the mutation gate (the   *)
(* channels mu.mutate and mu.lock), the run guard, the during-run mutation *)
(* queue, and the loop of Session.Run between them.                        *)
(*                                                                         *)
(* Every call is one goroutine that executes one API operation once; After *)
(* gives the program order of calls made by the same owner.  One step of   *)
(* the model is one channel operation, atomic access or mutex critical     *)
(* section of the code, so that every interleaving of them is explored.    *)
(*                                                                         *)
(* A mutation is abstract: its effect on working memory is one entry of    *)
(* "effects", and it may make one activation eligible when the agenda is   *)
(* reconciled with it.                                                     *)
(***************************************************************************)
EXTENDS Integers, Sequences, FiniteSets

CONSTANTS
  Mutators,       \* Assert, Modify, Retract, focus and ApplyRuleset calls
  Runs,           \* Run calls
  Queries,        \* QueryAll calls (they may run the loop for a proof)
  Readers,        \* Snapshot, Fork and the other read-only calls
  Closers,        \* Close calls
  After,          \* After[c]: the calls that return before c is made
  Cancelable,     \* the calls whose context may be canceled
  Compound,       \* the mutations whose own work may fail: Modify, ApplyRuleset
  Listening,      \* whether an event listener is attached
  MaxActivations  \* bound: activations ever made eligible

Runners == Runs \cup Queries
Call == Mutators \cup Runners \cup Readers \cup Closers

ASSUME GateAssumption ==
  /\ Mutators \cap (Runners \cup Readers \cup Closers) = {}
  /\ Runners \cap (Readers \cup Closers) = {}
  /\ Runs \cap Queries = {} /\ Readers \cap Closers = {}
  /\ After \in [Call -> SUBSET Call]
  /\ Cancelable \subseteq Call /\ Compound \subseteq Mutators
  /\ Listening \in BOOLEAN
  /\ MaxActivations \in Nat

VARIABLES
  pc,        \* where each call is
  gate,      \* what beginMutation, or lock alone, has taken for each call
  probing,   \* the calls whose runGuardHeld has just put a token in runGuard
  dispatch,  \* what emitEvent's Swap returned to each call inside a dispatch
  ctx,       \* each call's context
  ret,       \* what each call returns
  answer,    \* the one-slot result channel of each queued mutation
  guard,     \* runGuard is full
  mutate,    \* mu.mutate is full
  lock,      \* mu.lock is full
  queueMu,   \* mutationQueueMu is held
  queue,     \* mutationQueue
  arrivals,  \* every request ever queued, in order
  batch,     \* the requests a run popped and has not answered yet
  outcome,   \* what the request a run is applying came to
  err,       \* why a run's loop is being abandoned
  listeners, \* listenerDispatchActive
  halt,      \* runHaltRequested
  closed,    \* Session.closed
  dirty,     \* agendaDriver.dirty: a delta was lost, the agenda can take no more
  effects,   \* the mutations applied to working memory, by their caller
  pending,   \* eligible activations on the agenda
  fired      \* activations fired so far

local   == <<pc, gate, probing, dispatch>>
calls   == <<ctx, ret, answer>>
tokens  == <<guard, mutate, lock, queueMu>>
waiting == <<queue, arrivals, batch, outcome>>
memory  == <<closed, dirty, effects, pending, fired>>
flags   == <<listeners, halt>>
vars    == <<local, calls, tokens, waiting, err, flags, memory>>

(***************************************************************************)
(* Program locations, by what happens there.                               *)
(***************************************************************************)
ProbeSites == {"probe", "enqueueProbe", "recheck", "readProbe", "closeProbe",
               "queryProbe"}                     \* calls of runGuardHeld
GateSites  == {"direct", "start", "drainLock", "stop"}
                                                 \* calls of beginMutation
LockSites  == {"readLock", "closeLock"}          \* calls of lock alone
LeaveSites == {"leave", "handover", "drainLeave"}
                                                 \* endMutation or unlock
EmitSites  == {"notify", "drainNotify", "fireNotify", "actionNotify"}
                                                 \* calls of emitEvent
ApplySites == {"insert", "notify", "attach", "drainInsert", "drainNotify"}
                                                 \* external mutation applied
ActSites   == {"fireNotify", "action", "actionNotify", "acted"}
                                                 \* an activation is firing
LoopSites  == {"drain", "drainLock", "drainDenied", "drainInsert",
               "drainNotify", "drainLeave", "drainAnswer", "precheck",
               "check", "top", "abort"} \cup ActSites
RunSites   == LoopSites \cup {"handover", "stop", "clear"}
                                                 \* between beginRun and endRun
Locations  == ProbeSites \cup GateSites \cup LockSites \cup LeaveSites
              \cup ApplySites \cup RunSites
              \cup {"idle", "lockQueue", "append", "unlockQueue", "wait",
                    "begin", "rows", "cleanup", "reading", "closing", "done"}

Outcomes == {"none", "ok", "misuse", "canceled", "closed", "failed",
             "error", "unsupported", "completed", "halted"}

Goto(c, where) == pc' = [pc EXCEPT ![c] = where]
Return(c, r)   == Goto(c, "done") /\ ret' = [ret EXCEPT ![c] = r]
Elems(s)       == {s[i] : i \in DOMAIN s}

Init ==
  /\ pc = [c \in Call |-> "idle"]
  /\ gate = [c \in Call |-> "out"]
  /\ probing = {}
  /\ dispatch = [c \in Call |-> "none"]
  /\ ctx = [c \in Call |-> "live"]
  /\ ret = [c \in Call |-> "none"]
  /\ answer = [c \in Mutators |-> "none"]
  /\ guard = FALSE /\ mutate = FALSE /\ lock = FALSE /\ queueMu = FALSE
  /\ queue = <<>> /\ arrivals = <<>>
  /\ batch = [r \in Runners |-> <<>>]
  /\ outcome = [r \in Runners |-> "none"]
  /\ err = [r \in Runners |-> "none"]
  /\ listeners = FALSE /\ halt = FALSE /\ closed = FALSE /\ dirty = FALSE
  /\ effects = <<>>
  /\ pending \in 0 .. MaxActivations
  /\ fired = 0

(***************************************************************************)
(* Entry checks.                                                           *)
(***************************************************************************)
Made(c) == pc[c] = "idle" /\ \A d \in After[c] : pc[d] = "done"

\* A mutation is a candidate for the queue unless a listener dispatch is on.
InvokeMutation(c) ==
  /\ c \in Mutators /\ Made(c)
  /\ \/ ctx[c] = "done" /\ Return(c, "canceled")
     \/ /\ ctx[c] = "live"
        /\ Goto(c, IF listeners THEN "recheck" ELSE "probe")
        /\ UNCHANGED ret
  /\ UNCHANGED <<gate, probing, dispatch, ctx, answer, tokens, waiting, err,
                 flags, memory>>

\* Run, QueryAll and the readers look at closed and at their context first.
InvokeOther(c) ==
  /\ c \in Runners \cup Readers /\ Made(c)
  /\ \/ closed /\ Return(c, "closed")
     \/ ~closed /\ ctx[c] = "done" /\ Return(c, "canceled")
     \/ /\ ~closed /\ ctx[c] = "live"
        /\ Goto(c, IF c \in Runs THEN "start"
                   ELSE IF c \in Queries THEN "queryProbe" ELSE "readProbe")
        /\ UNCHANGED ret
  /\ UNCHANGED <<gate, probing, dispatch, ctx, answer, tokens, waiting, err,
                 flags, memory>>

InvokeClose(c) ==
  /\ c \in Closers /\ Made(c)
  /\ \/ listeners /\ Return(c, "misuse")
     \/ ~listeners /\ Goto(c, "closeProbe") /\ UNCHANGED ret
  /\ UNCHANGED <<gate, probing, dispatch, ctx, answer, tokens, waiting, err,
                 flags, memory>>

Cancel(c) ==
  /\ c \in Cancelable /\ ctx[c] = "live" /\ pc[c] # "done"
  /\ ctx' = [ctx EXCEPT ![c] = "done"]
  /\ UNCHANGED <<local, ret, answer, tokens, waiting, err, flags, memory>>

(***************************************************************************)
(* runGuardHeld: a probe that finds the guard free puts its own token in   *)
(* and takes it out again; meanwhile the guard looks held.                 *)
(***************************************************************************)
ProbeHeld(c) ==
  /\ pc[c] \in ProbeSites /\ c \notin probing /\ guard
  /\ CASE pc[c] = "probe" -> Goto(c, "lockQueue") /\ UNCHANGED ret
       [] pc[c] = "enqueueProbe" -> Goto(c, "append") /\ UNCHANGED ret
       [] OTHER -> Return(c, "misuse")
  /\ UNCHANGED <<gate, probing, dispatch, ctx, answer, tokens, waiting, err,
                 flags, memory>>

ProbeFree(c) ==
  /\ pc[c] \in ProbeSites /\ c \notin probing /\ ~guard
  /\ guard' = TRUE
  /\ probing' = probing \cup {c}
  /\ UNCHANGED <<pc, gate, dispatch, calls, mutate, lock, queueMu, waiting,
                 err, flags, memory>>

ProbeDone(c) ==
  /\ c \in probing
  /\ guard' = FALSE
  /\ probing' = probing \ {c}
  /\ Goto(c, CASE pc[c] = "probe" -> "recheck"
               [] pc[c] = "enqueueProbe" -> "unlockQueue"
               [] pc[c] = "recheck" -> "direct"
               [] pc[c] = "readProbe" -> "readLock"
               [] pc[c] = "closeProbe" -> "closeLock"
               [] OTHER -> "start")
  /\ UNCHANGED <<gate, dispatch, calls, mutate, lock, queueMu, waiting, err,
                 flags, memory>>

(***************************************************************************)
(* enqueueMutationDuringRun and the caller's wait for its result.          *)
(***************************************************************************)
LockQueue(c) ==
  /\ pc[c] = "lockQueue" /\ ~queueMu
  /\ queueMu' = TRUE
  /\ Goto(c, "enqueueProbe")
  /\ UNCHANGED <<gate, probing, dispatch, calls, guard, mutate, lock, waiting,
                 err, flags, memory>>

Enqueue(c) ==
  /\ pc[c] = "append"
  /\ queue' = Append(queue, c)
  /\ arrivals' = Append(arrivals, c)
  /\ queueMu' = FALSE
  /\ Goto(c, "wait")
  /\ UNCHANGED <<gate, probing, dispatch, calls, guard, mutate, lock, batch,
                 outcome, err, flags, memory>>

UnlockQueue(c) ==
  /\ pc[c] = "unlockQueue"
  /\ queueMu' = FALSE
  /\ Goto(c, "recheck")
  /\ UNCHANGED <<gate, probing, dispatch, calls, guard, mutate, lock, waiting,
                 err, flags, memory>>

\* Faulty: the caller waits for its result and for nothing else.
ReceiveOnly(c) ==
  /\ pc[c] = "wait" /\ answer[c] # "none" /\ Return(c, answer[c])
  /\ UNCHANGED <<gate, probing, dispatch, ctx, answer, tokens, waiting, err,
                 flags, memory>>

\* The select on the result channel and ctx.Done.
Receive(c) ==
  /\ pc[c] = "wait"
  /\ \/ answer[c] # "none" /\ Return(c, answer[c])
     \/ ctx[c] = "done" /\ Return(c, "canceled")
  /\ UNCHANGED <<gate, probing, dispatch, ctx, answer, tokens, waiting, err,
                 flags, memory>>

(***************************************************************************)
(* beginMutation: mutate, then lock; a taken channel is a refusal, never a *)
(* wait.                                                                   *)
(***************************************************************************)
TakeMutate(c) ==
  /\ pc[c] \in GateSites /\ gate[c] = "out" /\ ~mutate
  /\ mutate' = TRUE
  /\ gate' = [gate EXCEPT ![c] = "mutate"]
  /\ UNCHANGED <<pc, probing, dispatch, calls, guard, lock, queueMu, waiting,
                 err, flags, memory>>

TakeLock(c) ==
  /\ pc[c] \in GateSites /\ gate[c] = "mutate" /\ ~lock
  /\ lock' = TRUE
  /\ gate' = [gate EXCEPT ![c] = "both"]
  /\ Goto(c, CASE pc[c] = "direct" -> "insert"
               [] pc[c] = "start" -> "begin"
               [] pc[c] = "drainLock" -> "drainInsert"
               [] OTHER -> "clear")
  /\ UNCHANGED <<probing, dispatch, calls, guard, mutate, queueMu, waiting,
                 err, flags, memory>>

LockTaken(c) ==
  /\ pc[c] \in GateSites /\ gate[c] = "mutate" /\ lock
  /\ gate' = [gate EXCEPT ![c] = "backing"]
  /\ UNCHANGED <<pc, probing, dispatch, calls, tokens, waiting, err, flags,
                 memory>>

\* Faulty: mutate is kept by a call that found the lock taken.
RefuseKeepingMutate(c) ==
  /\ pc[c] \in GateSites
  /\ \/ gate[c] = "out" /\ mutate
     \/ gate[c] = "backing"
  /\ gate' = [gate EXCEPT ![c] = "out"]
  /\ CASE pc[c] = "drainLock" -> Goto(c, "drainDenied") /\ UNCHANGED ret
       [] pc[c] = "stop" -> Goto(c, "clear") /\ UNCHANGED ret
       [] OTHER -> Return(c, "misuse")
  /\ UNCHANGED <<probing, dispatch, ctx, answer, tokens, waiting, err, flags,
                 memory>>

Refuse(c) ==
  /\ pc[c] \in GateSites
  /\ \/ gate[c] = "out" /\ mutate /\ UNCHANGED <<gate, mutate>>
     \/ /\ gate[c] = "backing"
        /\ mutate' = FALSE
        /\ gate' = [gate EXCEPT ![c] = "out"]
  /\ CASE pc[c] = "drainLock" -> Goto(c, "drainDenied") /\ UNCHANGED ret
       [] pc[c] = "stop" -> Goto(c, "clear") /\ UNCHANGED ret
       [] OTHER -> Return(c, "misuse")
  /\ UNCHANGED <<probing, dispatch, ctx, answer, guard, lock, queueMu,
                 waiting, err, flags, memory>>

\* Faulty: a snapshot that does not look whether the lock was taken.
LockOnlyBlindly(c) ==
  /\ pc[c] \in LockSites
  /\ lock' = TRUE
  /\ gate' = [gate EXCEPT ![c] = "lock"]
  /\ Goto(c, IF pc[c] = "readLock" THEN "reading" ELSE "closing")
  /\ UNCHANGED <<probing, dispatch, calls, guard, mutate, queueMu, waiting,
                 err, flags, memory>>

\* Snapshot, Fork and Close take the lock alone.
LockOnly(c) ==
  /\ pc[c] \in LockSites
  /\ \/ lock /\ Return(c, "misuse") /\ UNCHANGED <<gate, lock>>
     \/ /\ ~lock
        /\ lock' = TRUE
        /\ gate' = [gate EXCEPT ![c] = "lock"]
        /\ Goto(c, IF pc[c] = "readLock" THEN "reading" ELSE "closing")
        /\ UNCHANGED ret
  /\ UNCHANGED <<probing, dispatch, ctx, answer, guard, mutate, queueMu,
                 waiting, err, flags, memory>>

\* endMutation and unlock: the lock goes first, then mutate.
DropLock(c) ==
  /\ pc[c] \in LeaveSites /\ gate[c] \in {"both", "lock"}
  /\ lock' = FALSE
  /\ \/ gate[c] = "both" /\ gate' = [gate EXCEPT ![c] = "mutate"]
        /\ UNCHANGED pc
     \/ gate[c] = "lock" /\ gate' = [gate EXCEPT ![c] = "out"]
        /\ Goto(c, "done")
  /\ UNCHANGED <<probing, dispatch, calls, guard, mutate, queueMu, waiting,
                 err, flags, memory>>

DropMutate(c) ==
  /\ pc[c] \in LeaveSites /\ gate[c] = "mutate"
  /\ mutate' = FALSE
  /\ gate' = [gate EXCEPT ![c] = "out"]
  /\ Goto(c, CASE pc[c] = "handover" -> "drain"
               [] pc[c] = "drainLeave" -> "drainAnswer"
               [] OTHER -> "done")
  /\ UNCHANGED <<probing, dispatch, calls, guard, lock, queueMu, waiting, err,
                 flags, memory>>

(***************************************************************************)
(* emitEvent: the flag is swapped to TRUE and its old value put back.      *)
(***************************************************************************)
Told(c) == CASE pc[c] = "notify" -> "attach"
             [] pc[c] = "drainNotify" -> "drainLeave"
             [] pc[c] = "fireNotify" -> "action"
             [] OTHER -> "acted"

BeginDispatch(c) ==
  /\ pc[c] \in EmitSites /\ Listening /\ dispatch[c] = "none"
  /\ dispatch' = [dispatch EXCEPT ![c] = IF listeners THEN "nested" ELSE "outer"]
  /\ listeners' = TRUE
  /\ UNCHANGED <<pc, gate, probing, calls, tokens, waiting, err, halt, memory>>

EndDispatch(c) ==
  /\ pc[c] \in EmitSites /\ dispatch[c] # "none"
  /\ listeners' = (dispatch[c] = "nested")
  /\ dispatch' = [dispatch EXCEPT ![c] = "none"]
  /\ Goto(c, Told(c))
  /\ UNCHANGED <<gate, probing, calls, tokens, waiting, err, halt, memory>>

NoDispatch(c) ==
  /\ pc[c] \in EmitSites /\ ~Listening
  /\ Goto(c, Told(c))
  /\ UNCHANGED <<gate, probing, dispatch, calls, tokens, waiting, err, flags,
                 memory>>

(***************************************************************************)
(* A mutation made directly, under the gate.                               *)
(***************************************************************************)
Matched == \* what reconciling the agenda with a mutation may add to it
  \/ UNCHANGED pending
  \/ pending + fired < MaxActivations /\ pending' = pending + 1

\* What the work on working memory may come to: a closed session refuses it,
\* and so does ApplyRuleset on a dirty agenda; it may fail of itself, and a
\* context that is over may end it.
Applied(by) ==
  IF closed THEN {"closed"}
  ELSE {"ok"} \cup (IF by \in Compound THEN {"error"} ELSE {})
              \cup (IF by \in Compound /\ dirty THEN {"unsupported"} ELSE {})
              \cup (IF ctx[by] = "done" THEN {"canceled"} ELSE {})

\* Faulty: what a context that is over undoes is reported as done.
RecordUnlessOver(by, result) ==
  effects' = IF result = "ok" /\ ctx[by] = "live" THEN Append(effects, by) ELSE effects

\* A failure undoes the work or, of a Modify or ApplyRuleset that fails after
\* its commit, leaves it.
Record(by, result) ==
  \/ result # "ok" /\ UNCHANGED effects
  \/ result \in {"ok", "error", "canceled"} /\ effects' = Append(effects, by)

Insert(c) ==
  /\ pc[c] = "insert"
  /\ \E result \in Applied(c) :
       /\ Record(c, result)
       /\ ret' = [ret EXCEPT ![c] = result]
       /\ Goto(c, IF result = "ok" THEN "notify" ELSE "leave")
  /\ UNCHANGED <<gate, probing, dispatch, ctx, answer, tokens, waiting, err,
                 flags, closed, dirty, pending, fired>>

\* reconcileAgendaAfterMutation of a mutation that is committed by then.
Reconciled(by) == IF closed THEN "closed"
                  ELSE IF ctx[by] = "done" THEN "canceled"
                  ELSE IF dirty THEN "unsupported" ELSE "ok"

\* It is not called for a mutation that can affect no rule.
Attach(c) ==
  /\ pc[c] = "attach"
  /\ \E result \in {"ok", Reconciled(c)} : ret' = [ret EXCEPT ![c] = result]
  /\ IF Reconciled(c) = "ok" THEN Matched ELSE UNCHANGED pending
  /\ Goto(c, "leave")
  /\ UNCHANGED <<gate, probing, dispatch, ctx, answer, tokens, waiting, err,
                 flags, closed, dirty, effects, fired>>

(***************************************************************************)
(* Readers and Close, under the lock.                                      *)
(***************************************************************************)
Read(c) ==
  /\ pc[c] \in {"reading", "rows"}
  /\ Goto(c, "leave")
  /\ ret' = [ret EXCEPT ![c] = "ok"]
  /\ UNCHANGED <<gate, probing, dispatch, ctx, answer, tokens, waiting, err,
                 flags, memory>>

Shut(c) ==
  /\ pc[c] = "closing"
  /\ closed' = TRUE
  /\ Goto(c, "leave")
  /\ ret' = [ret EXCEPT ![c] = "ok"]
  /\ UNCHANGED <<gate, probing, dispatch, ctx, answer, tokens, waiting, err,
                 flags, dirty, effects, pending, fired>>

(***************************************************************************)
(* The start of a run: checks again under the gate, beginRun, endMutation. *)
(***************************************************************************)
\* Faulty: a run that trusts the gate alone and does not look at the guard.
BeginRunUnguarded(c) ==
  /\ pc[c] = "begin" /\ ~closed /\ ctx[c] = "live"
  /\ guard' = TRUE
  /\ halt' = FALSE
  /\ Goto(c, "handover")
  /\ UNCHANGED <<gate, probing, dispatch, calls, mutate, lock, queueMu,
                 waiting, err, listeners, memory>>

\* The agenda cannot take what a query's trigger makes eligible.
Unprovable(c) == c \in Queries /\ dirty

BeginRun(c) ==
  /\ pc[c] = "begin" /\ ~closed /\ ctx[c] = "live" /\ ~Unprovable(c) /\ ~guard
  /\ guard' = TRUE
  /\ halt' = FALSE
  /\ Goto(c, "handover")
  /\ UNCHANGED <<gate, probing, dispatch, calls, mutate, lock, queueMu,
                 waiting, err, listeners, memory>>

RefuseRun(c) ==
  /\ pc[c] = "begin"
  /\ \/ closed /\ ret' = [ret EXCEPT ![c] = "closed"]
     \/ ~closed /\ ctx[c] = "done" /\ ret' = [ret EXCEPT ![c] = "canceled"]
     \/ ~closed /\ ctx[c] = "live" /\ Unprovable(c)
        /\ ret' = [ret EXCEPT ![c] = "failed"]
     \/ ~closed /\ ctx[c] = "live" /\ ~Unprovable(c) /\ guard
        /\ ret' = [ret EXCEPT ![c] = "misuse"]
  /\ Goto(c, "leave")
  /\ UNCHANGED <<gate, probing, dispatch, ctx, answer, tokens, waiting, err,
                 flags, memory>>

\* A query that needs no proof reads its rows without running the loop.
QueryWithoutProof(c) ==
  /\ c \in Queries /\ pc[c] = "begin" /\ ~closed /\ ctx[c] = "live"
  /\ Goto(c, "rows")
  /\ UNCHANGED <<gate, probing, dispatch, calls, tokens, waiting, err, flags,
                 memory>>

Abort(c, why) == Goto(c, "abort") /\ err' = [err EXCEPT ![c] = why]

\* The context check at the top of the loop.
Top(c) ==
  /\ pc[c] = "top"
  /\ \/ ctx[c] = "live" /\ Goto(c, "drain") /\ UNCHANGED err
     \/ ctx[c] = "done" /\ Abort(c, "canceled")
  /\ UNCHANGED <<gate, probing, dispatch, calls, tokens, waiting, flags,
                 memory>>

(***************************************************************************)
(* drainQueuedMutations.                                                   *)
(***************************************************************************)
\* Faulty: the newest request comes first.
PopNewest(c) ==
  /\ pc[c] = "drain" /\ batch[c] = <<>> /\ ~queueMu
  /\ IF queue = <<>> THEN Goto(c, "precheck") /\ UNCHANGED <<batch, queue>>
     ELSE /\ batch' = [batch EXCEPT ![c] = <<queue[Len(queue)]>>]
          /\ queue' = SubSeq(queue, 1, Len(queue) - 1)
          /\ UNCHANGED pc
  /\ UNCHANGED <<gate, probing, dispatch, calls, tokens, arrivals, outcome, err,
                 flags, memory>>

Pop(c) ==
  /\ pc[c] = "drain" /\ batch[c] = <<>> /\ ~queueMu
  /\ batch' = [batch EXCEPT ![c] = queue]
  /\ queue' = <<>>
  /\ Goto(c, IF queue = <<>> THEN "precheck" ELSE "drain")
  /\ UNCHANGED <<gate, probing, dispatch, calls, tokens, arrivals, outcome, err,
                 flags, memory>>

\* Every request of s is answered: its own cancellation comes first.
AnswerAll(s, why) ==
  answer' = [m \in Mutators |->
               IF m \notin Elems(s) THEN answer[m]
               ELSE IF ctx[m] = "done" THEN "canceled" ELSE why]

DrainNext(c) ==
  /\ pc[c] = "drain" /\ batch[c] # <<>>
  /\ ctx[Head(batch[c])] = "live" /\ ctx[c] = "live"
  /\ Goto(c, "drainLock")
  /\ UNCHANGED <<gate, probing, dispatch, calls, tokens, waiting, err, flags,
                 memory>>

\* Faulty: a canceled request is answered and tried again.
DrainSkipAgain(c) ==
  /\ pc[c] = "drain" /\ batch[c] # <<>> /\ ctx[Head(batch[c])] = "done"
  /\ answer' = [answer EXCEPT ![Head(batch[c])] = "canceled"]
  /\ UNCHANGED <<local, ctx, ret, tokens, waiting, err, flags, memory>>

DrainSkip(c) ==
  /\ pc[c] = "drain" /\ batch[c] # <<>> /\ ctx[Head(batch[c])] = "done"
  /\ answer' = [answer EXCEPT ![Head(batch[c])] = "canceled"]
  /\ batch' = [batch EXCEPT ![c] = Tail(batch[c])]
  /\ UNCHANGED <<local, ctx, ret, tokens, queue, arrivals, outcome, err, flags,
                 memory>>

DrainCanceled(c) ==
  /\ pc[c] = "drain" /\ batch[c] # <<>>
  /\ ctx[Head(batch[c])] = "live" /\ ctx[c] = "done"
  /\ AnswerAll(batch[c], "canceled")
  /\ batch' = [batch EXCEPT ![c] = <<>>]
  /\ Abort(c, "canceled")
  /\ UNCHANGED <<gate, probing, dispatch, ctx, ret, tokens, queue, arrivals,
                 outcome, flags, memory>>

\* beginMutation was refused: the request at the head gets no second look at
\* its context.
DrainDenied(c) ==
  /\ pc[c] = "drainDenied"
  /\ answer' = [m \in Mutators |->
                  IF m \notin Elems(batch[c]) THEN answer[m]
                  ELSE IF ctx[m] = "done" /\ m # Head(batch[c])
                       THEN "canceled" ELSE "misuse"]
  /\ batch' = [batch EXCEPT ![c] = <<>>]
  /\ Abort(c, "misuse")
  /\ UNCHANGED <<gate, probing, dispatch, ctx, ret, tokens, queue, arrivals,
                 outcome, flags, memory>>

DrainInsert(c) ==
  /\ pc[c] = "drainInsert"
  /\ \E result \in Applied(Head(batch[c])) :
       /\ Record(Head(batch[c]), result)
       /\ outcome' = [outcome EXCEPT ![c] = result]
       /\ Goto(c, IF result = "ok" THEN "drainNotify" ELSE "drainLeave")
  /\ UNCHANGED <<gate, probing, dispatch, calls, tokens, queue, arrivals,
                 batch, err, flags, closed, dirty, pending, fired>>

\* The agenda is reconciled outside the gate, under the run's context, and the
\* session may have been closed in between.
Answers(c) == IF outcome[c] = "ok" THEN {"ok", Reconciled(c)} ELSE {outcome[c]}

DrainAnswer(c) ==
  /\ pc[c] = "drainAnswer"
  /\ \E result \in Answers(c) \ {"canceled"} :
       answer' = [answer EXCEPT ![Head(batch[c])] = result]
  /\ IF outcome[c] = "ok" /\ Reconciled(c) = "ok" THEN Matched
                                                  ELSE UNCHANGED pending
  /\ batch' = [batch EXCEPT ![c] = Tail(batch[c])]
  /\ Goto(c, "drain")
  /\ UNCHANGED <<gate, probing, dispatch, ctx, ret, tokens, queue, arrivals,
                 outcome, err, flags, closed, dirty, effects, fired>>

\* A cancellation, the request's own or the run's, ends the run; the requests
\* popped behind this one are forgotten with the batch.
DrainBreak(c) ==
  /\ pc[c] = "drainAnswer" /\ "canceled" \in Answers(c)
  /\ answer' = [answer EXCEPT ![Head(batch[c])] = "canceled"]
  /\ batch' = [batch EXCEPT ![c] = <<>>]
  /\ Abort(c, "canceled")
  /\ UNCHANGED <<gate, probing, dispatch, ctx, ret, tokens, queue, arrivals,
                 outcome, flags, memory>>

(***************************************************************************)
(* The safe point, the firing of one activation, and the end of the run.   *)
(***************************************************************************)
\* The agenda is looked at once the queue is drained for the first time; only
\* the end of a run makes it dirty, so that one look stands for all.
Precheck(c) ==
  /\ pc[c] = "precheck"
  /\ \/ dirty /\ Abort(c, "unsupported")
     \/ ~dirty /\ ctx[c] = "live" /\ Goto(c, "check") /\ UNCHANGED err
     \/ ~dirty /\ ctx[c] = "done" /\ Abort(c, "canceled")
  /\ UNCHANGED <<gate, probing, dispatch, calls, tokens, waiting, flags,
                 memory>>

\* Faulty: an activation is taken from the agenda without asking for one.
CheckBlindly(c) ==
  /\ pc[c] = "check" /\ ~queueMu /\ queue = <<>> /\ ~halt
  /\ pending' = pending - 1
  /\ fired' = fired + 1
  /\ Goto(c, "fireNotify")
  /\ UNCHANGED <<gate, probing, dispatch, calls, tokens, waiting, err, flags,
                 closed, dirty, effects>>

\* Under mutationQueueMu: more requests, a halt, an empty agenda, a firing.
Check(c) ==
  /\ pc[c] = "check" /\ ~queueMu
  /\ \/ /\ queue # <<>>
        /\ Goto(c, "top")
        /\ UNCHANGED <<ret, pending, fired>>
     \/ /\ queue = <<>> /\ (halt \/ pending = 0)
        /\ Goto(c, "stop")
        /\ ret' = [ret EXCEPT ![c] = IF halt THEN "halted" ELSE "completed"]
        /\ UNCHANGED <<pending, fired>>
     \/ /\ queue = <<>> /\ ~halt /\ pending > 0
        /\ pending' = pending - 1
        /\ fired' = fired + 1
        /\ Goto(c, "fireNotify")
        /\ UNCHANGED ret
  /\ UNCHANGED <<gate, probing, dispatch, ctx, answer, tokens, waiting, err,
                 flags, closed, dirty, effects>>

\* An action may mutate the session (without the gate: its origin is the
\* current activation), ask for a halt, do neither, or fail.
Act(c) ==
  /\ pc[c] = "action" /\ ~closed /\ ctx[c] = "live"
  /\ \/ Goto(c, "actionNotify") /\ effects' = Append(effects, c)
        /\ UNCHANGED <<halt, err>>
     \/ Goto(c, "top") /\ halt' \in {halt, TRUE} /\ UNCHANGED <<effects, err>>
     \/ Abort(c, "failed") /\ UNCHANGED <<effects, halt>>
  /\ UNCHANGED <<gate, probing, dispatch, calls, tokens, waiting, listeners,
                 closed, dirty, pending, fired>>

ActRefused(c) ==
  /\ pc[c] = "action"
  /\ \/ closed /\ Abort(c, "failed")
     \/ ~closed /\ ctx[c] = "done" /\ Abort(c, "canceled")
  /\ UNCHANGED <<gate, probing, dispatch, calls, tokens, waiting, flags,
                 memory>>

\* The action has mutated the session.  Its delta is reconciled, unless the
\* session was closed, the run's context is over or the action fails after
\* all: the delta that is then given up, if there was one, leaves the agenda
\* dirty (reconcileRunAgendaDelta, abandonRunAgendaDelta).
Acted(c) ==
  /\ pc[c] = "acted" /\ Matched
  /\ \/ ctx[c] = "live" /\ Goto(c, "top") /\ UNCHANGED <<err, dirty>>
     \/ /\ \/ Abort(c, "failed")
           \/ closed /\ Abort(c, "closed")
           \/ ctx[c] = "done" /\ Abort(c, "canceled")
        /\ dirty' \in {dirty, TRUE}
  /\ UNCHANGED <<gate, probing, dispatch, calls, tokens, waiting, flags,
                 closed, effects, fired>>

\* Faulty: an aborted run throws its queue away.
FailQueuedSilently(c) ==
  /\ pc[c] = "abort" /\ ~queueMu
  /\ queue' = <<>>
  /\ ret' = [ret EXCEPT ![c] = "failed"]
  /\ Goto(c, "stop")
  /\ UNCHANGED <<gate, probing, dispatch, ctx, answer, tokens, arrivals, batch,
                 outcome, err, flags, memory>>

\* failQueuedMutations, with the run's error.
FailQueued(c) ==
  /\ pc[c] = "abort" /\ ~queueMu
  /\ answer' = [m \in Mutators |-> IF m \in Elems(queue) THEN err[c]
                                                        ELSE answer[m]]
  /\ queue' = <<>>
  /\ ret' = [ret EXCEPT ![c] = IF err[c] = "canceled" THEN "canceled"
                                                      ELSE "failed"]
  /\ Goto(c, "stop")
  /\ UNCHANGED <<gate, probing, dispatch, ctx, tokens, arrivals, batch,
                 outcome, err, flags, memory>>

\* Faulty: the guard is given back by a run that still has the loop's state.
EndRunEarly(c) ==
  /\ pc[c] = "clear" /\ guard
  /\ guard' = FALSE
  /\ UNCHANGED <<local, calls, mutate, lock, queueMu, waiting, err, flags,
                 memory>>

\* endRun; without the gate the result is thrown away, and a query still
\* cleans up after its proof.
EndRun(c) ==
  /\ pc[c] = "clear"
  /\ guard' = FALSE
  /\ \/ /\ gate[c] = "out" /\ ret' = [ret EXCEPT ![c] = "misuse"]
        /\ Goto(c, IF c \in Queries THEN "cleanup" ELSE "done")
     \/ /\ gate[c] = "both" /\ UNCHANGED ret
        /\ Goto(c, IF c \in Queries /\ ret[c] = "completed" THEN "rows"
                   ELSE "leave")
  /\ UNCHANGED <<gate, probing, dispatch, ctx, answer, mutate, lock, queueMu,
                 waiting, err, flags, memory>>

\* cleanupQueryProofImmediate by a query that has lost the gate.
Cleanup(c) ==
  /\ pc[c] = "cleanup"
  /\ Goto(c, "done")
  /\ UNCHANGED <<gate, probing, dispatch, calls, tokens, waiting, err, flags,
                 memory>>

(***************************************************************************)
(* The system.  Each goroutine keeps running (the Go scheduler), but no    *)
(* one has to cancel a context or make a call.                             *)
(***************************************************************************)
MutatorStep(c) ==
  \/ LockQueue(c) \/ Enqueue(c) \/ UnlockQueue(c) \/ Receive(c)
  \/ Insert(c) \/ Attach(c)

GateStep(c) ==
  \/ ProbeHeld(c) \/ ProbeFree(c) \/ ProbeDone(c)
  \/ TakeMutate(c) \/ TakeLock(c) \/ LockTaken(c) \/ Refuse(c)
  \/ LockOnly(c) \/ DropLock(c) \/ DropMutate(c)
  \/ BeginDispatch(c) \/ EndDispatch(c) \/ NoDispatch(c)
  \/ Read(c) \/ Shut(c)

RunnerStep(c) ==
  \/ BeginRun(c) \/ RefuseRun(c) \/ QueryWithoutProof(c) \/ Top(c)
  \/ Pop(c) \/ DrainNext(c) \/ DrainSkip(c) \/ DrainCanceled(c)
  \/ DrainDenied(c) \/ DrainInsert(c) \/ DrainAnswer(c) \/ DrainBreak(c)
  \/ Precheck(c) \/ Check(c) \/ Act(c) \/ ActRefused(c) \/ Acted(c)
  \/ FailQueued(c) \/ EndRun(c) \/ Cleanup(c)

Step(c) ==
  \/ GateStep(c)
  \/ c \in Mutators /\ MutatorStep(c)
  \/ c \in Runners /\ RunnerStep(c)

Invoke(c) == InvokeMutation(c) \/ InvokeOther(c) \/ InvokeClose(c)

\* Every call has returned, or can only wait for a result nobody will send.
Quiet ==
  /\ \A c \in Call : pc[c] \in {"idle", "wait", "done"}
  /\ UNCHANGED vars

Next == Quiet \/ \E c \in Call : Invoke(c) \/ Cancel(c) \/ Step(c)

Spec == Init /\ [][Next]_vars

FairSpec == Spec /\ \A c \in Call : WF_vars(Step(c))
=============================================================================
