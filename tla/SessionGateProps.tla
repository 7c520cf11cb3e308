-------------------------- MODULE SessionGateProps ---------------------------
(***************************************************************************)
(* What SessionGate is checked for.                                        *)
(***************************************************************************)
EXTENDS SessionGate

\* The variables stay within the values the code gives them.
TypeOK ==
  /\ pc \in [Call -> Locations]
  /\ gate \in [Call -> {"out", "mutate", "backing", "both", "lock"}]
  /\ probing \subseteq Call
  /\ dispatch \in [Call -> {"none", "outer", "nested"}]
  /\ ctx \in [Call -> {"live", "done"}]
  /\ ret \in [Call -> Outcomes]
  /\ answer \in [Mutators -> Outcomes]
  /\ guard \in BOOLEAN /\ mutate \in BOOLEAN /\ lock \in BOOLEAN
  /\ queueMu \in BOOLEAN
  /\ queue \in Seq(Mutators) /\ arrivals \in Seq(Mutators)
  /\ batch \in [Runners -> Seq(Mutators)]
  /\ outcome \in [Runners -> Outcomes]
  /\ err \in [Runners -> Outcomes]
  /\ listeners \in BOOLEAN /\ halt \in BOOLEAN /\ closed \in BOOLEAN
  /\ dirty \in BOOLEAN
  /\ effects \in Seq(Call)
  /\ pending \in 0 .. MaxActivations /\ fired \in 0 .. MaxActivations

(***************************************************************************)
(* Exclusion.                                                              *)
(***************************************************************************)
\* Where a call works on the session under mu.lock.
LockedSites == {"insert", "notify", "attach", "drainInsert", "drainNotify",
                "begin", "rows", "reading", "closing"}

\* No two calls work on the session under the lock at the same time: a
\* snapshot never sees a gated mutation half done, whatever is refused, backed
\* out of or queued on the way (beginMutation, lock, endMutation, unlock).
LockedWorkExclusive ==
  \A c, d \in Call :
    c # d => ~(pc[c] \in LockedSites /\ pc[d] \in LockedSites)

\* At most one Run or proof query is between beginRun and endRun, although
\* runGuardHeld fills and empties the same channel to look at it.
OneLoop ==
  \A r, s \in Runners :
    r # s => ~(pc[r] \in RunSites /\ pc[s] \in RunSites)

\* However calls end (refused, closed, canceled, aborted, dropped by a failed
\* beginMutation at the end of Run), the last one to leave leaves the guard,
\* both gate channels and the queue mutex free: no path leaks or double-frees.
TokensReturned ==
  (\A c \in Call : pc[c] \in {"idle", "wait", "done"})
     => ~guard /\ ~mutate /\ ~lock /\ ~queueMu

\* Who has put the token in each channel, or holds the mutex.
LockHolders   == {c \in Call : gate[c] \in {"both", "lock"}}
MutateHolders == {c \in Call : gate[c] \in {"mutate", "backing", "both"}}
GuardHolders  == {c \in Call : c \in probing \/ pc[c] \in RunSites}
QueueHolders  == {c \in Call :
                    pc[c] \in {"enqueueProbe", "append", "unlockQueue"}}

\* One holder at most, and the token is there exactly while somebody holds it.
Accounts(holders, token) ==
  /\ \A c, d \in holders : c = d
  /\ token <=> holders # {}

\* What a call may hold of the gate at a location.
GateAt(where) ==
  IF where \in GateSites THEN {"out", "mutate", "backing"}
  ELSE IF where \in {"handover", "drainLeave"} THEN {"both", "mutate"}
  ELSE IF where = "leave" THEN {"both", "mutate", "lock"}
  ELSE IF where = "clear" THEN {"both", "out"}
  ELSE IF where \in {"reading", "closing"} THEN {"lock"}
  ELSE IF where \in LockedSites THEN {"both"}
  ELSE {"out"}

\* The inductive invariant behind the three properties above.
TokensHeld ==
  /\ \A c \in Call : gate[c] \in GateAt(pc[c])
  /\ \A c \in probing : pc[c] \in ProbeSites
  /\ Accounts(LockHolders, lock)
  /\ Accounts(MutateHolders, mutate)
  /\ Accounts(GuardHolders, guard)
  /\ Accounts(QueueHolders, queueMu)

(***************************************************************************)
(* The during-run mutation queue.                                          *)
(***************************************************************************)
\* The requests still to be answered, oldest first.
Waiting == LET Popped == {r \in Runners : batch[r] # <<>>}
           IN  IF Popped = {} THEN queue
               ELSE batch[CHOOSE r \in Popped : TRUE] \o queue

\* How many of the requests ever queued have left the queue and the batch.
Served == Len(arrivals) - Len(Waiting)

\* Requests are served first in, first out and none is ever answered while it
\* still waits: a second answer would block the run on the one-slot channel.
InOrder ==
  /\ Waiting = SubSeq(arrivals, Served + 1, Len(arrivals))
  /\ \A i \in 1 .. Len(Waiting) : answer[Waiting[i]] = "none"

\* A request that left the queue has its answer: the caller is never left
\* waiting for a run that has thrown its request away.
EveryPoppedAnswered ==
  \A i \in 1 .. Served : answer[arrivals[i]] # "none"

AllLive == \A c \in Call : ctx[c] = "live"

\* As long as no context has been canceled, every request that has left the queue
\* has its answer: no refusal, failure, halt or close makes a run forget one.
AnsweredWhileLive == AllLive => EveryPoppedAnswered

\* The session as its callers see it.
Service == INSTANCE SessionService WITH
  Firings <- Runners,
  shut <- closed,
  lost <- dirty,
  told <- [m \in Mutators |->
             IF pc[m] = "idle" THEN "unmade"
             ELSE IF pc[m] = "done" THEN ret[m] ELSE "open"],
  applied <- effects

\* What a caller is told agrees with what happened to working memory, now and
\* ever after, through the queue, a Close in between and an agenda that a failed
\* action has left dirty: success means applied once; misuse, and the error of a
\* run that failed, mean never applied; any other error is told of the state
\* that causes it, is final, and may come of a mutation that was committed
\* (session.go:3353, 3400, 7406); and only a caller whose context was canceled
\* is left without knowing.
KeepsPromise == Service!Spec

(***************************************************************************)
(* Progress.                                                               *)
(***************************************************************************)
\* Run, QueryAll, the readers and Close never wait for another call.
CallsReturn ==
  \A c \in Call \ Mutators : pc[c] # "idle" ~> pc[c] = "done"

\* A mutation whose context is canceled returns, wherever it had got to.
CanceledReturns ==
  \A m \in Mutators : pc[m] # "idle" /\ ctx[m] = "done" ~> pc[m] = "done"

(***************************************************************************)
(* What the documentation says and the code does not do.                   *)
(***************************************************************************)
\* docs/session-lifecycle.md: a mutation made while a Run is active is queued
\* and applied, with the caller blocking until it is; so it returns.
MutatorsReturn ==
  \A m \in Mutators : pc[m] # "idle" ~> pc[m] = "done"

\* docs/session-lifecycle.md: while a Run is active, mutations from other
\* goroutines are applied between rule firings.
AppliedBetweenFirings ==
  \A m \in Mutators, r \in Runners :
    ~(pc[m] \in ApplySites /\ pc[r] \in ActSites)

=============================================================================
