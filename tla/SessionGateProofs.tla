-------------------------- MODULE SessionGateProofs --------------------------
(***************************************************************************)
(* Proofs about SessionGate, for every set of calls, every program order   *)
(* and every set of contexts that may be canceled, in three parts.         *)
(*                                                                         *)
(* The invariant of the first is TokensHeld: each channel and the queue    *)
(* mutex is full exactly while one call holds it, and what a call holds    *)
(* follows from where it is.  A step either moves one call between         *)
(* locations that hold the same things (WalkInv) or takes or returns one   *)
(* token (TokenTaken, TokenReturned).                                      *)
(*                                                                         *)
(* The second is about the during-run queue: every variable keeps its      *)
(* range, and requests are served first in, first out.  TypeInv adds the   *)
(* ranges and where a run may have requests; by the guard only one run has *)
(* any (Alone), so that what waits is its batch and then the queue.        *)
(* QueueInv says which part of the requests ever queued that is.           *)
(*                                                                         *)
(* The third is about what callers are told: the queue and the gate        *)
(* implement SessionService, and until a context is canceled no request is *)
(* forgotten.  PromiseInv relates, for every mutation, where its call is,  *)
(* what was written as its result or its answer, and whether it took       *)
(* effect; a mutation that waits took effect only if a run has it in hand. *)
(* CausesInv says that nobody speaks of a closed session or of an agenda   *)
(* that lost a delta before it is so.                                      *)
(***************************************************************************)
EXTENDS SessionGateProps, SequenceTheorems, TLAPS

\* The part of TypeOK the argument needs.
Types ==
  /\ pc \in [Call -> Locations]
  /\ gate \in [Call -> {"out", "mutate", "backing", "both", "lock"}]
  /\ probing \subseteq Call
  /\ guard \in BOOLEAN /\ mutate \in BOOLEAN /\ lock \in BOOLEAN
  /\ queueMu \in BOOLEAN

Inv == Types /\ TokensHeld

(***************************************************************************)
(* Accounts.                                                               *)
(***************************************************************************)
\* A free token that a call takes has that call as its only holder.
LEMMA TokenTaken ==
  ASSUME NEW holders, NEW token, Accounts(holders, token), ~token, NEW c
  PROVE  Accounts(holders \cup {c}, TRUE)
BY DEF Accounts

\* The holder of a token is the only one, so that returning it frees it.
LEMMA TokenReturned ==
  ASSUME NEW holders, NEW token, Accounts(holders, token), NEW c \in holders
  PROVE  Accounts(holders \ {c}, FALSE)
BY DEF Accounts

(***************************************************************************)
(* Steps that move one call and no token.                                  *)
(***************************************************************************)
QueueSites == {"enqueueProbe", "append", "unlockQueue"}

\* c goes to a location that holds what it held where it was.
Walks(c) ==
  LET to == pc'[c]
  IN  /\ to \in Locations
      /\ pc' = [pc EXCEPT ![c] = to]
      /\ gate[c] \in GateAt(to)
      /\ c \in probing => to \in ProbeSites
      /\ to \in RunSites <=> pc[c] \in RunSites
      /\ to \in QueueSites <=> pc[c] \in QueueSites

LEMMA WalkInv ==
  ASSUME Inv, NEW c \in Call, Walks(c), UNCHANGED <<gate, probing, tokens>>
  PROVE  Inv'
<1>1. Types'
  BY DEF Inv, Types, Walks, tokens
<1>2. /\ LockHolders' = LockHolders /\ MutateHolders' = MutateHolders
      /\ GuardHolders' = GuardHolders /\ QueueHolders' = QueueHolders
  BY DEF Inv, Types, Walks, LockHolders, MutateHolders, GuardHolders,
         QueueHolders, QueueSites
<1>3. /\ \A d \in Call : gate'[d] \in GateAt(pc'[d])
      /\ \A d \in probing' : pc'[d] \in ProbeSites
  BY DEF Inv, Types, TokensHeld, Walks
<1> QED
  BY <1>1, <1>2, <1>3 DEF Inv, TokensHeld, tokens

\* A step that leaves locations and tokens alone.
LEMMA StayInv ==
  ASSUME Inv, UNCHANGED <<pc, gate, probing, tokens>>
  PROVE  Inv'
BY DEF Inv, Types, TokensHeld, Accounts, LockHolders, MutateHolders,
       GuardHolders, QueueHolders, tokens

\* Making a call takes nothing.
LEMMA InvokeWalks ==
  ASSUME Inv, NEW c \in Call,
         InvokeMutation(c) \/ InvokeOther(c) \/ InvokeClose(c)
  PROVE  Walks(c) /\ UNCHANGED <<gate, probing, tokens>>
<1> USE DEF Inv, Types, TokensHeld, Walks, GateAt, Goto, Return, Abort, calls,
         Locations, GateSites, ProbeSites, LockSites, LeaveSites, ApplySites,
         EmitSites, RunSites, LoopSites, ActSites, LockedSites, QueueSites
<1>1. CASE InvokeMutation(c)
  BY <1>1 DEF InvokeMutation, Made
<1>2. CASE InvokeOther(c)
  BY <1>2 DEF InvokeOther, Made
<1>3. CASE InvokeClose(c)
  BY <1>3 DEF InvokeClose, Made
<1> QED
  BY <1>1, <1>2, <1>3

\* Neither does waiting, working under the gate or notifying.
LEMMA CallWalks ==
  ASSUME Inv, NEW c \in Call,
         ProbeHeld(c) \/ EndDispatch(c) \/ NoDispatch(c) \/ Read(c) \/ Shut(c) \/ Receive(c) \/ Insert(c) \/ Attach(c)
  PROVE  Walks(c) /\ UNCHANGED <<gate, probing, tokens>>
<1> USE DEF Inv, Types, TokensHeld, Walks, GateAt, Goto, Return, Abort, calls,
         Locations, GateSites, ProbeSites, LockSites, LeaveSites, ApplySites,
         EmitSites, RunSites, LoopSites, ActSites, LockedSites, QueueSites
<1>1. CASE ProbeHeld(c)
  BY <1>1 DEF ProbeHeld
<1>2. CASE EndDispatch(c)
  BY <1>2 DEF EndDispatch, Told
<1>3. CASE NoDispatch(c)
  BY <1>3 DEF NoDispatch, Told
<1>4. CASE Read(c)
  BY <1>4 DEF Read
<1>5. CASE Shut(c)
  BY <1>5 DEF Shut
<1>6. CASE Receive(c)
  BY <1>6 DEF Receive
<1>7. CASE Insert(c)
  BY <1>7 DEF Insert
<1>8. CASE Attach(c)
  BY <1>8 DEF Attach
<1> QED
  BY <1>1, <1>2, <1>3, <1>4, <1>5, <1>6, <1>7, <1>8

\* A run keeps the guard through its whole loop.
LEMMA LoopWalks ==
  ASSUME Inv, NEW c \in Call,
         RefuseRun(c) \/ QueryWithoutProof(c) \/ Top(c) \/ Pop(c) \/ DrainNext(c) \/ DrainCanceled(c) \/ DrainDenied(c) \/ DrainInsert(c) \/ DrainAnswer(c) \/ DrainBreak(c) \/ Precheck(c) \/ Check(c) \/ Act(c) \/ ActRefused(c) \/ Acted(c) \/ FailQueued(c) \/ Cleanup(c)
  PROVE  Walks(c) /\ UNCHANGED <<gate, probing, tokens>>
<1> USE DEF Inv, Types, TokensHeld, Walks, GateAt, Goto, Return, Abort, calls,
         Locations, GateSites, ProbeSites, LockSites, LeaveSites, ApplySites,
         EmitSites, RunSites, LoopSites, ActSites, LockedSites, QueueSites
<1>1. CASE RefuseRun(c)
  BY <1>1 DEF RefuseRun
<1>2. CASE QueryWithoutProof(c)
  BY <1>2 DEF QueryWithoutProof
<1>3. CASE Top(c)
  BY <1>3 DEF Top
<1>4. CASE Pop(c)
  BY <1>4 DEF Pop
<1>5. CASE DrainNext(c)
  BY <1>5 DEF DrainNext
<1>6. CASE DrainCanceled(c)
  BY <1>6 DEF DrainCanceled
<1>7. CASE DrainDenied(c)
  BY <1>7 DEF DrainDenied
<1>8. CASE DrainInsert(c)
  BY <1>8 DEF DrainInsert
<1>9. CASE DrainAnswer(c)
  BY <1>9 DEF DrainAnswer
<1>10. CASE DrainBreak(c)
  BY <1>10 DEF DrainBreak
<1>11. CASE Precheck(c)
  BY <1>11 DEF Precheck
<1>12. CASE Check(c)
  BY <1>12 DEF Check
<1>13. CASE Act(c)
  BY <1>13 DEF Act
<1>14. CASE ActRefused(c)
  BY <1>14 DEF ActRefused
<1>15. CASE Acted(c)
  BY <1>15 DEF Acted
<1>16. CASE FailQueued(c)
  BY <1>16 DEF FailQueued
<1>17. CASE Cleanup(c)
  BY <1>17 DEF Cleanup
<1> QED
  BY <1>1, <1>2, <1>3, <1>4, <1>5, <1>6, <1>7, <1>8, <1>9, <1>10, <1>11, <1>12,
     <1>13, <1>14, <1>15, <1>16, <1>17

(***************************************************************************)
(* Steps that take a token or return one.                                  *)
(***************************************************************************)
\* A probe that found the guard free holds it.
LEMMA ProbeFreeInv ==
  ASSUME Inv, NEW c \in Call, ProbeFree(c)
  PROVE  Inv'
<1> USE DEF ProbeFree, Goto, Return, calls, flags, waiting, memory,
         Inv, Types, TokensHeld, GateAt, Locations, GateSites, ProbeSites,
         LockSites, LeaveSites, ApplySites, EmitSites, RunSites, LoopSites,
         ActSites, LockedSites
<1>1. Types'
  OBVIOUS
<1>2. /\ \A d \in Call : gate'[d] \in GateAt(pc'[d])
      /\ \A d \in probing' : pc'[d] \in ProbeSites
  OBVIOUS
<1>3. GuardHolders' = GuardHolders \cup {c}
  BY DEF GuardHolders
<1>4. LockHolders' = LockHolders /\ MutateHolders' = MutateHolders
      /\ QueueHolders' = QueueHolders
  BY DEF LockHolders, MutateHolders, QueueHolders
<1>5. Accounts(GuardHolders', guard')
  BY <1>3, TokenTaken DEF Accounts
<1> QED
  BY <1>1, <1>2, <1>4, <1>5

\* It gives back the token it has put in itself.
LEMMA ProbeDoneInv ==
  ASSUME Inv, NEW c \in Call, ProbeDone(c)
  PROVE  Inv'
<1> USE DEF ProbeDone, Goto, Return, calls, flags, waiting, memory,
         Inv, Types, TokensHeld, GateAt, Locations, GateSites, ProbeSites,
         LockSites, LeaveSites, ApplySites, EmitSites, RunSites, LoopSites,
         ActSites, LockedSites
<1>1. Types'
  OBVIOUS
<1>2. /\ \A d \in Call : gate'[d] \in GateAt(pc'[d])
      /\ \A d \in probing' : pc'[d] \in ProbeSites
  OBVIOUS
<1>3. c \in GuardHolders /\ GuardHolders' = GuardHolders \ {c}
  BY DEF GuardHolders
<1>4. LockHolders' = LockHolders /\ MutateHolders' = MutateHolders
      /\ QueueHolders' = QueueHolders
  BY DEF LockHolders, MutateHolders, QueueHolders
<1>5. Accounts(GuardHolders', guard')
  BY <1>3, TokenReturned DEF Accounts
<1> QED
  BY <1>1, <1>2, <1>4, <1>5

\* enqueueMutationDuringRun takes the queue mutex.
LEMMA LockQueueInv ==
  ASSUME Inv, NEW c \in Call, LockQueue(c)
  PROVE  Inv'
<1> USE DEF LockQueue, Goto, Return, calls, flags, waiting, memory,
         Inv, Types, TokensHeld, GateAt, Locations, GateSites, ProbeSites,
         LockSites, LeaveSites, ApplySites, EmitSites, RunSites, LoopSites,
         ActSites, LockedSites
<1>1. Types'
  OBVIOUS
<1>2. /\ \A d \in Call : gate'[d] \in GateAt(pc'[d])
      /\ \A d \in probing' : pc'[d] \in ProbeSites
  OBVIOUS
<1>3. QueueHolders' = QueueHolders \cup {c}
  BY DEF QueueHolders
<1>4. LockHolders' = LockHolders /\ MutateHolders' = MutateHolders
      /\ GuardHolders' = GuardHolders
  BY DEF LockHolders, MutateHolders, GuardHolders
<1>5. Accounts(QueueHolders', queueMu')
  BY <1>3, TokenTaken DEF Accounts
<1> QED
  BY <1>1, <1>2, <1>4, <1>5

\* It gives the mutex back once the request is queued,
LEMMA EnqueueInv ==
  ASSUME Inv, NEW c \in Call, Enqueue(c)
  PROVE  Inv'
<1> USE DEF Enqueue, Goto, Return, calls, flags, waiting, memory,
         Inv, Types, TokensHeld, GateAt, Locations, GateSites, ProbeSites,
         LockSites, LeaveSites, ApplySites, EmitSites, RunSites, LoopSites,
         ActSites, LockedSites
<1>1. Types'
  OBVIOUS
<1>2. /\ \A d \in Call : gate'[d] \in GateAt(pc'[d])
      /\ \A d \in probing' : pc'[d] \in ProbeSites
  OBVIOUS
<1>3. c \in QueueHolders /\ QueueHolders' = QueueHolders \ {c}
  BY DEF QueueHolders
<1>4. LockHolders' = LockHolders /\ MutateHolders' = MutateHolders
      /\ GuardHolders' = GuardHolders
  BY DEF LockHolders, MutateHolders, GuardHolders
<1>5. Accounts(QueueHolders', queueMu')
  BY <1>3, TokenReturned DEF Accounts
<1> QED
  BY <1>1, <1>2, <1>4, <1>5

\* or once it has found the guard free.
LEMMA UnlockQueueInv ==
  ASSUME Inv, NEW c \in Call, UnlockQueue(c)
  PROVE  Inv'
<1> USE DEF UnlockQueue, Goto, Return, calls, flags, waiting, memory,
         Inv, Types, TokensHeld, GateAt, Locations, GateSites, ProbeSites,
         LockSites, LeaveSites, ApplySites, EmitSites, RunSites, LoopSites,
         ActSites, LockedSites
<1>1. Types'
  OBVIOUS
<1>2. /\ \A d \in Call : gate'[d] \in GateAt(pc'[d])
      /\ \A d \in probing' : pc'[d] \in ProbeSites
  OBVIOUS
<1>3. c \in QueueHolders /\ QueueHolders' = QueueHolders \ {c}
  BY DEF QueueHolders
<1>4. LockHolders' = LockHolders /\ MutateHolders' = MutateHolders
      /\ GuardHolders' = GuardHolders
  BY DEF LockHolders, MutateHolders, GuardHolders
<1>5. Accounts(QueueHolders', queueMu')
  BY <1>3, TokenReturned DEF Accounts
<1> QED
  BY <1>1, <1>2, <1>4, <1>5

\* The first half of beginMutation.
LEMMA TakeMutateInv ==
  ASSUME Inv, NEW c \in Call, TakeMutate(c)
  PROVE  Inv'
<1> USE DEF TakeMutate, Goto, Return, calls, flags, waiting, memory,
         Inv, Types, TokensHeld, GateAt, Locations, GateSites, ProbeSites,
         LockSites, LeaveSites, ApplySites, EmitSites, RunSites, LoopSites,
         ActSites, LockedSites
<1>1. Types'
  OBVIOUS
<1>2. /\ \A d \in Call : gate'[d] \in GateAt(pc'[d])
      /\ \A d \in probing' : pc'[d] \in ProbeSites
  OBVIOUS
<1>3. MutateHolders' = MutateHolders \cup {c}
  BY DEF MutateHolders
<1>4. LockHolders' = LockHolders /\ GuardHolders' = GuardHolders
      /\ QueueHolders' = QueueHolders
  BY DEF LockHolders, GuardHolders, QueueHolders
<1>5. Accounts(MutateHolders', mutate')
  BY <1>3, TokenTaken DEF Accounts
<1> QED
  BY <1>1, <1>2, <1>4, <1>5

\* The second half of beginMutation.
LEMMA TakeLockInv ==
  ASSUME Inv, NEW c \in Call, TakeLock(c)
  PROVE  Inv'
<1> USE DEF TakeLock, Goto, Return, calls, flags, waiting, memory,
         Inv, Types, TokensHeld, GateAt, Locations, GateSites, ProbeSites,
         LockSites, LeaveSites, ApplySites, EmitSites, RunSites, LoopSites,
         ActSites, LockedSites
<1>1. Types'
  OBVIOUS
<1>2. /\ \A d \in Call : gate'[d] \in GateAt(pc'[d])
      /\ \A d \in probing' : pc'[d] \in ProbeSites
  OBVIOUS
<1>3. LockHolders' = LockHolders \cup {c}
  BY DEF LockHolders
<1>4. MutateHolders' = MutateHolders /\ GuardHolders' = GuardHolders
      /\ QueueHolders' = QueueHolders
  BY DEF MutateHolders, GuardHolders, QueueHolders
<1>5. Accounts(LockHolders', lock')
  BY <1>3, TokenTaken DEF Accounts
<1> QED
  BY <1>1, <1>2, <1>4, <1>5

\* The second half of endMutation.
LEMMA DropMutateInv ==
  ASSUME Inv, NEW c \in Call, DropMutate(c)
  PROVE  Inv'
<1> USE DEF DropMutate, Goto, Return, calls, flags, waiting, memory,
         Inv, Types, TokensHeld, GateAt, Locations, GateSites, ProbeSites,
         LockSites, LeaveSites, ApplySites, EmitSites, RunSites, LoopSites,
         ActSites, LockedSites
<1>1. Types'
  OBVIOUS
<1>2. /\ \A d \in Call : gate'[d] \in GateAt(pc'[d])
      /\ \A d \in probing' : pc'[d] \in ProbeSites
  OBVIOUS
<1>3. c \in MutateHolders /\ MutateHolders' = MutateHolders \ {c}
  BY DEF MutateHolders
<1>4. LockHolders' = LockHolders /\ GuardHolders' = GuardHolders
      /\ QueueHolders' = QueueHolders
  BY DEF LockHolders, GuardHolders, QueueHolders
<1>5. Accounts(MutateHolders', mutate')
  BY <1>3, TokenReturned DEF Accounts
<1> QED
  BY <1>1, <1>2, <1>4, <1>5

\* The first half of endMutation, or unlock.
LEMMA DropLockInv ==
  ASSUME Inv, NEW c \in Call, DropLock(c)
  PROVE  Inv'
<1> USE DEF DropLock, Goto, Return, calls, flags, waiting, memory,
         Inv, Types, TokensHeld, GateAt, Locations, GateSites, ProbeSites,
         LockSites, LeaveSites, ApplySites, EmitSites, RunSites, LoopSites,
         ActSites, LockedSites
<1>1. Types'
  OBVIOUS
<1>2. /\ \A d \in Call : gate'[d] \in GateAt(pc'[d])
      /\ \A d \in probing' : pc'[d] \in ProbeSites
  OBVIOUS
<1>3. c \in LockHolders /\ LockHolders' = LockHolders \ {c}
  BY DEF LockHolders
<1>4. MutateHolders' = MutateHolders /\ GuardHolders' = GuardHolders
      /\ QueueHolders' = QueueHolders
  BY DEF MutateHolders, GuardHolders, QueueHolders
<1>5. Accounts(LockHolders', lock')
  BY <1>3, TokenReturned DEF Accounts
<1> QED
  BY <1>1, <1>2, <1>4, <1>5

\* beginRun takes the guard.
LEMMA BeginRunInv ==
  ASSUME Inv, NEW c \in Call, BeginRun(c)
  PROVE  Inv'
<1> USE DEF BeginRun, Goto, Return, calls, flags, waiting, memory,
         Inv, Types, TokensHeld, GateAt, Locations, GateSites, ProbeSites,
         LockSites, LeaveSites, ApplySites, EmitSites, RunSites, LoopSites,
         ActSites, LockedSites
<1>1. Types'
  OBVIOUS
<1>2. /\ \A d \in Call : gate'[d] \in GateAt(pc'[d])
      /\ \A d \in probing' : pc'[d] \in ProbeSites
  OBVIOUS
<1>3. GuardHolders' = GuardHolders \cup {c}
  BY DEF GuardHolders
<1>4. LockHolders' = LockHolders /\ MutateHolders' = MutateHolders
      /\ QueueHolders' = QueueHolders
  BY DEF LockHolders, MutateHolders, QueueHolders
<1>5. Accounts(GuardHolders', guard')
  BY <1>3, TokenTaken DEF Accounts
<1> QED
  BY <1>1, <1>2, <1>4, <1>5

\* endRun returns it.
LEMMA EndRunInv ==
  ASSUME Inv, NEW c \in Call, EndRun(c)
  PROVE  Inv'
<1> USE DEF EndRun, Goto, Return, calls, flags, waiting, memory,
         Inv, Types, TokensHeld, GateAt, Locations, GateSites, ProbeSites,
         LockSites, LeaveSites, ApplySites, EmitSites, RunSites, LoopSites,
         ActSites, LockedSites
<1>1. Types'
  OBVIOUS
<1>2. /\ \A d \in Call : gate'[d] \in GateAt(pc'[d])
      /\ \A d \in probing' : pc'[d] \in ProbeSites
  OBVIOUS
<1>3. c \in GuardHolders /\ GuardHolders' = GuardHolders \ {c}
  BY DEF GuardHolders
<1>4. LockHolders' = LockHolders /\ MutateHolders' = MutateHolders
      /\ QueueHolders' = QueueHolders
  BY DEF LockHolders, MutateHolders, QueueHolders
<1>5. Accounts(GuardHolders', guard')
  BY <1>3, TokenReturned DEF Accounts
<1> QED
  BY <1>1, <1>2, <1>4, <1>5

\* A call that finds the lock taken still holds mutate.
LEMMA LockTakenInv ==
  ASSUME Inv, NEW c \in Call, LockTaken(c)
  PROVE  Inv'
<1> USE DEF Goto, Return, calls, flags, waiting, memory, Inv, Types,
         TokensHeld, GateAt, Locations, GateSites, ProbeSites, LockSites,
         LeaveSites, ApplySites, EmitSites, RunSites, LoopSites, ActSites,
         LockedSites, QueueSites
<1>1. Types'
  BY DEF LockTaken, tokens
<1>2. /\ \A d \in Call : gate'[d] \in GateAt(pc'[d])
      /\ \A d \in probing' : pc'[d] \in ProbeSites
  BY DEF LockTaken
<1>3. /\ LockHolders' = LockHolders /\ MutateHolders' = MutateHolders
      /\ GuardHolders' = GuardHolders /\ QueueHolders' = QueueHolders
  BY DEF LockTaken, LockHolders, MutateHolders, GuardHolders, QueueHolders
<1> QED
  BY <1>1, <1>2, <1>3 DEF LockTaken, tokens

\* A refused call either has nothing or gives mutate back.
LEMMA RefuseInv ==
  ASSUME Inv, NEW c \in Call, Refuse(c)
  PROVE  Inv'
<1> USE DEF Goto, Return, calls, flags, waiting, memory, Inv, Types,
         TokensHeld, GateAt, Locations, GateSites, ProbeSites, LockSites,
         LeaveSites, ApplySites, EmitSites, RunSites, LoopSites, ActSites,
         LockedSites, QueueSites
<1>1. CASE gate[c] = "out"
  <2>1. Walks(c) /\ UNCHANGED <<gate, probing, tokens>>
    BY <1>1 DEF Refuse, Walks, tokens
  <2> QED
    BY <2>1, WalkInv
<1>2. CASE gate[c] = "backing"
  <2>1. /\ mutate' = FALSE /\ gate' = [gate EXCEPT ![c] = "out"]
        /\ UNCHANGED <<probing, guard, lock, queueMu>>
    BY <1>2 DEF Refuse
  <2>2. pc' \in [Call -> Locations]
    BY <1>2 DEF Refuse
  <2>3. Types'
    BY <2>1, <2>2
  <2>4. /\ \A d \in Call : gate'[d] \in GateAt(pc'[d])
        /\ \A d \in probing' : pc'[d] \in ProbeSites
    BY <1>2 DEF Refuse
  <2>5. c \in MutateHolders /\ MutateHolders' = MutateHolders \ {c}
    BY <1>2 DEF Refuse, MutateHolders
  <2>6. LockHolders' = LockHolders /\ GuardHolders' = GuardHolders
        /\ QueueHolders' = QueueHolders
    BY <1>2 DEF Refuse, LockHolders, GuardHolders, QueueHolders
  <2>7. Accounts(MutateHolders', mutate')
    BY <1>2, <2>5, TokenReturned DEF Refuse, Accounts
  <2> QED
    BY <1>2, <2>3, <2>4, <2>6, <2>7 DEF Refuse
<1> QED
  BY <1>1, <1>2 DEF Refuse

\* Snapshot, Fork and Close take the lock or return at once.
LEMMA LockOnlyInv ==
  ASSUME Inv, NEW c \in Call, LockOnly(c)
  PROVE  Inv'
<1> USE DEF Goto, Return, calls, flags, waiting, memory, Inv, Types,
         TokensHeld, GateAt, Locations, GateSites, ProbeSites, LockSites,
         LeaveSites, ApplySites, EmitSites, RunSites, LoopSites, ActSites,
         LockedSites, QueueSites
<1>1. CASE lock
  <2>1. Walks(c) /\ UNCHANGED <<gate, probing, tokens>>
    BY <1>1 DEF LockOnly, Walks, tokens
  <2> QED
    BY <2>1, WalkInv
<1>2. CASE ~lock
  <2>1. Types'
    BY <1>2 DEF LockOnly
  <2>2. /\ \A d \in Call : gate'[d] \in GateAt(pc'[d])
        /\ \A d \in probing' : pc'[d] \in ProbeSites
    BY <1>2 DEF LockOnly
  <2>3. LockHolders' = LockHolders \cup {c}
    BY <1>2 DEF LockOnly, LockHolders
  <2>4. MutateHolders' = MutateHolders /\ GuardHolders' = GuardHolders
        /\ QueueHolders' = QueueHolders
    BY <1>2 DEF LockOnly, MutateHolders, GuardHolders, QueueHolders
  <2>5. Accounts(LockHolders', lock')
    BY <1>2, <2>3, TokenTaken DEF LockOnly, Accounts
  <2> QED
    BY <1>2, <2>1, <2>2, <2>4, <2>5 DEF LockOnly
<1> QED
  BY <1>1, <1>2

(***************************************************************************)
(* The invariant and what follows from it.                                 *)
(***************************************************************************)
LEMMA InitInv == Init => Inv
<1> SUFFICES ASSUME Init
             PROVE  Inv
  OBVIOUS
<1>1. Types
  BY DEF Init, Types, Locations
<1>2. /\ LockHolders = {} /\ MutateHolders = {}
      /\ GuardHolders = {} /\ QueueHolders = {}
  BY DEF Init, LockHolders, MutateHolders, GuardHolders, QueueHolders,
         RunSites, LoopSites, ActSites
<1>3. \A c \in Call : gate[c] \in GateAt(pc[c])
  BY DEF Init, GateAt, GateSites, LockedSites
<1> QED
  BY <1>1, <1>2, <1>3 DEF Inv, TokensHeld, Accounts, Init

LEMMA NextInv == Inv /\ [Next]_vars => Inv'
<1> SUFFICES ASSUME Inv, [Next]_vars
             PROVE  Inv'
  OBVIOUS
<1>1. CASE UNCHANGED vars \/ Quiet
  BY <1>1, StayInv DEF Quiet, vars, local
<1>2. ASSUME NEW c \in Call, Invoke(c)
      PROVE  Inv'
  BY <1>2, InvokeWalks, WalkInv DEF Invoke
<1>3. ASSUME NEW c \in Call, Cancel(c) \/ BeginDispatch(c) \/ DrainSkip(c)
      PROVE  Inv'
  BY <1>3, StayInv DEF Cancel, BeginDispatch, DrainSkip, local, calls
<1>4. ASSUME NEW c \in Call,
             \/ LockQueue(c) \/ Enqueue(c) \/ UnlockQueue(c)
             \/ ProbeFree(c) \/ ProbeDone(c)
             \/ TakeMutate(c) \/ TakeLock(c) \/ LockTaken(c) \/ Refuse(c)
             \/ LockOnly(c) \/ DropLock(c) \/ DropMutate(c)
             \/ BeginRun(c) \/ EndRun(c)
      PROVE  Inv'
  BY <1>4, LockQueueInv, EnqueueInv, UnlockQueueInv, ProbeFreeInv,
     ProbeDoneInv, TakeMutateInv, TakeLockInv, LockTakenInv, RefuseInv,
     LockOnlyInv, DropLockInv, DropMutateInv, BeginRunInv, EndRunInv
<1>5. ASSUME NEW c \in Call, Step(c)
      PROVE  Inv'
  <2>1. CASE GateStep(c)
    BY <2>1, <1>3, <1>4, CallWalks, WalkInv DEF GateStep
  <2>2. CASE MutatorStep(c)
    BY <2>2, <1>4, CallWalks, WalkInv DEF MutatorStep
  <2>3. CASE RunnerStep(c)
    BY <2>3, <1>3, <1>4, LoopWalks, WalkInv DEF RunnerStep
  <2> QED
    BY <1>5, <2>1, <2>2, <2>3 DEF Step
<1> QED
  BY <1>1, <1>2, <1>3, <1>5 DEF Next

\* The accounts of the four tokens are right in every reachable state.
THEOREM TokensInvariant == Spec => []TokensHeld
<1>1. Inv => TokensHeld
  BY DEF Inv
<1> QED
  BY InitInv, NextInv, <1>1, PTL DEF Spec

LEMMA SpecInv == Spec => []Inv
BY InitInv, NextInv, PTL DEF Spec

\* However many calls are made, no two of them ever work on the session under
\* mu.lock at the same time.
THEOREM Exclusion == Spec => []LockedWorkExclusive
<1>1. Inv => LockedWorkExclusive
  <2> SUFFICES ASSUME Inv, NEW c \in Call, NEW d \in Call, c # d,
                      pc[c] \in LockedSites, pc[d] \in LockedSites
               PROVE  FALSE
    BY DEF LockedWorkExclusive
  <2>1. ASSUME NEW e \in Call, pc[e] \in LockedSites
        PROVE  e \in LockHolders
    BY <2>1 DEF Inv, TokensHeld, LockHolders, GateAt, LockedSites, GateSites
  <2>2. c \in LockHolders /\ d \in LockHolders
    BY <2>1
  <2> QED
    BY <2>2 DEF Inv, TokensHeld, Accounts
<1> QED
  BY <1>1, SpecInv, PTL

\* However many Runs and proof queries are made, at most one is in its loop.
THEOREM OneLoopAtATime == Spec => []OneLoop
<1>1. Inv => OneLoop
  BY DEF Inv, OneLoop, TokensHeld, Accounts, GuardHolders, Call
<1> QED
  BY <1>1, SpecInv, PTL

\* No path through any call leaks a token.
THEOREM NothingLeaks == Spec => []TokensReturned
<1>1. Inv => TokensReturned
  <2> SUFFICES ASSUME Inv, \A c \in Call : pc[c] \in {"idle", "wait", "done"}
               PROVE  ~guard /\ ~mutate /\ ~lock /\ ~queueMu
    BY DEF TokensReturned
  <2>1. \A c \in Call : gate[c] = "out" /\ c \notin probing
    BY DEF Inv, Types, TokensHeld, GateAt, GateSites, ProbeSites, LockedSites
  <2>2. /\ LockHolders = {} /\ MutateHolders = {}
        /\ GuardHolders = {} /\ QueueHolders = {}
    BY <2>1 DEF LockHolders, MutateHolders, GuardHolders, QueueHolders,
                RunSites, LoopSites, ActSites
  <2> QED
    BY <2>2 DEF Inv, TokensHeld, Accounts
<1> QED
  BY <1>1, SpecInv, PTL

----------------------------------------------------------------------------
\* The queue.

\* What TypeOK says besides Types, with the bound on activations that the
\* guard of Matched keeps.
Values ==
  /\ dispatch \in [Call -> {"none", "outer", "nested"}]
  /\ ctx \in [Call -> {"live", "done"}]
  /\ ret \in [Call -> Outcomes]
  /\ answer \in [Mutators -> Outcomes]
  /\ queue \in Seq(Mutators) /\ arrivals \in Seq(Mutators)
  /\ batch \in [Runners -> Seq(Mutators)]
  /\ outcome \in [Runners -> Outcomes]
  /\ err \in [Runners -> Outcomes]
  /\ listeners \in BOOLEAN /\ halt \in BOOLEAN /\ closed \in BOOLEAN
  /\ dirty \in BOOLEAN
  /\ effects \in Seq(Call)
  /\ pending \in Nat /\ fired \in Nat /\ pending + fired =< MaxActivations

\* Where a run has requests to answer.
PopSites == {"drain", "drainLock", "drainDenied", "drainInsert",
             "drainNotify", "drainLeave", "drainAnswer"}

\* A run has popped requests only there, and always has one when it is at work
\* on it.
BatchHeld ==
  \A r \in Runners :
    /\ batch[r] # <<>> => pc[r] \in PopSites
    /\ pc[r] \in PopSites \ {"drain"} => batch[r] # <<>>

TypeInv == Inv /\ Values /\ BatchHeld

LEMMA AreCalls == Mutators \subseteq Call /\ Runners \subseteq Call
BY DEF Call

LEMMA AreOutcomes ==
  /\ "none" \in Outcomes /\ "ok" \in Outcomes /\ "misuse" \in Outcomes
  /\ "canceled" \in Outcomes /\ "closed" \in Outcomes /\ "failed" \in Outcomes
  /\ "error" \in Outcomes /\ "unsupported" \in Outcomes
  /\ "completed" \in Outcomes /\ "halted" \in Outcomes
BY DEF Outcomes

\* What a mutation comes to, when it is applied and when it is reconciled.
LEMMA ResultsAre ==
  ASSUME Values
  PROVE  /\ \A m \in Call : Applied(m) \subseteq Outcomes /\ Reconciled(m) \in Outcomes
         /\ \A r \in Runners : Answers(r) \subseteq Outcomes
<1>1. \A m \in Call : Applied(m) \subseteq Outcomes
  BY AreOutcomes DEF Applied
<1>2. \A m : Reconciled(m) \in Outcomes
  BY AreOutcomes DEF Reconciled
<1>3. \A r \in Runners : outcome[r] \in Outcomes
  BY DEF Values
<1> QED
  BY <1>1, <1>2, <1>3, AreOutcomes DEF Answers

LEMMA TypesGiveOK == TypeInv => TypeOK
BY GateAssumption DEF TypeInv, Inv, Types, Values, TypeOK

LEMMA InitTyped == Init => Values /\ BatchHeld
<1> SUFFICES ASSUME Init PROVE Values /\ BatchHeld
  OBVIOUS
<1>1. effects \in Seq(Call) /\ queue \in Seq(Mutators) /\ arrivals \in Seq(Mutators)
  BY DEF Init
<1>2. pending + fired =< MaxActivations /\ pending \in Nat /\ fired \in Nat
  BY GateAssumption DEF Init
<1>3. batch \in [Runners -> Seq(Mutators)]
  BY DEF Init
<1>4. answer \in [Mutators -> Outcomes] /\ ret \in [Call -> Outcomes]
      /\ outcome \in [Runners -> Outcomes] /\ err \in [Runners -> Outcomes]
  BY AreOutcomes DEF Init
<1>5. BatchHeld
  BY AreCalls DEF Init, BatchHeld, PopSites
<1> QED
  BY <1>1, <1>2, <1>3, <1>4, <1>5 DEF Init, Values

\* Making a call, and cancelling one.
LEMMA InvokeTyped ==
  ASSUME TypeInv, NEW c \in Call, Invoke(c) \/ Cancel(c)
  PROVE  Values' /\ BatchHeld'
<1> USE DEF TypeInv
<1>1. CASE InvokeMutation(c)
  <2>1. ret' \in [Call -> Outcomes]
    BY <1>1, AreOutcomes DEF InvokeMutation, Return, Values
  <2>2. BatchHeld'
    BY <1>1, AreCalls DEF InvokeMutation, Made, Goto, Return, Inv, Types,
       BatchHeld, PopSites, waiting
  <2> QED
    BY <1>1, <2>1, <2>2 DEF InvokeMutation, Values, calls, waiting, memory, flags
<1>2. CASE InvokeOther(c)
  <2>1. ret' \in [Call -> Outcomes]
    BY <1>2, AreOutcomes DEF InvokeOther, Return, Values
  <2>2. BatchHeld'
    BY <1>2, AreCalls DEF InvokeOther, Made, Goto, Return, Inv, Types, BatchHeld,
       PopSites, waiting
  <2> QED
    BY <1>2, <2>1, <2>2 DEF InvokeOther, Values, calls, waiting, memory, flags
<1>3. CASE InvokeClose(c)
  <2>1. ret' \in [Call -> Outcomes]
    BY <1>3, AreOutcomes DEF InvokeClose, Return, Values
  <2>2. BatchHeld'
    BY <1>3, AreCalls DEF InvokeClose, Made, Goto, Return, Inv, Types, BatchHeld,
       PopSites, waiting
  <2> QED
    BY <1>3, <2>1, <2>2 DEF InvokeClose, Values, calls, waiting, memory, flags
<1>4. CASE Cancel(c)
  <2>1. BatchHeld'
    BY <1>4, AreCalls DEF Cancel, local, Inv, Types, BatchHeld, PopSites, waiting
  <2> QED
    BY <1>4, <2>1 DEF Cancel, local, Values, calls, waiting, memory, flags
<1> QED
  BY <1>1, <1>2, <1>3, <1>4 DEF Invoke

\* The gate, the guard and the listener flag.
LEMMA GateTyped ==
  ASSUME TypeInv, NEW c \in Call, GateStep(c)
  PROVE  Values' /\ BatchHeld'
<1> USE DEF TypeInv
<1>1. CASE ProbeHeld(c)
  <2>1. ret' \in [Call -> Outcomes]
    BY <1>1, AreOutcomes DEF ProbeHeld, Return, Values
  <2>2. BatchHeld'
    BY <1>1, AreCalls DEF ProbeHeld, ProbeSites, Goto, Return, Inv, Types,
       BatchHeld, PopSites, waiting
  <2> QED
    BY <1>1, <2>1, <2>2 DEF ProbeHeld, Values, calls, waiting, memory, flags
<1>2. CASE ProbeFree(c)
  <2>1. BatchHeld'
    BY <1>2, AreCalls DEF ProbeFree, Inv, Types, BatchHeld, PopSites, waiting
  <2> QED
    BY <1>2, <2>1 DEF ProbeFree, Values, calls, waiting, memory, flags
<1>3. CASE ProbeDone(c)
  <2>1. BatchHeld'
    BY <1>3, AreCalls DEF ProbeDone, ProbeSites, TokensHeld, Goto, Inv, Types,
       BatchHeld, PopSites, waiting
  <2> QED
    BY <1>3, <2>1 DEF ProbeDone, Values, calls, waiting, memory, flags
<1>4. CASE TakeMutate(c)
  <2>1. BatchHeld'
    BY <1>4, AreCalls DEF TakeMutate, Inv, Types, BatchHeld, PopSites, waiting
  <2> QED
    BY <1>4, <2>1 DEF TakeMutate, Values, calls, waiting, memory, flags
<1>5. CASE TakeLock(c)
  <2>1. BatchHeld'
    BY <1>5, AreCalls DEF TakeLock, GateSites, Goto, Inv, Types, BatchHeld,
       PopSites, waiting
  <2> QED
    BY <1>5, <2>1 DEF TakeLock, Values, calls, waiting, memory, flags
<1>6. CASE LockTaken(c)
  <2>1. BatchHeld'
    BY <1>6, AreCalls DEF LockTaken, Inv, Types, BatchHeld, PopSites, waiting
  <2> QED
    BY <1>6, <2>1 DEF LockTaken, Values, calls, waiting, memory, flags
<1>7. CASE Refuse(c)
  <2>1. ret' \in [Call -> Outcomes]
    BY <1>7, AreOutcomes DEF Refuse, Return, Values
  <2>2. BatchHeld'
    BY <1>7, AreCalls DEF Refuse, GateSites, Goto, Return, Inv, Types, BatchHeld,
       PopSites, waiting
  <2> QED
    BY <1>7, <2>1, <2>2 DEF Refuse, Values, calls, waiting, memory, flags
<1>8. CASE LockOnly(c)
  <2>1. ret' \in [Call -> Outcomes]
    BY <1>8, AreOutcomes DEF LockOnly, Return, Values
  <2>2. BatchHeld'
    BY <1>8, AreCalls DEF LockOnly, LockSites, Goto, Return, Inv, Types,
       BatchHeld, PopSites, waiting
  <2> QED
    BY <1>8, <2>1, <2>2 DEF LockOnly, Values, calls, waiting, memory, flags
<1>9. CASE DropLock(c)
  <2>1. BatchHeld'
    BY <1>9, AreCalls DEF DropLock, LeaveSites, TokensHeld, GateAt, GateSites,
       Goto, Inv, Types, BatchHeld, PopSites, waiting
  <2> QED
    BY <1>9, <2>1 DEF DropLock, Values, calls, waiting, memory, flags
<1>10. CASE DropMutate(c)
  <2>1. BatchHeld'
    BY <1>10, AreCalls DEF DropMutate, LeaveSites, Goto, Inv, Types, BatchHeld,
       PopSites, waiting
  <2> QED
    BY <1>10, <2>1 DEF DropMutate, Values, calls, waiting, memory, flags
<1>11. CASE BeginDispatch(c)
  <2>1. BatchHeld'
    BY <1>11, AreCalls DEF BeginDispatch, Inv, Types, BatchHeld, PopSites, waiting
  <2> QED
    BY <1>11, <2>1 DEF BeginDispatch, Values, calls, waiting, memory, flags
<1>12. CASE EndDispatch(c)
  <2>1. BatchHeld'
    BY <1>12, AreCalls DEF EndDispatch, EmitSites, Told, Goto, Inv, Types,
       BatchHeld, PopSites, waiting
  <2> QED
    BY <1>12, <2>1 DEF EndDispatch, Values, calls, waiting, memory, flags
<1>13. CASE NoDispatch(c)
  <2>1. BatchHeld'
    BY <1>13, AreCalls DEF NoDispatch, EmitSites, Told, Goto, Inv, Types,
       BatchHeld, PopSites, waiting
  <2> QED
    BY <1>13, <2>1 DEF NoDispatch, Values, calls, waiting, memory, flags
<1>14. CASE Read(c)
  <2>1. ret' \in [Call -> Outcomes]
    BY <1>14, AreOutcomes DEF Read, Values
  <2>2. BatchHeld'
    BY <1>14, AreCalls DEF Read, Goto, Inv, Types, BatchHeld, PopSites, waiting
  <2> QED
    BY <1>14, <2>1, <2>2 DEF Read, Values, calls, waiting, memory, flags
<1>15. CASE Shut(c)
  <2>1. ret' \in [Call -> Outcomes]
    BY <1>15, AreOutcomes DEF Shut, Values
  <2>2. BatchHeld'
    BY <1>15, AreCalls DEF Shut, Goto, Inv, Types, BatchHeld, PopSites, waiting
  <2> QED
    BY <1>15, <2>1, <2>2 DEF Shut, Values, calls, waiting, memory, flags
<1> QED
  BY <1>1, <1>2, <1>3, <1>4, <1>5, <1>6, <1>7, <1>8, <1>9, <1>10, <1>11, <1>12,
     <1>13, <1>14, <1>15 DEF GateStep

\* A mutation, queued or under the gate.
LEMMA MutatorTyped ==
  ASSUME TypeInv, NEW c \in Call, c \in Mutators, MutatorStep(c)
  PROVE  Values' /\ BatchHeld'
<1> USE DEF TypeInv
<1>1. CASE LockQueue(c)
  <2>1. BatchHeld'
    BY <1>1, AreCalls DEF LockQueue, Goto, Inv, Types, BatchHeld, PopSites, waiting
  <2> QED
    BY <1>1, <2>1 DEF LockQueue, Values, calls, waiting, memory, flags
<1>2. CASE Enqueue(c)
  <2>1. queue' \in Seq(Mutators) /\ arrivals' \in Seq(Mutators)
    BY <1>2 DEF Enqueue, Values
  <2>2. BatchHeld'
    BY <1>2, AreCalls DEF Enqueue, Goto, Inv, Types, BatchHeld, PopSites, waiting
  <2> QED
    BY <1>2, <2>1, <2>2 DEF Enqueue, Values, calls, waiting, memory, flags
<1>3. CASE UnlockQueue(c)
  <2>1. BatchHeld'
    BY <1>3, AreCalls DEF UnlockQueue, Goto, Inv, Types, BatchHeld, PopSites,
       waiting
  <2> QED
    BY <1>3, <2>1 DEF UnlockQueue, Values, calls, waiting, memory, flags
<1>4. CASE Receive(c)
  <2>1. ret' \in [Call -> Outcomes]
    BY <1>4, AreOutcomes DEF Receive, Return, Values
  <2>2. BatchHeld'
    BY <1>4, AreCalls DEF Receive, Goto, Return, Inv, Types, BatchHeld, PopSites,
       waiting
  <2> QED
    BY <1>4, <2>1, <2>2 DEF Receive, Values, calls, waiting, memory, flags
<1>5. CASE Insert(c)
  <2>1. ret' \in [Call -> Outcomes]
    BY <1>5, ResultsAre DEF Insert, Values
  <2>2. UNCHANGED effects \/ effects' = Append(effects, c)
    BY <1>5 DEF Insert, Record
  <2>4. effects' \in Seq(Call)
    <3>1. effects \in Seq(Call)
      BY DEF TypeInv, Values
    <3> QED
      BY <2>2, <3>1, AppendProperties
  <2>3. BatchHeld'
    BY <1>5, AreCalls DEF Insert, Goto, Inv, Types, BatchHeld, PopSites, waiting
  <2> QED
    BY <1>5, <2>1, <2>3, <2>4 DEF Insert, Values, calls, waiting, memory, flags
<1>6. CASE Attach(c)
  <2>1. ret' \in [Call -> Outcomes]
    BY <1>6, AreOutcomes, ResultsAre DEF Attach, Values
  <2>2. pending' \in Nat /\ fired' \in Nat /\ pending' + fired' =< MaxActivations
    BY <1>6, GateAssumption DEF Attach, Matched, Values, memory
  <2>3. BatchHeld'
    BY <1>6, AreCalls DEF Attach, Goto, Inv, Types, BatchHeld, PopSites, waiting
  <2> QED
    BY <1>6, <2>1, <2>2, <2>3 DEF Attach, Values, calls, waiting, memory, flags
<1> QED
  BY <1>1, <1>2, <1>3, <1>4, <1>5, <1>6 DEF MutatorStep

\* The loop of a run, but for its requests.
LEMMA LoopTyped ==
  ASSUME TypeInv, NEW c \in Call, c \in Runners, RunnerStep(c)
  PROVE  Values' /\ BatchHeld'
<1> USE DEF TypeInv
<1>1. CASE BeginRun(c)
  <2>1. BatchHeld'
    BY <1>1, AreCalls DEF BeginRun, Goto, Inv, Types, BatchHeld, PopSites, waiting
  <2> QED
    BY <1>1, <2>1 DEF BeginRun, Values, calls, waiting, memory, flags
<1>2. CASE RefuseRun(c)
  <2>1. ret' \in [Call -> Outcomes]
    BY <1>2, AreOutcomes DEF RefuseRun, Values
  <2>2. BatchHeld'
    BY <1>2, AreCalls DEF RefuseRun, Goto, Inv, Types, BatchHeld, PopSites, waiting
  <2> QED
    BY <1>2, <2>1, <2>2 DEF RefuseRun, Values, calls, waiting, memory, flags
<1>3. CASE QueryWithoutProof(c)
  <2>1. BatchHeld'
    BY <1>3, AreCalls DEF QueryWithoutProof, Goto, Inv, Types, BatchHeld,
       PopSites, waiting
  <2> QED
    BY <1>3, <2>1 DEF QueryWithoutProof, Values, calls, waiting, memory, flags
<1>4. CASE Top(c)
  <2>1. err' \in [Runners -> Outcomes]
    BY <1>4, AreOutcomes DEF Top, Abort, Values
  <2>2. BatchHeld'
    BY <1>4, AreCalls DEF Top, Abort, Goto, Inv, Types, BatchHeld, PopSites, waiting
  <2> QED
    BY <1>4, <2>1, <2>2 DEF Top, Values, calls, waiting, memory, flags
<1>5. CASE Pop(c)
  <2>1. batch' \in [Runners -> Seq(Mutators)]
    BY <1>5 DEF Pop, Values
  <2>2. BatchHeld'
    BY <1>5, AreCalls, <2>1 DEF Pop, Goto, Inv, Types, BatchHeld, PopSites, waiting
  <2> QED
    BY <1>5, <2>1, <2>2 DEF Pop, Values, calls, waiting, memory, flags
<1>6. CASE DrainNext(c)
  <2>1. BatchHeld'
    BY <1>6, AreCalls DEF DrainNext, Goto, Inv, Types, BatchHeld, PopSites, waiting
  <2> QED
    BY <1>6, <2>1 DEF DrainNext, Values, calls, waiting, memory, flags
<1>7. CASE DrainSkip(c)
  <2>1. batch' \in [Runners -> Seq(Mutators)]
    BY <1>7 DEF DrainSkip, Values
  <2>2. answer' \in [Mutators -> Outcomes]
    BY <1>7, AreOutcomes DEF DrainSkip, Values
  <2>3. BatchHeld'
    BY <1>7, AreCalls DEF DrainSkip, local, Inv, Types, BatchHeld, PopSites, waiting
  <2> QED
    BY <1>7, <2>1, <2>2, <2>3 DEF DrainSkip, local, Values, calls, waiting,
       memory, flags
<1>8. CASE DrainCanceled(c)
  <2>1. batch' \in [Runners -> Seq(Mutators)]
    BY <1>8 DEF DrainCanceled, Values
  <2>2. answer' \in [Mutators -> Outcomes]
    BY <1>8, AreOutcomes DEF DrainCanceled, AnswerAll, Values
  <2>3. err' \in [Runners -> Outcomes]
    BY <1>8, AreOutcomes DEF DrainCanceled, Abort, Values
  <2>4. BatchHeld'
    BY <1>8, AreCalls, <2>1 DEF DrainCanceled, Abort, Goto, Inv, Types,
       BatchHeld, PopSites, waiting
  <2> QED
    BY <1>8, <2>1, <2>2, <2>3, <2>4 DEF DrainCanceled, Values, calls, waiting,
       memory, flags
<1>9. CASE DrainDenied(c)
  <2>1. batch' \in [Runners -> Seq(Mutators)]
    BY <1>9 DEF DrainDenied, Values
  <2>2. answer' \in [Mutators -> Outcomes]
    BY <1>9, AreOutcomes DEF DrainDenied, Values
  <2>3. err' \in [Runners -> Outcomes]
    BY <1>9, AreOutcomes DEF DrainDenied, Abort, Values
  <2>4. BatchHeld'
    BY <1>9, AreCalls, <2>1 DEF DrainDenied, Abort, Goto, Inv, Types, BatchHeld,
       PopSites, waiting
  <2> QED
    BY <1>9, <2>1, <2>2, <2>3, <2>4 DEF DrainDenied, Values, calls, waiting,
       memory, flags
<1>10. CASE DrainInsert(c)
  <2>1. Head(batch[c]) \in Mutators
    BY <1>10 DEF DrainInsert, Values, BatchHeld, PopSites
  <2>5. UNCHANGED effects \/ effects' = Append(effects, Head(batch[c]))
    BY <1>10 DEF DrainInsert, Record
  <2>2. effects' \in Seq(Call)
    <3>1. Head(batch[c]) \in Call /\ effects \in Seq(Call)
      BY <2>1, AreCalls DEF TypeInv, Values
    <3> QED
      BY <2>5, <3>1, AppendProperties
  <2>3. outcome' \in [Runners -> Outcomes]
    BY <1>10, <2>1, AreCalls, ResultsAre DEF DrainInsert, Values
  <2>4. BatchHeld'
    BY <1>10, AreCalls DEF DrainInsert, Goto, Inv, Types, BatchHeld, PopSites,
       waiting
  <2> QED
    BY <1>10, <2>1, <2>2, <2>3, <2>4 DEF DrainInsert, Values, calls, waiting,
       memory, flags
<1>11. CASE DrainAnswer(c)
  <2>1. Head(batch[c]) \in Mutators /\ Tail(batch[c]) \in Seq(Mutators)
    BY <1>11 DEF DrainAnswer, Values, BatchHeld, PopSites
  <2>2. batch' \in [Runners -> Seq(Mutators)]
    BY <1>11, <2>1 DEF DrainAnswer, Values
  <2>3. answer' \in [Mutators -> Outcomes]
    BY <1>11, <2>1, ResultsAre DEF DrainAnswer, Values
  <2>4. pending' \in Nat /\ fired' \in Nat /\ pending' + fired' =< MaxActivations
    BY <1>11, GateAssumption DEF DrainAnswer, Matched, Values, memory
  <2>5. BatchHeld'
    BY <1>11, AreCalls DEF DrainAnswer, Goto, Inv, Types, BatchHeld, PopSites,
       waiting
  <2> QED
    BY <1>11, <2>1, <2>2, <2>3, <2>4, <2>5 DEF DrainAnswer, Values, calls,
       waiting, memory, flags
<1>12. CASE DrainBreak(c)
  <2>1. batch' \in [Runners -> Seq(Mutators)]
    BY <1>12 DEF DrainBreak, Values
  <2>2. answer' \in [Mutators -> Outcomes]
    BY <1>12, AreOutcomes DEF DrainBreak, Values
  <2>3. err' \in [Runners -> Outcomes]
    BY <1>12, AreOutcomes DEF DrainBreak, Abort, Values
  <2>4. BatchHeld'
    BY <1>12, AreCalls, <2>1 DEF DrainBreak, Abort, Goto, Inv, Types, BatchHeld,
       PopSites, waiting
  <2> QED
    BY <1>12, <2>1, <2>2, <2>3, <2>4 DEF DrainBreak, Values, calls, waiting,
       memory, flags
<1>13. CASE Precheck(c)
  <2>1. err' \in [Runners -> Outcomes]
    BY <1>13, AreOutcomes DEF Precheck, Abort, Values
  <2>2. BatchHeld'
    BY <1>13, AreCalls DEF Precheck, Abort, Goto, Inv, Types, BatchHeld,
       PopSites, waiting
  <2> QED
    BY <1>13, <2>1, <2>2 DEF Precheck, Values, calls, waiting, memory, flags
<1>14. CASE Check(c)
  <2>1. ret' \in [Call -> Outcomes]
    BY <1>14, AreOutcomes DEF Check, Values
  <2>2. pending' \in Nat /\ fired' \in Nat /\ pending' + fired' =< MaxActivations
    BY <1>14, GateAssumption DEF Check, Values
  <2>3. BatchHeld'
    BY <1>14, AreCalls DEF Check, Goto, Inv, Types, BatchHeld, PopSites, waiting
  <2> QED
    BY <1>14, <2>1, <2>2, <2>3 DEF Check, Values, calls, waiting, memory, flags
<1>15. CASE Act(c)
  <2>1. UNCHANGED effects \/ effects' = Append(effects, c)
    BY <1>15 DEF Act
  <2>2. effects \in Seq(Call)
    BY <1>15 DEF Values
  <2>3. Append(effects, c) \in Seq(Call)
    BY <1>15, <2>2 DEF Values
  <2>4. effects' \in Seq(Call)
    BY <1>15, <2>1, <2>2, <2>3 DEF Values
  <2>5. err' \in [Runners -> Outcomes]
    BY <1>15, AreOutcomes DEF Act, Abort, Values
  <2>6. BatchHeld'
    BY <1>15, AreCalls DEF Act, Abort, Goto, Inv, Types, BatchHeld, PopSites,
       waiting
  <2> QED
    BY <1>15, <2>1, <2>2, <2>3, <2>4, <2>5, <2>6 DEF Act, Values, calls, waiting,
       memory, flags
<1>16. CASE ActRefused(c)
  <2>1. err' \in [Runners -> Outcomes]
    BY <1>16, AreOutcomes DEF ActRefused, Abort, Values
  <2>2. BatchHeld'
    BY <1>16, AreCalls DEF ActRefused, Abort, Goto, Inv, Types, BatchHeld,
       PopSites, waiting
  <2> QED
    BY <1>16, <2>1, <2>2 DEF ActRefused, Values, calls, waiting, memory, flags
<1>17. CASE Acted(c)
  <2>1. pending' \in Nat /\ fired' \in Nat /\ pending' + fired' =< MaxActivations
    BY <1>17, GateAssumption DEF Acted, Matched, Values, memory
  <2>2. err' \in [Runners -> Outcomes]
    BY <1>17, AreOutcomes DEF Acted, Abort, Values
  <2>3. BatchHeld'
    BY <1>17, AreCalls DEF Acted, Abort, Goto, Inv, Types, BatchHeld, PopSites,
       waiting
  <2>4. dirty' \in BOOLEAN
    BY <1>17 DEF Acted, Values
  <2> QED
    BY <1>17, <2>1, <2>2, <2>3, <2>4 DEF Acted, Values, calls, waiting, memory, flags
<1>18. CASE FailQueued(c)
  <2>1. ret' \in [Call -> Outcomes]
    BY <1>18, AreOutcomes DEF FailQueued, Values
  <2>2. answer' \in [Mutators -> Outcomes]
    BY <1>18, AreOutcomes DEF FailQueued, Values
  <2>3. BatchHeld'
    BY <1>18, AreCalls DEF FailQueued, Goto, Inv, Types, BatchHeld, PopSites,
       waiting
  <2> QED
    BY <1>18, <2>1, <2>2, <2>3 DEF FailQueued, Values, calls, waiting, memory, flags
<1>19. CASE EndRun(c)
  <2>1. ret' \in [Call -> Outcomes]
    BY <1>19, AreOutcomes DEF EndRun, Values
  <2>2. BatchHeld'
    BY <1>19, AreCalls DEF EndRun, Goto, Inv, Types, BatchHeld, PopSites,
       waiting
  <2> QED
    BY <1>19, <2>1, <2>2 DEF EndRun, Values, calls, waiting, memory, flags
<1>20. CASE Cleanup(c)
  <2>1. BatchHeld'
    BY <1>20, AreCalls DEF Cleanup, Goto, Inv, Types, BatchHeld, PopSites, waiting
  <2> QED
    BY <1>20, <2>1 DEF Cleanup, Values, calls, waiting, memory, flags
<1> QED
  BY <1>1, <1>2, <1>3, <1>4, <1>5, <1>6, <1>7, <1>8, <1>9, <1>10, <1>11, <1>12,
     <1>13, <1>14, <1>15, <1>16, <1>17, <1>18, <1>19, <1>20 DEF RunnerStep

LEMMA NextTyped == TypeInv /\ [Next]_vars => TypeInv'
<1> SUFFICES ASSUME TypeInv, [Next]_vars PROVE TypeInv'
  OBVIOUS
<1>1. Inv'
  BY NextInv DEF TypeInv
<1>2. Values' /\ BatchHeld'
  <2>1. CASE UNCHANGED vars \/ Quiet
    BY <2>1 DEF TypeInv, Values, BatchHeld, Quiet, vars, local, calls, tokens,
       waiting,
                memory, flags
  <2>2. ASSUME NEW c \in Call, Invoke(c) \/ Cancel(c) \/ Step(c)
        PROVE  Values' /\ BatchHeld'
    BY <2>2, InvokeTyped, GateTyped, MutatorTyped, LoopTyped DEF Step
  <2> QED
    BY <2>1, <2>2 DEF Next
<1> QED
  BY <1>1, <1>2 DEF TypeInv

LEMMA SpecTyped == Spec => []TypeInv
<1>1. Init => TypeInv
  BY InitInv, InitTyped DEF TypeInv
<1> QED
  BY <1>1, NextTyped, PTL DEF Spec

\* Every variable keeps its range, however many activations become eligible.
THEOREM GateTypesKept == Spec => []TypeOK
BY SpecTyped, TypesGiveOK, PTL

----------------------------------------------------------------------------
\* Every request that was ever queued is somebody's, was queued once, and is the
\* business of a call that waits for its answer or has returned.  What waits is
\* the end of what was queued, and has no answer.
QueueInv ==
  /\ Len(Waiting) =< Len(arrivals)
  /\ \A i \in 1 .. Len(Waiting) : Waiting[i] = arrivals[Len(arrivals) - Len(Waiting) + i]
  /\ \A i, j \in 1 .. Len(arrivals) : arrivals[i] = arrivals[j] => i = j
  /\ \A i \in 1 .. Len(arrivals) : pc[arrivals[i]] \in {"wait", "done"}
  /\ \A m \in Mutators : answer[m] # "none" => \E i \in 1 .. Len(arrivals) : arrivals[i] = m
  /\ \A i \in 1 .. Len(Waiting) : answer[Waiting[i]] = "none"

LEMMA InitQueue == Init => QueueInv
<1> SUFFICES ASSUME Init PROVE QueueInv
  OBVIOUS
<1>1. Waiting = <<>>
  BY DEF Init, Waiting
<1> QED
  BY <1>1 DEF Init, QueueInv

\* The end of the queue is what InOrder says it is.
LEMMA QueueInOrder ==
  ASSUME QueueInv, Waiting \in Seq(Mutators), arrivals \in Seq(Mutators)
  PROVE  InOrder
<1> DEFINE n == Len(arrivals)
           w == Len(Waiting)
<1>1. n \in Nat /\ w \in Nat /\ w =< n
  BY DEF QueueInv
<1>2. \A i \in (n - w + 1) .. n : arrivals[i] \in Mutators
  BY <1>1
<1>3. /\ SubSeq(arrivals, n - w + 1, n) \in Seq(Mutators)
      /\ Len(SubSeq(arrivals, n - w + 1, n))
           = IF n - w + 1 =< n THEN n - (n - w + 1) + 1 ELSE 0
      /\ \A i \in 1 .. n - (n - w + 1) + 1 :
           SubSeq(arrivals, n - w + 1, n)[i] = arrivals[(n - w + 1) + i - 1]
  <2> HIDE DEF n, w
  <2> QED
    BY <1>1, <1>2, SubSeqProperties
<1>4. Len(SubSeq(arrivals, n - w + 1, n)) = w
  BY <1>1, <1>3
<1>5. \A i \in 1 .. w : Waiting[i] = SubSeq(arrivals, n - w + 1, n)[i]
  <2> SUFFICES ASSUME NEW i \in 1 .. w
               PROVE  Waiting[i] = SubSeq(arrivals, n - w + 1, n)[i]
    OBVIOUS
  <2>1. Waiting[i] = arrivals[n - w + i]
    BY DEF QueueInv
  <2>2. i \in 1 .. n - (n - w + 1) + 1 /\ (n - w + 1) + i - 1 = n - w + i
    BY <1>1
  <2> QED
    BY <2>1, <2>2, <1>3
<1>6. Waiting = SubSeq(arrivals, n - w + 1, n)
  BY <1>3, <1>4, <1>5, SeqEqual
<1> QED
  BY <1>6 DEF InOrder, Served, QueueInv

\* The oldest k requests get their answers and leave.
LEMMA Leaving ==
  ASSUME TypeInv, QueueInv, Waiting \in Seq(Mutators), Waiting' \in Seq(Mutators),
         NEW k \in 0 .. Len(Waiting), Len(Waiting') = Len(Waiting) - k,
         \A i \in 1 .. Len(Waiting') : Waiting'[i] = Waiting[k + i],
         UNCHANGED arrivals,
         \A m \in Mutators : pc[m] \in {"wait", "done"} => pc'[m] \in {"wait", "done"},
         \A m \in Mutators : answer'[m] = answer[m] \/ \E i \in 1 .. k : Waiting[i] = m
  PROVE  QueueInv'
<1> DEFINE n == Len(arrivals)
           w == Len(Waiting)
<1>1. n \in Nat /\ w \in Nat /\ arrivals \in Seq(Mutators)
  BY DEF TypeInv, Values
<1>2. Len(Waiting') =< Len(arrivals')
  BY <1>1 DEF QueueInv
<1>3. ASSUME NEW i \in 1 .. Len(Waiting')
      PROVE  Waiting'[i] = arrivals'[Len(arrivals') - Len(Waiting') + i]
  <2>1. k + i \in 1 .. w
    BY <1>1
  <2>2. Waiting[k + i] = arrivals[n - w + (k + i)]
    BY <2>1 DEF QueueInv
  <2>3. n - w + (k + i) = Len(arrivals') - Len(Waiting') + i
    BY <1>1
  <2> QED
    BY <2>2, <2>3
<1>4. \A i \in 1 .. Len(arrivals') : pc'[arrivals'[i]] \in {"wait", "done"}
  <2>1. \A i \in 1 .. n : arrivals[i] \in Mutators /\ pc[arrivals[i]] \in {"wait", "done"}
    BY <1>1 DEF QueueInv
  <2>2. \A i \in 1 .. n : pc'[arrivals[i]] \in {"wait", "done"}
    BY <2>1
  <2> QED
    BY <2>2
<1>5. ASSUME NEW m \in Mutators, answer'[m] # "none"
      PROVE  \E i \in 1 .. Len(arrivals') : arrivals'[i] = m
  <2>1. CASE answer'[m] = answer[m]
    BY <1>5, <2>1 DEF QueueInv
  <2>2. CASE \E i \in 1 .. k : Waiting[i] = m
    <3>1. PICK i \in 1 .. k : Waiting[i] = m
      BY <2>2
    <3>2. i \in 1 .. w /\ n - w + i \in 1 .. n
      BY <1>1 DEF QueueInv
    <3>3. arrivals[n - w + i] = m
      BY <3>1, <3>2 DEF QueueInv
    <3> QED
      BY <3>2, <3>3
  <2> QED
    BY <2>1, <2>2
<1>6. ASSUME NEW i \in 1 .. Len(Waiting')
      PROVE  answer'[Waiting'[i]] = "none"
  <2>1. k + i \in 1 .. w /\ Waiting'[i] = Waiting[k + i]
    BY <1>1
  <2>2. answer[Waiting[k + i]] = "none" /\ Waiting[k + i] \in Mutators
    BY <2>1 DEF QueueInv
  <2>3. ASSUME NEW j \in 1 .. k, Waiting[j] = Waiting[k + i]
        PROVE  FALSE
    <3>1. j \in 1 .. w
      BY <1>1
    <3>2. arrivals[n - w + j] = arrivals[n - w + (k + i)]
      BY <2>1, <2>3, <3>1 DEF QueueInv
    <3>3. n - w + j \in 1 .. n /\ n - w + (k + i) \in 1 .. n
      BY <1>1, <2>1, <3>1 DEF QueueInv
    <3>4. n - w + j = n - w + (k + i)
      BY <3>2, <3>3 DEF QueueInv
    <3> QED
      BY <1>1, <3>4
  <2> QED
    BY <2>1, <2>2, <2>3
<1> QED
  BY <1>2, <1>3, <1>4, <1>5, <1>6 DEF QueueInv

(***************************************************************************)
(* What a step does to the queue.                                          *)
(***************************************************************************)
\* A call that waits for its answer, or has returned, does nothing else.
MovesOn == \A m \in Mutators : pc[m] \in {"wait", "done"} => pc'[m] \in {"wait", "done"}

Untouched == UNCHANGED <<queue, arrivals, batch, answer>>

\* Making a call, and cancelling one, leave the queue alone.
LEMMA InvokeKeeps ==
  ASSUME TypeInv, NEW c \in Call, Invoke(c) \/ Cancel(c)
  PROVE  MovesOn /\ Untouched
<1>1. CASE InvokeMutation(c)
  <2>1. pc[c] \notin {"wait", "done"} /\ \A m \in Call : m # c => pc'[m] = pc[m]
    BY <1>1 DEF InvokeMutation, Made, Goto, Return, TypeInv, Inv, Types
  <2>2. MovesOn
    BY <2>1, AreCalls DEF MovesOn
  <2> QED
    BY <1>1, <2>2 DEF InvokeMutation, Untouched, calls, waiting
<1>2. CASE InvokeOther(c)
  <2>1. pc[c] \notin {"wait", "done"} /\ \A m \in Call : m # c => pc'[m] = pc[m]
    BY <1>2 DEF InvokeOther, Made, Goto, Return, TypeInv, Inv, Types
  <2>2. MovesOn
    BY <2>1, AreCalls DEF MovesOn
  <2> QED
    BY <1>2, <2>2 DEF InvokeOther, Untouched, calls, waiting
<1>3. CASE InvokeClose(c)
  <2>1. pc[c] \notin {"wait", "done"} /\ \A m \in Call : m # c => pc'[m] = pc[m]
    BY <1>3 DEF InvokeClose, Made, Goto, Return, TypeInv, Inv, Types
  <2>2. MovesOn
    BY <2>1, AreCalls DEF MovesOn
  <2> QED
    BY <1>3, <2>2 DEF InvokeClose, Untouched, calls, waiting
<1>4. CASE Cancel(c)
  <2>1. UNCHANGED pc /\ \A m \in Call : m # c => pc'[m] = pc[m]
    BY <1>4 DEF Cancel, local, TypeInv, Inv, Types
  <2>2. MovesOn
    BY <2>1, AreCalls DEF MovesOn
  <2> QED
    BY <1>4, <2>2 DEF Cancel, Untouched, calls, waiting, local
<1> QED
  BY <1>1, <1>2, <1>3, <1>4 DEF Invoke

\* So do the gate, the guard and the listener flag.
LEMMA GateKeeps ==
  ASSUME TypeInv, NEW c \in Call, GateStep(c)
  PROVE  MovesOn /\ Untouched
<1>1. CASE ProbeHeld(c)
  <2>1. pc[c] \notin {"wait", "done"} /\ \A m \in Call : m # c => pc'[m] = pc[m]
    BY <1>1 DEF ProbeHeld, ProbeSites, Goto, Return, TypeInv, Inv, Types
  <2>2. MovesOn
    BY <2>1, AreCalls DEF MovesOn
  <2> QED
    BY <1>1, <2>2 DEF ProbeHeld, Untouched, calls, waiting
<1>2. CASE ProbeFree(c)
  <2>1. UNCHANGED pc /\ \A m \in Call : m # c => pc'[m] = pc[m]
    BY <1>2 DEF ProbeFree, TypeInv, Inv, Types
  <2>2. MovesOn
    BY <2>1, AreCalls DEF MovesOn
  <2> QED
    BY <1>2, <2>2 DEF ProbeFree, Untouched, calls, waiting
<1>3. CASE ProbeDone(c)
  <2>1. pc[c] \notin {"wait", "done"} /\ \A m \in Call : m # c => pc'[m] = pc[m]
    BY <1>3 DEF ProbeDone, ProbeSites, TokensHeld, Goto, TypeInv, Inv, Types
  <2>2. MovesOn
    BY <2>1, AreCalls DEF MovesOn
  <2> QED
    BY <1>3, <2>2 DEF ProbeDone, Untouched, calls, waiting
<1>4. CASE TakeMutate(c)
  <2>1. UNCHANGED pc /\ \A m \in Call : m # c => pc'[m] = pc[m]
    BY <1>4 DEF TakeMutate, TypeInv, Inv, Types
  <2>2. MovesOn
    BY <2>1, AreCalls DEF MovesOn
  <2> QED
    BY <1>4, <2>2 DEF TakeMutate, Untouched, calls, waiting
<1>5. CASE TakeLock(c)
  <2>1. pc[c] \notin {"wait", "done"} /\ \A m \in Call : m # c => pc'[m] = pc[m]
    BY <1>5 DEF TakeLock, GateSites, Goto, TypeInv, Inv, Types
  <2>2. MovesOn
    BY <2>1, AreCalls DEF MovesOn
  <2> QED
    BY <1>5, <2>2 DEF TakeLock, Untouched, calls, waiting
<1>6. CASE LockTaken(c)
  <2>1. UNCHANGED pc /\ \A m \in Call : m # c => pc'[m] = pc[m]
    BY <1>6 DEF LockTaken, TypeInv, Inv, Types
  <2>2. MovesOn
    BY <2>1, AreCalls DEF MovesOn
  <2> QED
    BY <1>6, <2>2 DEF LockTaken, Untouched, calls, waiting
<1>7. CASE Refuse(c)
  <2>1. pc[c] \notin {"wait", "done"} /\ \A m \in Call : m # c => pc'[m] = pc[m]
    BY <1>7 DEF Refuse, GateSites, Goto, Return, TypeInv, Inv, Types
  <2>2. MovesOn
    BY <2>1, AreCalls DEF MovesOn
  <2> QED
    BY <1>7, <2>2 DEF Refuse, Untouched, calls, waiting
<1>8. CASE LockOnly(c)
  <2>1. pc[c] \notin {"wait", "done"} /\ \A m \in Call : m # c => pc'[m] = pc[m]
    BY <1>8 DEF LockOnly, LockSites, Goto, Return, TypeInv, Inv, Types
  <2>2. MovesOn
    BY <2>1, AreCalls DEF MovesOn
  <2> QED
    BY <1>8, <2>2 DEF LockOnly, Untouched, calls, waiting
<1>9. CASE DropLock(c)
  <2>1. pc[c] \notin {"wait", "done"} /\ \A m \in Call : m # c => pc'[m] = pc[m]
    BY <1>9 DEF DropLock, LeaveSites, TokensHeld, GateAt, GateSites, Goto,
       TypeInv, Inv, Types
  <2>2. MovesOn
    BY <2>1, AreCalls DEF MovesOn
  <2> QED
    BY <1>9, <2>2 DEF DropLock, Untouched, calls, waiting
<1>10. CASE DropMutate(c)
  <2>1. pc[c] \notin {"wait", "done"} /\ \A m \in Call : m # c => pc'[m] = pc[m]
    BY <1>10 DEF DropMutate, LeaveSites, Goto, TypeInv, Inv, Types
  <2>2. MovesOn
    BY <2>1, AreCalls DEF MovesOn
  <2> QED
    BY <1>10, <2>2 DEF DropMutate, Untouched, calls, waiting
<1>11. CASE BeginDispatch(c)
  <2>1. UNCHANGED pc /\ \A m \in Call : m # c => pc'[m] = pc[m]
    BY <1>11 DEF BeginDispatch, TypeInv, Inv, Types
  <2>2. MovesOn
    BY <2>1, AreCalls DEF MovesOn
  <2> QED
    BY <1>11, <2>2 DEF BeginDispatch, Untouched, calls, waiting
<1>12. CASE EndDispatch(c)
  <2>1. pc[c] \notin {"wait", "done"} /\ \A m \in Call : m # c => pc'[m] = pc[m]
    BY <1>12 DEF EndDispatch, EmitSites, Told, Goto, TypeInv, Inv, Types
  <2>2. MovesOn
    BY <2>1, AreCalls DEF MovesOn
  <2> QED
    BY <1>12, <2>2 DEF EndDispatch, Untouched, calls, waiting
<1>13. CASE NoDispatch(c)
  <2>1. pc[c] \notin {"wait", "done"} /\ \A m \in Call : m # c => pc'[m] = pc[m]
    BY <1>13 DEF NoDispatch, EmitSites, Told, Goto, TypeInv, Inv, Types
  <2>2. MovesOn
    BY <2>1, AreCalls DEF MovesOn
  <2> QED
    BY <1>13, <2>2 DEF NoDispatch, Untouched, calls, waiting
<1>14. CASE Read(c)
  <2>1. pc[c] \notin {"wait", "done"} /\ \A m \in Call : m # c => pc'[m] = pc[m]
    BY <1>14 DEF Read, Goto, TypeInv, Inv, Types
  <2>2. MovesOn
    BY <2>1, AreCalls DEF MovesOn
  <2> QED
    BY <1>14, <2>2 DEF Read, Untouched, calls, waiting
<1>15. CASE Shut(c)
  <2>1. pc[c] \notin {"wait", "done"} /\ \A m \in Call : m # c => pc'[m] = pc[m]
    BY <1>15 DEF Shut, Goto, TypeInv, Inv, Types
  <2>2. MovesOn
    BY <2>1, AreCalls DEF MovesOn
  <2> QED
    BY <1>15, <2>2 DEF Shut, Untouched, calls, waiting
<1> QED
  BY <1>1, <1>2, <1>3, <1>4, <1>5, <1>6, <1>7, <1>8, <1>9, <1>10, <1>11, <1>12,
     <1>13, <1>14, <1>15 DEF GateStep

\* A mutation only joins the queue.
LEMMA MutatorKeeps ==
  ASSUME TypeInv, NEW c \in Call, c \in Mutators, MutatorStep(c)
  PROVE  MovesOn /\ (Untouched \/ Enqueue(c))
<1>1. CASE LockQueue(c)
  <2>1. pc[c] \notin {"wait", "done"} /\ \A m \in Call : m # c => pc'[m] = pc[m]
    BY <1>1 DEF LockQueue, Goto, TypeInv, Inv, Types
  <2>2. MovesOn
    BY <2>1, AreCalls DEF MovesOn
  <2> QED
    BY <1>1, <2>2 DEF LockQueue, Untouched, calls, waiting
<1>2. CASE Enqueue(c)
  <2>1. pc[c] \notin {"wait", "done"} /\ \A m \in Call : m # c => pc'[m] = pc[m]
    BY <1>2 DEF Enqueue, Goto, TypeInv, Inv, Types
  <2>2. MovesOn
    BY <2>1, AreCalls DEF MovesOn
  <2> QED
    BY <1>2, <2>2
<1>3. CASE UnlockQueue(c)
  <2>1. pc[c] \notin {"wait", "done"} /\ \A m \in Call : m # c => pc'[m] = pc[m]
    BY <1>3 DEF UnlockQueue, Goto, TypeInv, Inv, Types
  <2>2. MovesOn
    BY <2>1, AreCalls DEF MovesOn
  <2> QED
    BY <1>3, <2>2 DEF UnlockQueue, Untouched, calls, waiting
<1>4. CASE Receive(c)
  <2>1. pc'[c] = "done" /\ \A m \in Call : m # c => pc'[m] = pc[m]
    BY <1>4 DEF Receive, Goto, Return, TypeInv, Inv, Types
  <2>2. MovesOn
    BY <2>1, AreCalls DEF MovesOn
  <2> QED
    BY <1>4, <2>2 DEF Receive, Untouched, calls, waiting
<1>5. CASE Insert(c)
  <2>1. pc[c] \notin {"wait", "done"} /\ \A m \in Call : m # c => pc'[m] = pc[m]
    BY <1>5 DEF Insert, Goto, TypeInv, Inv, Types
  <2>2. MovesOn
    BY <2>1, AreCalls DEF MovesOn
  <2> QED
    BY <1>5, <2>2 DEF Insert, Untouched, calls, waiting
<1>6. CASE Attach(c)
  <2>1. pc[c] \notin {"wait", "done"} /\ \A m \in Call : m # c => pc'[m] = pc[m]
    BY <1>6 DEF Attach, Goto, TypeInv, Inv, Types
  <2>2. MovesOn
    BY <2>1, AreCalls DEF MovesOn
  <2> QED
    BY <1>6, <2>2 DEF Attach, Untouched, calls, waiting
<1> QED
  BY <1>1, <1>2, <1>3, <1>4, <1>5, <1>6 DEF MutatorStep

\* A run pops it and answers it.
LEMMA LoopKeeps ==
  ASSUME TypeInv, NEW c \in Call, c \in Runners, RunnerStep(c)
  PROVE  /\ MovesOn
         /\ \/ Untouched \/ Pop(c) \/ DrainSkip(c) \/ DrainCanceled(c)
            \/ DrainDenied(c) \/ DrainAnswer(c) \/ DrainBreak(c) \/ FailQueued(c)
<1>1. CASE BeginRun(c)
  <2>1. pc[c] \notin {"wait", "done"} /\ \A m \in Call : m # c => pc'[m] = pc[m]
    BY <1>1 DEF BeginRun, Goto, TypeInv, Inv, Types
  <2>2. MovesOn
    BY <2>1, AreCalls DEF MovesOn
  <2> QED
    BY <1>1, <2>2 DEF BeginRun, Untouched, calls, waiting
<1>2. CASE RefuseRun(c)
  <2>1. pc[c] \notin {"wait", "done"} /\ \A m \in Call : m # c => pc'[m] = pc[m]
    BY <1>2 DEF RefuseRun, Goto, TypeInv, Inv, Types
  <2>2. MovesOn
    BY <2>1, AreCalls DEF MovesOn
  <2> QED
    BY <1>2, <2>2 DEF RefuseRun, Untouched, calls, waiting
<1>3. CASE QueryWithoutProof(c)
  <2>1. pc[c] \notin {"wait", "done"} /\ \A m \in Call : m # c => pc'[m] = pc[m]
    BY <1>3 DEF QueryWithoutProof, Goto, TypeInv, Inv, Types
  <2>2. MovesOn
    BY <2>1, AreCalls DEF MovesOn
  <2> QED
    BY <1>3, <2>2 DEF QueryWithoutProof, Untouched, calls, waiting
<1>4. CASE Top(c)
  <2>1. pc[c] \notin {"wait", "done"} /\ \A m \in Call : m # c => pc'[m] = pc[m]
    BY <1>4 DEF Top, Abort, Goto, TypeInv, Inv, Types
  <2>2. MovesOn
    BY <2>1, AreCalls DEF MovesOn
  <2> QED
    BY <1>4, <2>2 DEF Top, Untouched, calls, waiting
<1>5. CASE Pop(c)
  <2>1. pc[c] \notin {"wait", "done"} /\ \A m \in Call : m # c => pc'[m] = pc[m]
    BY <1>5 DEF Pop, Goto, TypeInv, Inv, Types
  <2>2. MovesOn
    BY <2>1, AreCalls DEF MovesOn
  <2> QED
    BY <1>5, <2>2
<1>6. CASE DrainNext(c)
  <2>1. pc[c] \notin {"wait", "done"} /\ \A m \in Call : m # c => pc'[m] = pc[m]
    BY <1>6 DEF DrainNext, Goto, TypeInv, Inv, Types
  <2>2. MovesOn
    BY <2>1, AreCalls DEF MovesOn
  <2> QED
    BY <1>6, <2>2 DEF DrainNext, Untouched, calls, waiting
<1>7. CASE DrainSkip(c)
  <2>1. pc[c] \notin {"wait", "done"} /\ \A m \in Call : m # c => pc'[m] = pc[m]
    BY <1>7 DEF DrainSkip, local, TypeInv, Inv, Types
  <2>2. MovesOn
    BY <2>1, AreCalls DEF MovesOn
  <2> QED
    BY <1>7, <2>2
<1>8. CASE DrainCanceled(c)
  <2>1. pc[c] \notin {"wait", "done"} /\ \A m \in Call : m # c => pc'[m] = pc[m]
    BY <1>8 DEF DrainCanceled, Abort, Goto, TypeInv, Inv, Types
  <2>2. MovesOn
    BY <2>1, AreCalls DEF MovesOn
  <2> QED
    BY <1>8, <2>2
<1>9. CASE DrainDenied(c)
  <2>1. pc[c] \notin {"wait", "done"} /\ \A m \in Call : m # c => pc'[m] = pc[m]
    BY <1>9 DEF DrainDenied, Abort, Goto, TypeInv, Inv, Types
  <2>2. MovesOn
    BY <2>1, AreCalls DEF MovesOn
  <2> QED
    BY <1>9, <2>2
<1>10. CASE DrainInsert(c)
  <2>1. pc[c] \notin {"wait", "done"} /\ \A m \in Call : m # c => pc'[m] = pc[m]
    BY <1>10 DEF DrainInsert, Goto, TypeInv, Inv, Types
  <2>2. MovesOn
    BY <2>1, AreCalls DEF MovesOn
  <2> QED
    BY <1>10, <2>2 DEF DrainInsert, Untouched, calls, waiting
<1>11. CASE DrainAnswer(c)
  <2>1. pc[c] \notin {"wait", "done"} /\ \A m \in Call : m # c => pc'[m] = pc[m]
    BY <1>11 DEF DrainAnswer, Goto, TypeInv, Inv, Types
  <2>2. MovesOn
    BY <2>1, AreCalls DEF MovesOn
  <2> QED
    BY <1>11, <2>2
<1>12. CASE DrainBreak(c)
  <2>1. pc[c] \notin {"wait", "done"} /\ \A m \in Call : m # c => pc'[m] = pc[m]
    BY <1>12 DEF DrainBreak, Abort, Goto, TypeInv, Inv, Types
  <2>2. MovesOn
    BY <2>1, AreCalls DEF MovesOn
  <2> QED
    BY <1>12, <2>2
<1>13. CASE Precheck(c)
  <2>1. pc[c] \notin {"wait", "done"} /\ \A m \in Call : m # c => pc'[m] = pc[m]
    BY <1>13 DEF Precheck, Abort, Goto, TypeInv, Inv, Types
  <2>2. MovesOn
    BY <2>1, AreCalls DEF MovesOn
  <2> QED
    BY <1>13, <2>2 DEF Precheck, Untouched, calls, waiting
<1>14. CASE Check(c)
  <2>1. pc[c] \notin {"wait", "done"} /\ \A m \in Call : m # c => pc'[m] = pc[m]
    BY <1>14 DEF Check, Goto, TypeInv, Inv, Types
  <2>2. MovesOn
    BY <2>1, AreCalls DEF MovesOn
  <2> QED
    BY <1>14, <2>2 DEF Check, Untouched, calls, waiting
<1>15. CASE Act(c)
  <2>1. pc[c] \notin {"wait", "done"} /\ \A m \in Call : m # c => pc'[m] = pc[m]
    BY <1>15 DEF Act, Abort, Goto, TypeInv, Inv, Types
  <2>2. MovesOn
    BY <2>1, AreCalls DEF MovesOn
  <2> QED
    BY <1>15, <2>2 DEF Act, Untouched, calls, waiting
<1>16. CASE ActRefused(c)
  <2>1. pc[c] \notin {"wait", "done"} /\ \A m \in Call : m # c => pc'[m] = pc[m]
    BY <1>16 DEF ActRefused, Abort, Goto, TypeInv, Inv, Types
  <2>2. MovesOn
    BY <2>1, AreCalls DEF MovesOn
  <2> QED
    BY <1>16, <2>2 DEF ActRefused, Untouched, calls, waiting
<1>17. CASE Acted(c)
  <2>1. pc[c] \notin {"wait", "done"} /\ \A m \in Call : m # c => pc'[m] = pc[m]
    BY <1>17 DEF Acted, Abort, Goto, TypeInv, Inv, Types
  <2>2. MovesOn
    BY <2>1, AreCalls DEF MovesOn
  <2> QED
    BY <1>17, <2>2 DEF Acted, Untouched, calls, waiting
<1>18. CASE FailQueued(c)
  <2>1. pc[c] \notin {"wait", "done"} /\ \A m \in Call : m # c => pc'[m] = pc[m]
    BY <1>18 DEF FailQueued, Goto, TypeInv, Inv, Types
  <2>2. MovesOn
    BY <2>1, AreCalls DEF MovesOn
  <2> QED
    BY <1>18, <2>2
<1>19. CASE EndRun(c)
  <2>1. pc[c] \notin {"wait", "done"} /\ \A m \in Call : m # c => pc'[m] = pc[m]
    BY <1>19 DEF EndRun, Goto, Return, TypeInv, Inv, Types
  <2>2. MovesOn
    BY <2>1, AreCalls DEF MovesOn
  <2> QED
    BY <1>19, <2>2 DEF EndRun, Untouched, calls, waiting
<1>20. CASE Cleanup(c)
  <2>1. pc[c] \notin {"wait", "done"} /\ \A m \in Call : m # c => pc'[m] = pc[m]
    BY <1>20 DEF Cleanup, Goto, TypeInv, Inv, Types
  <2>2. MovesOn
    BY <2>1, AreCalls DEF MovesOn
  <2> QED
    BY <1>20, <2>2 DEF Cleanup, Untouched, calls, waiting
<1> QED
  BY <1>1, <1>2, <1>3, <1>4, <1>5, <1>6, <1>7, <1>8, <1>9, <1>10, <1>11, <1>12,
     <1>13, <1>14, <1>15, <1>16, <1>17, <1>18, <1>19, <1>20 DEF RunnerStep

----------------------------------------------------------------------------
\* Waiting, of the batches and of the queue.
WaitingOf(b, q) == LET Popped == {r \in Runners : b[r] # <<>>}
                   IN  IF Popped = {} THEN q
                       ELSE b[CHOOSE r \in Popped : TRUE] \o q

LEMMA WaitingIs == Waiting = WaitingOf(batch, queue) /\ Waiting' = WaitingOf(batch', queue')
BY DEF Waiting, WaitingOf

LEMMA WaitingTyped ==
  ASSUME NEW b \in [Runners -> Seq(Mutators)], NEW q \in Seq(Mutators)
  PROVE  WaitingOf(b, q) \in Seq(Mutators)
<1> DEFINE Popped == {r \in Runners : b[r] # <<>>}
           r0 == CHOOSE r \in Popped : TRUE
<1>1. CASE Popped = {}
  BY <1>1 DEF WaitingOf
<1>2. CASE Popped # {}
  <2>1. r0 \in Runners
    BY <1>2
  <2>2. b[r0] \o q \in Seq(Mutators)
    BY <2>1, ConcatProperties
  <2> QED
    BY <1>2, <2>2 DEF WaitingOf
<1> QED
  BY <1>1, <1>2

\* Where only one run has popped requests, they are the oldest.
LEMMA WaitingAt ==
  ASSUME NEW b \in [Runners -> Seq(Mutators)], NEW q \in Seq(Mutators), NEW c \in Runners,
         \A r \in Runners : r # c => b[r] = <<>>
  PROVE  WaitingOf(b, q) = b[c] \o q
<1> DEFINE Popped == {r \in Runners : b[r] # <<>>}
<1>1. CASE b[c] = <<>>
  <2>1. Popped = {}
    BY <1>1
  <2>2. <<>> \o q = q
    BY ConcatEmptySeq
  <2> QED
    BY <1>1, <2>1, <2>2 DEF WaitingOf
<1>2. CASE b[c] # <<>>
  <2>1. Popped = {c}
    BY <1>2
  <2>2. (CHOOSE r \in Popped : TRUE) = c
    BY <2>1
  <2> QED
    BY <2>1, <2>2 DEF WaitingOf
<1> QED
  BY <1>1, <1>2

\* The guard has one holder: no other run has popped requests.
LEMMA Alone ==
  ASSUME TypeInv, NEW c \in Runners, pc[c] \in RunSites
  PROVE  \A r \in Runners : r # c => batch[r] = <<>>
<1>1. ASSUME NEW r \in Runners, r # c, batch[r] # <<>>
      PROVE  FALSE
  <2>1. pc[r] \in RunSites
    BY <1>1 DEF TypeInv, BatchHeld, PopSites, RunSites, LoopSites
  <2>2. r \in GuardHolders /\ c \in GuardHolders
    BY <2>1, AreCalls DEF GuardHolders
  <2> QED
    BY <1>1, <2>2 DEF TypeInv, Inv, TokensHeld, Accounts
<1> QED
  BY <1>1

\* A run answers the oldest k of what waits and keeps b of its batch.
RunAnswers(c, b, k) ==
  /\ batch' = [batch EXCEPT ![c] = b] /\ UNCHANGED arrivals
  /\ k \in 0 .. Len(batch[c] \o queue)
  /\ Len(b \o queue') = Len(batch[c] \o queue) - k
  /\ \A i \in 1 .. Len(b \o queue') : (b \o queue')[i] = (batch[c] \o queue)[k + i]
  /\ \A m \in Mutators : answer'[m] = answer[m]
                           \/ \E i \in 1 .. k : (batch[c] \o queue)[i] = m

LEMMA RunLeaves ==
  ASSUME TypeInv, TypeInv', QueueInv, MovesOn, NEW c \in Runners, pc[c] \in RunSites,
         NEW b, NEW k, RunAnswers(c, b, k)
  PROVE  QueueInv'
<1> USE DEF RunAnswers
<1>1. \A r \in Runners : r # c => batch[r] = <<>>
  BY Alone
<1>2. Waiting = batch[c] \o queue
  BY <1>1, WaitingIs, WaitingAt DEF TypeInv, Values
<1>3. batch' \in [Runners -> Seq(Mutators)] /\ queue' \in Seq(Mutators) /\ batch'[c] = b
      /\ \A r \in Runners : r # c => batch'[r] = <<>>
  BY <1>1 DEF TypeInv, Values
<1>4. Waiting' = b \o queue'
  BY <1>3, WaitingIs, WaitingAt
<1>5. Waiting \in Seq(Mutators) /\ Waiting' \in Seq(Mutators)
  BY <1>3, WaitingIs, WaitingTyped DEF TypeInv, Values
<1> HIDE DEF Waiting
<1> QED
  BY <1>2, <1>4, <1>5, Leaving DEF MovesOn

(***************************************************************************)
(* The steps that do touch it.                                             *)
(***************************************************************************)
LEMMA TailConcat ==
  ASSUME NEW s \in Seq(Mutators), s # <<>>, NEW t \in Seq(Mutators)
  PROVE  /\ Len(s \o t) >= 1 /\ (s \o t)[1] = Head(s)
         /\ Len(Tail(s) \o t) = Len(s \o t) - 1
         /\ \A i \in 1 .. Len(Tail(s) \o t) : (Tail(s) \o t)[i] = (s \o t)[1 + i]
<1>1. /\ Tail(s) \in Seq(Mutators) /\ Len(Tail(s)) = Len(s) - 1
      /\ \A i \in 1 .. Len(Tail(s)) : Tail(s)[i] = s[i + 1]
      /\ Len(s) \in Nat /\ Len(s) >= 1 /\ Len(t) \in Nat /\ Head(s) = s[1]
  BY HeadTailProperties
<1>2. /\ Len(s \o t) = Len(s) + Len(t)
      /\ \A i \in 1 .. Len(s) + Len(t) :
           (s \o t)[i] = IF i <= Len(s) THEN s[i] ELSE t[i - Len(s)]
  BY ConcatProperties
<1>3. /\ Len(Tail(s) \o t) = Len(Tail(s)) + Len(t)
      /\ \A i \in 1 .. Len(Tail(s)) + Len(t) :
           (Tail(s) \o t)[i] = IF i <= Len(Tail(s)) THEN Tail(s)[i] ELSE t[i - Len(Tail(s))]
  BY <1>1, ConcatProperties
<1>4. ASSUME NEW i \in 1 .. Len(Tail(s) \o t)
      PROVE  (Tail(s) \o t)[i] = (s \o t)[1 + i]
  <2>1. i \in 1 .. Len(Tail(s)) + Len(t) /\ 1 + i \in 1 .. Len(s) + Len(t)
    BY <1>1, <1>3
  <2>2. CASE i <= Len(Tail(s))
    BY <1>1, <1>2, <1>3, <2>1, <2>2
  <2>3. CASE i > Len(Tail(s))
    <3>1. (Tail(s) \o t)[i] = t[i - Len(Tail(s))]
      BY <1>1, <1>3, <2>1, <2>3
    <3>2. (s \o t)[1 + i] = t[(1 + i) - Len(s)]
      BY <1>1, <1>2, <2>1, <2>3
    <3>3. i - Len(Tail(s)) = (1 + i) - Len(s)
      BY <1>1
    <3> QED
      BY <3>1, <3>2, <3>3
  <2> QED
    BY <1>1, <2>1, <2>2, <2>3
<1> QED
  BY <1>1, <1>2, <1>3, <1>4

LEMMA DropConcat ==
  ASSUME NEW s \in Seq(Mutators), NEW t \in Seq(Mutators)
  PROVE  /\ Len(s) \in 0 .. Len(s \o t)
         /\ Len(<<>> \o t) = Len(s \o t) - Len(s)
         /\ \A i \in 1 .. Len(<<>> \o t) : (<<>> \o t)[i] = (s \o t)[Len(s) + i]
         /\ \A i \in 1 .. Len(s) : (s \o t)[i] = s[i]
<1>1. <<>> \o t = t /\ Len(s) \in Nat /\ Len(t) \in Nat
  BY ConcatEmptySeq
<1>2. /\ Len(s \o t) = Len(s) + Len(t)
      /\ \A i \in 1 .. Len(s) + Len(t) :
           (s \o t)[i] = IF i <= Len(s) THEN s[i] ELSE t[i - Len(s)]
  BY ConcatProperties
<1>3. ASSUME NEW i \in 1 .. Len(t)
      PROVE  t[i] = (s \o t)[Len(s) + i]
  <2>1. Len(s) + i \in 1 .. Len(s) + Len(t) /\ ~(Len(s) + i <= Len(s))
        /\ (Len(s) + i) - Len(s) = i
    BY <1>1
  <2> QED
    BY <1>2, <2>1
<1> QED
  BY <1>1, <1>2, <1>3

\* The mutex's owner takes the whole queue.
LEMMA PopQueue ==
  ASSUME TypeInv, TypeInv', QueueInv, MovesOn, NEW c \in Runners, Pop(c)
  PROVE  QueueInv'
<1>1. /\ pc[c] \in RunSites /\ batch[c] = <<>> /\ batch' = [batch EXCEPT ![c] = queue]
      /\ queue' = <<>> /\ UNCHANGED <<arrivals, answer>>
  BY DEF Pop, RunSites, LoopSites, calls
<1>2. queue \in Seq(Mutators)
  BY DEF TypeInv, Values
<1>3. queue \o queue' = queue /\ batch[c] \o queue = queue
  BY <1>1, <1>2, ConcatEmptySeq
<1>4. 0 \in 0 .. Len(batch[c] \o queue)
  BY <1>2, <1>3
<1>5. Len(queue \o queue') = Len(batch[c] \o queue) - 0
      /\ \A i \in 1 .. Len(queue \o queue') :
           (queue \o queue')[i] = (batch[c] \o queue)[0 + i]
  BY <1>2, <1>3
<1>9. RunAnswers(c, queue, 0)
  BY <1>1, <1>4, <1>5 DEF RunAnswers
<1> QED
  BY <1>1, <1>9, RunLeaves

\* The oldest request is answered.
LEMMA AnswerOldest ==
  ASSUME TypeInv, TypeInv', QueueInv, MovesOn, NEW c \in Runners,
         DrainSkip(c) \/ DrainAnswer(c)
  PROVE  QueueInv'
<1>1. /\ pc[c] \in PopSites /\ batch[c] # <<>>
      /\ batch' = [batch EXCEPT ![c] = Tail(batch[c])]
      /\ queue' = queue /\ UNCHANGED arrivals
      /\ \A m \in Mutators : m # Head(batch[c]) => answer'[m] = answer[m]
  BY DEF DrainSkip, DrainAnswer, PopSites, TypeInv, BatchHeld, Values
<1>2. batch[c] \in Seq(Mutators) /\ queue \in Seq(Mutators)
  BY DEF TypeInv, Values
<1>3. pc[c] \in RunSites
  BY <1>1 DEF PopSites, RunSites, LoopSites
<1>4. 1 \in 0 .. Len(batch[c] \o queue)
  <2>1. batch[c] \o queue \in Seq(Mutators)
    BY <1>2, ConcatProperties
  <2> QED
    BY <1>1, <1>2, <2>1, TailConcat
<1>5. \A m \in Mutators : answer'[m] = answer[m]
                            \/ \E i \in 1 .. 1 : (batch[c] \o queue)[i] = m
  <2>1. (batch[c] \o queue)[1] = Head(batch[c]) /\ 1 \in 1 .. 1
    BY <1>1, <1>2, TailConcat
  <2> QED
    BY <1>1, <2>1
<1>6. /\ Len(Tail(batch[c]) \o queue') = Len(batch[c] \o queue) - 1
      /\ \A i \in 1 .. Len(Tail(batch[c]) \o queue') :
           (Tail(batch[c]) \o queue')[i] = (batch[c] \o queue)[1 + i]
  BY <1>1, <1>2, TailConcat
<1>9. RunAnswers(c, Tail(batch[c]), 1)
  BY <1>1, <1>4, <1>5, <1>6 DEF RunAnswers
<1> QED
  BY <1>1, <1>3, <1>9, RunLeaves

\* Every request popped is answered or forgotten.
LEMMA DropBatch ==
  ASSUME TypeInv, TypeInv', QueueInv, MovesOn, NEW c \in Runners,
         DrainCanceled(c) \/ DrainDenied(c) \/ DrainBreak(c)
  PROVE  QueueInv'
<1>1. /\ pc[c] \in PopSites /\ batch[c] # <<>>
      /\ batch' = [batch EXCEPT ![c] = <<>>]
      /\ queue' = queue /\ UNCHANGED arrivals
  BY DEF DrainCanceled, DrainDenied, DrainBreak, PopSites, TypeInv, BatchHeld
<1>2. batch[c] \in Seq(Mutators) /\ queue \in Seq(Mutators)
  BY DEF TypeInv, Values
<1>3. pc[c] \in RunSites
  BY <1>1 DEF PopSites, RunSites, LoopSites
<1>4. \A m \in Mutators : answer'[m] = answer[m] \/ m \in Elems(batch[c])
  <2>1. Head(batch[c]) \in Elems(batch[c])
    BY <1>1, <1>2 DEF Elems
  <2> QED
    BY <2>1 DEF DrainCanceled, DrainDenied, DrainBreak, AnswerAll, TypeInv, Values
<1>5. \A m \in Mutators : answer'[m] = answer[m]
                            \/ \E i \in 1 .. Len(batch[c]) : (batch[c] \o queue)[i] = m
  <2>1. ASSUME NEW m \in Elems(batch[c])
        PROVE  \E i \in 1 .. Len(batch[c]) : batch[c][i] = m
    BY <1>2 DEF Elems
  <2> QED
    BY <1>2, <1>4, <2>1, DropConcat
<1> DEFINE k == Len(batch[c])
<1>6. /\ k \in 0 .. Len(batch[c] \o queue)
      /\ Len(<<>> \o queue') = Len(batch[c] \o queue) - k
      /\ \A i \in 1 .. Len(<<>> \o queue') :
           (<<>> \o queue')[i] = (batch[c] \o queue)[k + i]
  BY <1>1, <1>2, DropConcat
<1>9. RunAnswers(c, <<>>, k)
  BY <1>1, <1>5, <1>6 DEF RunAnswers
<1> QED
  BY <1>1, <1>3, <1>9, RunLeaves

\* A run that is abandoned answers the queue.
LEMMA DropQueue ==
  ASSUME TypeInv, TypeInv', QueueInv, MovesOn, NEW c \in Runners, FailQueued(c)
  PROVE  QueueInv'
<1>1. /\ pc[c] = "abort" /\ queue' = <<>> /\ UNCHANGED <<arrivals, batch>>
      /\ \A m \in Mutators : answer'[m] = answer[m] \/ m \in Elems(queue)
  BY DEF FailQueued, TypeInv, Values
<1>2. batch[c] = <<>> /\ pc[c] \in RunSites
  BY <1>1 DEF TypeInv, BatchHeld, PopSites, RunSites, LoopSites
<1>3. batch' = [batch EXCEPT ![c] = <<>>]
  BY <1>1, <1>2 DEF TypeInv, Values
<1>4. queue \in Seq(Mutators)
  BY DEF TypeInv, Values
<1>5. batch[c] \o queue = queue /\ Len(<<>> \o queue') = 0
  BY <1>1, <1>2, <1>4, ConcatEmptySeq
<1>6. \A m \in Mutators : answer'[m] = answer[m]
                            \/ \E i \in 1 .. Len(queue) : (batch[c] \o queue)[i] = m
  BY <1>1, <1>4, <1>5 DEF Elems
<1> DEFINE k == Len(queue)
<1>7. /\ k \in 0 .. Len(batch[c] \o queue)
      /\ Len(<<>> \o queue') = Len(batch[c] \o queue) - k
      /\ \A i \in 1 .. Len(<<>> \o queue') :
           (<<>> \o queue')[i] = (batch[c] \o queue)[k + i]
  BY <1>4, <1>5
<1>9. RunAnswers(c, <<>>, k)
  BY <1>1, <1>3, <1>6, <1>7 DEF RunAnswers
<1> QED
  BY <1>1, <1>2, <1>9, RunLeaves

\* A request goes to the end of what waits.
LEMMA WaitingGrows ==
  ASSUME NEW b \in [Runners -> Seq(Mutators)], NEW q \in Seq(Mutators), NEW m \in Mutators
  PROVE  WaitingOf(b, Append(q, m)) = Append(WaitingOf(b, q), m)
<1> DEFINE Popped == {r \in Runners : b[r] # <<>>}
           r0 == CHOOSE r \in Popped : TRUE
<1>1. CASE Popped = {}
  BY <1>1 DEF WaitingOf
<1>2. CASE Popped # {}
  <2>1. b[r0] \in Seq(Mutators)
    BY <1>2
  <2>2. ASSUME NEW s \in Seq(Mutators)
        PROVE  s \o Append(q, m) = Append(s \o q, m)
    <3>1. <<m>> \in Seq(Mutators) /\ s \o q \in Seq(Mutators)
      BY ConcatProperties
    <3>2. Append(q, m) = q \o <<m>> /\ Append(s \o q, m) = (s \o q) \o <<m>>
      BY <3>1, AppendIsConcat
    <3> QED
      BY <3>1, <3>2, ConcatAssociative
  <2> QED
    BY <1>2, <2>1, <2>2 DEF WaitingOf
<1> QED
  BY <1>1, <1>2

LEMMA JoinQueue ==
  ASSUME TypeInv, TypeInv', QueueInv, MovesOn, NEW c \in Mutators, Enqueue(c)
  PROVE  QueueInv'
<1> DEFINE n == Len(arrivals)
           w == Len(Waiting)
<1>1. /\ arrivals \in Seq(Mutators) /\ queue \in Seq(Mutators)
      /\ batch \in [Runners -> Seq(Mutators)]
      /\ queue' = Append(queue, c) /\ arrivals' = Append(arrivals, c)
      /\ UNCHANGED <<batch, answer>> /\ pc[c] = "append" /\ pc'[c] = "wait"
  BY AreCalls DEF Enqueue, Goto, calls, TypeInv, Values, Inv, Types
<1>2. Waiting \in Seq(Mutators)
  BY <1>1, WaitingIs, WaitingTyped
<1>3. Waiting' = Append(Waiting, c)
  BY <1>1, WaitingIs, WaitingGrows
<1> HIDE DEF Waiting
<1>4. n \in Nat /\ w \in Nat /\ w =< n
  BY <1>1, <1>2 DEF QueueInv
<1>5. /\ Len(arrivals') = n + 1 /\ arrivals'[n + 1] = c
      /\ \A i \in 1 .. n : arrivals'[i] = arrivals[i]
  BY <1>1, AppendProperties
<1>6. /\ Len(Waiting') = w + 1 /\ Waiting'[w + 1] = c
      /\ \A i \in 1 .. w : Waiting'[i] = Waiting[i]
  BY <1>2, <1>3, AppendProperties
<1>7. \A i \in 1 .. n : arrivals[i] # c /\ arrivals[i] \in Mutators
  <2>1. \A i \in 1 .. n : pc[arrivals[i]] \in {"wait", "done"}
    BY DEF QueueInv
  <2>2. \A i \in 1 .. n : arrivals[i] \in Mutators
    BY <1>1
  <2> QED
    BY <1>1, <2>1, <2>2
<1>8. answer[c] = "none"
  BY <1>7 DEF QueueInv
<1> HIDE DEF n, w
<1>a. Len(Waiting') =< Len(arrivals')
  BY <1>4, <1>5, <1>6
<1>b. ASSUME NEW i \in 1 .. Len(Waiting')
      PROVE  Waiting'[i] = arrivals'[Len(arrivals') - Len(Waiting') + i]
  <2>1. CASE i = w + 1
    <3>1. Len(arrivals') - Len(Waiting') + i = n + 1
      BY <1>4, <1>5, <1>6, <2>1
    <3> QED
      BY <1>5, <1>6, <2>1, <3>1
  <2>2. CASE i \in 1 .. w
    <3>1. Len(arrivals') - Len(Waiting') + i = n - w + i /\ n - w + i \in 1 .. n
      BY <1>4, <1>5, <1>6, <2>2
    <3>2. Waiting[i] = arrivals[n - w + i]
      BY <2>2 DEF QueueInv, n, w
    <3> QED
      BY <1>5, <1>6, <2>2, <3>1, <3>2
  <2> QED
    BY <1>4, <1>6, <2>1, <2>2
<1>c. ASSUME NEW i \in 1 .. Len(arrivals'), NEW j \in 1 .. Len(arrivals'),
             arrivals'[i] = arrivals'[j]
      PROVE  i = j
  <2>1. (i \in 1 .. n \/ i = n + 1) /\ (j \in 1 .. n \/ j = n + 1)
    BY <1>4, <1>5
  <2>2. \A x, y \in 1 .. n : arrivals[x] = arrivals[y] => x = y
    BY DEF QueueInv, n
  <2> QED
    BY <1>5, <1>7, <1>c, <2>1, <2>2
<1>d. ASSUME NEW i \in 1 .. Len(arrivals')
      PROVE  pc'[arrivals'[i]] \in {"wait", "done"}
  <2>1. CASE i = n + 1
    BY <1>1, <1>5, <2>1
  <2>2. CASE i \in 1 .. n
    BY <1>5, <1>7, <2>2 DEF MovesOn, QueueInv, n
  <2> QED
    BY <1>4, <1>5, <2>1, <2>2
<1>e. ASSUME NEW m \in Mutators, answer'[m] # "none"
      PROVE  \E i \in 1 .. Len(arrivals') : arrivals'[i] = m
  <2>1. PICK i \in 1 .. n : arrivals[i] = m
    BY <1>1, <1>e DEF QueueInv, n
  <2> QED
    BY <1>4, <1>5, <2>1
<1>f. ASSUME NEW i \in 1 .. Len(Waiting')
      PROVE  answer'[Waiting'[i]] = "none"
  <2>1. CASE i = w + 1
    BY <1>1, <1>6, <1>8, <2>1
  <2>2. CASE i \in 1 .. w
    BY <1>1, <1>6, <2>2 DEF QueueInv, w
  <2> QED
    BY <1>4, <1>6, <2>1, <2>2
<1> QED
  BY <1>a, <1>b, <1>c, <1>d, <1>e, <1>f DEF QueueInv

\* Nothing is queued, popped or answered.
LEMMA StayQueue ==
  ASSUME TypeInv, QueueInv, MovesOn, Untouched
  PROVE  QueueInv'
<1>1. Waiting' = Waiting
  BY WaitingIs DEF Untouched, WaitingOf
<1>2. \A i \in 1 .. Len(arrivals) : pc'[arrivals[i]] \in {"wait", "done"}
  <2>1. arrivals \in Seq(Mutators)
    BY DEF TypeInv, Values
  <2>2. \A i \in 1 .. Len(arrivals) : arrivals[i] \in Mutators
    BY <2>1
  <2>3. \A i \in 1 .. Len(arrivals) : pc[arrivals[i]] \in {"wait", "done"}
    BY DEF QueueInv
  <2> QED
    BY <2>2, <2>3 DEF MovesOn
<1> HIDE DEF Waiting
<1> QED
  BY <1>1, <1>2 DEF QueueInv, Untouched

LEMMA NextQueue ==
  ASSUME TypeInv, TypeInv', QueueInv, [Next]_vars
  PROVE  QueueInv'
<1>1. CASE UNCHANGED vars \/ Quiet
  <2>1. UNCHANGED vars
    BY <1>1 DEF Quiet
  <2>2. MovesOn /\ Untouched
    BY <2>1 DEF MovesOn, Untouched, vars, local, calls, waiting
  <2> QED
    BY <2>2, StayQueue
<1>2. ASSUME NEW c \in Call, Invoke(c) \/ Cancel(c) \/ GateStep(c)
      PROVE  QueueInv'
  BY <1>2, InvokeKeeps, GateKeeps, StayQueue
<1>3. ASSUME NEW c \in Mutators, MutatorStep(c)
      PROVE  QueueInv'
  BY <1>3, AreCalls, MutatorKeeps, StayQueue, JoinQueue
<1>4. ASSUME NEW c \in Runners, RunnerStep(c)
      PROVE  QueueInv'
  <2>1. c \in Call
    BY AreCalls
  <2> QED
    BY <1>4, <2>1, LoopKeeps, StayQueue, PopQueue, AnswerOldest, DropBatch,
       DropQueue
<1> QED
  BY <1>1, <1>2, <1>3, <1>4 DEF Next, Step

\* However many mutations meet however many runs, they are served in the order
\* they were queued, and what still waits has no answer yet.
THEOREM FirstInFirstOut == Spec => []InOrder
<1>1. TypeInv /\ QueueInv => InOrder
  <2> SUFFICES ASSUME TypeInv, QueueInv PROVE InOrder
    OBVIOUS
  <2>1. Waiting \in Seq(Mutators) /\ arrivals \in Seq(Mutators)
    BY WaitingIs, WaitingTyped DEF TypeInv, Values
  <2> QED
    BY <2>1, QueueInOrder
<1>2. TypeInv /\ TypeInv' /\ QueueInv /\ [Next]_vars => QueueInv'
  BY NextQueue
<1> QED
  BY <1>1, <1>2, InitQueue, SpecTyped, PTL DEF Spec

----------------------------------------------------------------------------
\* What callers are told.

Took(m) == \E i \in DOMAIN effects : effects[i] = m

\* Where a mutation is before it touches working memory, and all it visits.
EarlySites   == {"idle", "probe", "recheck", "lockQueue", "enqueueProbe",
                 "append", "unlockQueue", "direct", "insert"}
MutatorSites == EarlySites \cup {"wait", "notify", "attach", "leave", "done"}

\* What is said only of a mutation that never takes effect, and what may be said
\* of one that is committed.
Refused == {"misuse", "failed"}
Failed  == {"error", "closed", "unsupported"}

\* What may be said of a mutation that took effect, or did not.
Agrees(what, took) ==
  /\ what \in {"ok", "canceled"} \cup Refused \cup Failed
  /\ what = "ok" => took
  /\ what \in Refused => ~took

\* A mutation at a location, with a result, that took effect or did not.
Stands(where, result, took) ==
  /\ where \in MutatorSites
  /\ where \in EarlySites => ~took
  /\ where \in {"notify", "attach"} => took /\ result = "ok"
  /\ where \in {"leave", "done"} => Agrees(result, took)

\* A caller that does not wait any more for a request that does has given up.
Awaited(m) == pc[m] = "done" => ret[m] = "canceled"

\* The run has tried the oldest of its requests and not answered it yet.
InHand(r) == pc[r] \in {"drainNotify", "drainLeave", "drainAnswer"}

RunSays(r) ==
  /\ pc[r] = "drainNotify" => outcome[r] = "ok"
  /\ pc[r] \in {"drainLeave", "drainAnswer"} => outcome[r] \in {"ok", "canceled"} \cup Failed
  /\ pc[r] = "abort" => err[r] \in {"canceled", "misuse", "failed", "closed", "unsupported"}

\* A request of a run takes effect in its turn, and has if it was a success.
InTurn(r, i) ==
  /\ Took(batch[r][i]) => i = 1 /\ InHand(r)
  /\ i = 1 /\ InHand(r) /\ outcome[r] = "ok" => Took(batch[r][i])

PromiseInv ==
  /\ \A m \in Mutators : Stands(pc[m], ret[m], Took(m))
  /\ \A m \in Mutators : answer[m] # "none" => Agrees(answer[m], Took(m))
  /\ \A r \in Runners : RunSays(r)
  /\ \A r \in Runners : \A i \in DOMAIN batch[r] :
       Awaited(batch[r][i]) /\ InTurn(r, i)
  /\ \A i \in DOMAIN queue : Awaited(queue[i]) /\ ~Took(queue[i])

LEMMA Apart == \A m \in Mutators : m \notin Runners
BY GateAssumption

LEMMA InitPromise == Init => PromiseInv
<1> SUFFICES ASSUME Init PROVE PromiseInv
  OBVIOUS
<1>1. DOMAIN effects = {} /\ DOMAIN queue = {}
      /\ \A r \in Runners : DOMAIN batch[r] = {}
  BY DEF Init
<1>2. \A m \in Mutators : pc[m] = "idle" /\ ~Took(m) /\ answer[m] = "none"
  BY <1>1, AreCalls DEF Init, Took
<1>3. \A r \in Runners : RunSays(r)
  BY AreCalls DEF Init, RunSays
<1> QED
  BY <1>1, <1>2, <1>3 DEF PromiseInv, Stands, MutatorSites, EarlySites

(***************************************************************************)
(* Steps that change nothing but where their call is and what it returns.  *)
(***************************************************************************)
Still == UNCHANGED <<queue, batch, answer, outcome, effects>>

OthersStand(c) == \A d \in Call : d # c => pc'[d] = pc[d] /\ ret'[d] = ret[d]
OthersErr(c)   == \A r \in Runners : r # c => err'[r] = err[r]

\* What a mutation may do on its own account.
Minds(c) ==
  /\ Stands(pc'[c], ret'[c], Took(c))
  /\ answer[c] = "none" /\ pc[c] \in {"wait", "done"} /\ Awaited(c) => Awaited(c)'
  /\ pc[c] = "done" => pc'[c] = "done" /\ ret'[c] = ret[c]
  /\ pc'[c] = "idle" => pc[c] = "idle"
  /\ pc[c] = "idle" /\ pc'[c] = "done" => ret'[c] = "canceled"

\* A run keeps what it has in hand.
Loops(c) == RunSays(c)' /\ (InHand(c)' <=> InHand(c))

CallStep(c) ==
  /\ Still /\ OthersStand(c) /\ OthersErr(c)
  /\ c \in Mutators => Minds(c)
  /\ c \in Runners => Loops(c)

LEMMA InvokeMinds ==
  ASSUME TypeInv, PromiseInv, NEW c \in Call, Invoke(c) \/ Cancel(c)
  PROVE  CallStep(c)
<1>1. CASE InvokeMutation(c)
  <2>1. Still /\ OthersStand(c) /\ OthersErr(c)
    BY <1>1 DEF InvokeMutation, Goto, Return, Still, OthersStand, OthersErr,
       waiting, memory, TypeInv, Inv, Types, Values
  <2>2. c \in Mutators => Minds(c)
    BY <1>1 DEF InvokeMutation, Made, Goto, Return, Minds, Stands, MutatorSites,
       EarlySites, Agrees, Awaited, PromiseInv, TypeInv, Inv, Types, Values
  <2>3. c \notin Runners
    BY <1>1, Apart DEF InvokeMutation
  <2> QED
    BY <2>1, <2>2, <2>3 DEF CallStep
<1>2. CASE InvokeOther(c)
  <2>1. Still /\ OthersStand(c) /\ OthersErr(c)
    BY <1>2 DEF InvokeOther, Goto, Return, Still, OthersStand, OthersErr,
       waiting, memory, TypeInv, Inv, Types, Values
  <2>2. c \in Runners => Loops(c)
    BY <1>2 DEF InvokeOther, Made, Goto, Return, Loops, RunSays, InHand,
       PromiseInv, TypeInv, Inv, Types, Values, waiting
  <2>3. c \notin Mutators
    BY <1>2, GateAssumption DEF InvokeOther
  <2> QED
    BY <2>1, <2>2, <2>3 DEF CallStep
<1>3. CASE InvokeClose(c)
  <2>1. Still /\ OthersStand(c) /\ OthersErr(c)
    BY <1>3 DEF InvokeClose, Goto, Return, Still, OthersStand, OthersErr,
       waiting, memory, TypeInv, Inv, Types, Values
  <2>2. c \notin Mutators /\ c \notin Runners
    BY <1>3, GateAssumption DEF InvokeClose
  <2> QED
    BY <2>1, <2>2 DEF CallStep
<1>4. CASE Cancel(c)
  <2>1. Still /\ OthersStand(c) /\ OthersErr(c)
    BY <1>4 DEF Cancel, local, Still, OthersStand, OthersErr, waiting, memory
  <2>2. c \in Mutators => Minds(c)
    BY <1>4 DEF Cancel, local, Minds, PromiseInv, Awaited
  <2>3. c \in Runners => Loops(c)
    BY <1>4 DEF Cancel, local, Loops, RunSays, InHand, PromiseInv, waiting
  <2> QED
    BY <2>1, <2>2, <2>3 DEF CallStep
<1> QED
  BY <1>1, <1>2, <1>3, <1>4 DEF Invoke

\* The gate, the guard and the listener flag, seen from a mutation and a run.
LEMMA GateMinds ==
  ASSUME TypeInv, PromiseInv, NEW c \in Call, GateStep(c)
  PROVE  CallStep(c)
<1>1. CASE ProbeHeld(c)
  <2>1. Still /\ OthersStand(c) /\ OthersErr(c)
    BY <1>1 DEF ProbeHeld, ProbeSites, Goto, Return, Still, OthersStand,
       OthersErr, TypeInv, Inv, Types, Values, calls, waiting, memory
  <2>2. c \in Mutators => Minds(c)
    BY <1>1 DEF ProbeHeld, ProbeSites, Goto, Return, Minds, Stands, MutatorSites,
       EarlySites, Agrees, Refused, Awaited, PromiseInv, TypeInv, Inv, Types,
       Values, calls
  <2>3. c \in Runners => Loops(c)
    BY <1>1, AreCalls DEF ProbeHeld, ProbeSites, Goto, Return, Loops, RunSays,
       InHand, PromiseInv, TypeInv, Inv, Types, Values, calls, waiting
  <2> QED
    BY <2>1, <2>2, <2>3 DEF CallStep
<1>2. CASE ProbeFree(c)
  <2>1. Still /\ OthersStand(c) /\ OthersErr(c)
    BY <1>2 DEF ProbeFree, Goto, Return, Still, OthersStand, OthersErr, TypeInv,
       Inv, Types, Values, calls, waiting, memory
  <2>2. c \in Mutators => Minds(c)
    BY <1>2 DEF ProbeFree, Goto, Return, Minds, Stands, MutatorSites, EarlySites,
       Agrees, Refused, Awaited, PromiseInv, TypeInv, Inv, Types, Values, calls
  <2>3. c \in Runners => Loops(c)
    BY <1>2, AreCalls DEF ProbeFree, Goto, Return, Loops, RunSays, InHand,
       PromiseInv, TypeInv, Inv, Types, Values, calls, waiting
  <2> QED
    BY <2>1, <2>2, <2>3 DEF CallStep
<1>3. CASE ProbeDone(c)
  <2>1. Still /\ OthersStand(c) /\ OthersErr(c)
    BY <1>3 DEF ProbeDone, ProbeSites, TokensHeld, Goto, Return, Still,
       OthersStand, OthersErr, TypeInv, Inv, Types, Values, calls, waiting,
       memory
  <2>2. c \in Mutators => Minds(c)
    <3>1. /\ pc[c] \in ProbeSites /\ ret' = ret
          /\ c \in Mutators => pc[c] \in EarlySites \ {"idle"}
      BY <1>3 DEF ProbeDone, ProbeSites, TokensHeld, PromiseInv, Stands,
         MutatorSites, EarlySites, TypeInv, Inv, calls
    <3>2. c \in Mutators => pc'[c] \in EarlySites \ {"idle", "leave", "done"}
      BY <1>3, <3>1 DEF ProbeDone, ProbeSites, Goto, TypeInv, Inv, Types, EarlySites
    <3> QED
      BY <3>1, <3>2 DEF Minds, Stands, MutatorSites, EarlySites, ProbeSites,
         Awaited, PromiseInv
  <2>3. c \in Runners => Loops(c)
    BY <1>3, AreCalls DEF ProbeDone, ProbeSites, TokensHeld, Goto, Return, Loops,
       RunSays, InHand, PromiseInv, TypeInv, Inv, Types, Values, calls, waiting
  <2> QED
    BY <2>1, <2>2, <2>3 DEF CallStep
<1>4. CASE TakeMutate(c)
  <2>1. Still /\ OthersStand(c) /\ OthersErr(c)
    BY <1>4 DEF TakeMutate, Goto, Return, Still, OthersStand, OthersErr, TypeInv,
       Inv, Types, Values, calls, waiting, memory
  <2>2. c \in Mutators => Minds(c)
    BY <1>4 DEF TakeMutate, Goto, Return, Minds, Stands, MutatorSites,
       EarlySites, Agrees, Refused, Awaited, PromiseInv, TypeInv, Inv, Types,
       Values, calls
  <2>3. c \in Runners => Loops(c)
    BY <1>4, AreCalls DEF TakeMutate, Goto, Return, Loops, RunSays, InHand,
       PromiseInv, TypeInv, Inv, Types, Values, calls, waiting
  <2> QED
    BY <2>1, <2>2, <2>3 DEF CallStep
<1>5. CASE TakeLock(c)
  <2>1. Still /\ OthersStand(c) /\ OthersErr(c)
    BY <1>5 DEF TakeLock, GateSites, Goto, Return, Still, OthersStand, OthersErr,
       TypeInv, Inv, Types, Values, calls, waiting, memory
  <2>2. c \in Mutators => Minds(c)
    <3> SUFFICES ASSUME c \in Mutators PROVE Minds(c)
      OBVIOUS
    <3>1. pc[c] = "direct"
      BY <1>5 DEF TakeLock, GateSites, Stands, MutatorSites, EarlySites, PromiseInv
    <3>2. pc'[c] = "insert" /\ ret'[c] = ret[c]
      BY <1>5, <3>1 DEF TakeLock, Goto, TypeInv, Inv, Types, calls
    <3> QED
      BY <3>1, <3>2 DEF Minds, Stands, MutatorSites, EarlySites, Awaited, PromiseInv
  <2>3. c \in Runners => Loops(c)
    BY <1>5, AreCalls DEF TakeLock, GateSites, Goto, Return, Loops, RunSays,
       InHand, PromiseInv, TypeInv, Inv, Types, Values, calls, waiting
  <2> QED
    BY <2>1, <2>2, <2>3 DEF CallStep
<1>6. CASE LockTaken(c)
  <2>1. Still /\ OthersStand(c) /\ OthersErr(c)
    BY <1>6 DEF LockTaken, Goto, Return, Still, OthersStand, OthersErr, TypeInv,
       Inv, Types, Values, calls, waiting, memory
  <2>2. c \in Mutators => Minds(c)
    BY <1>6 DEF LockTaken, Goto, Return, Minds, Stands, MutatorSites, EarlySites,
       Agrees, Refused, Awaited, PromiseInv, TypeInv, Inv, Types, Values, calls
  <2>3. c \in Runners => Loops(c)
    BY <1>6, AreCalls DEF LockTaken, Goto, Return, Loops, RunSays, InHand,
       PromiseInv, TypeInv, Inv, Types, Values, calls, waiting
  <2> QED
    BY <2>1, <2>2, <2>3 DEF CallStep
<1>7. CASE Refuse(c)
  <2>1. Still /\ OthersStand(c) /\ OthersErr(c)
    BY <1>7 DEF Refuse, GateSites, Goto, Return, Still, OthersStand, OthersErr,
       TypeInv, Inv, Types, Values, calls, waiting, memory
  <2>2. c \in Mutators => Minds(c)
    BY <1>7 DEF Refuse, GateSites, Goto, Return, Minds, Stands, MutatorSites,
       EarlySites, Agrees, Refused, Awaited, PromiseInv, TypeInv, Inv, Types,
       Values, calls
  <2>3. c \in Runners => Loops(c)
    BY <1>7, AreCalls DEF Refuse, GateSites, Goto, Return, Loops, RunSays,
       InHand, PromiseInv, TypeInv, Inv, Types, Values, calls, waiting
  <2> QED
    BY <2>1, <2>2, <2>3 DEF CallStep
<1>8. CASE LockOnly(c)
  <2>1. Still /\ OthersStand(c) /\ OthersErr(c)
    BY <1>8 DEF LockOnly, LockSites, Goto, Return, Still, OthersStand, OthersErr,
       TypeInv, Inv, Types, Values, calls, waiting, memory
  <2>2. c \in Mutators => Minds(c)
    BY <1>8 DEF LockOnly, LockSites, Goto, Return, Minds, Stands, MutatorSites,
       EarlySites, Agrees, Refused, Awaited, PromiseInv, TypeInv, Inv, Types,
       Values, calls
  <2>3. c \in Runners => Loops(c)
    BY <1>8, AreCalls DEF LockOnly, LockSites, Goto, Return, Loops, RunSays,
       InHand, PromiseInv, TypeInv, Inv, Types, Values, calls, waiting
  <2> QED
    BY <2>1, <2>2, <2>3 DEF CallStep
<1>9. CASE DropLock(c)
  <2>1. Still /\ OthersStand(c) /\ OthersErr(c)
    BY <1>9 DEF DropLock, LeaveSites, TokensHeld, GateAt, GateSites, Goto,
       Return, Still, OthersStand, OthersErr, TypeInv, Inv, Types, Values, calls,
       waiting, memory
  <2>2. c \in Mutators => Minds(c)
    BY <1>9 DEF DropLock, LeaveSites, TokensHeld, GateAt, GateSites, Goto,
       Return, Minds, Stands, MutatorSites, EarlySites, Agrees, Refused, Awaited,
       PromiseInv, TypeInv, Inv, Types, Values, calls
  <2>3. c \in Runners => Loops(c)
    BY <1>9, AreCalls DEF DropLock, LeaveSites, TokensHeld, GateAt, GateSites,
       Goto, Return, Loops, RunSays, InHand, PromiseInv, TypeInv, Inv, Types,
       Values, calls, waiting
  <2> QED
    BY <2>1, <2>2, <2>3 DEF CallStep
<1>10. CASE DropMutate(c)
  <2>1. Still /\ OthersStand(c) /\ OthersErr(c)
    BY <1>10 DEF DropMutate, LeaveSites, Goto, Return, Still, OthersStand,
       OthersErr, TypeInv, Inv, Types, Values, calls, waiting, memory
  <2>2. c \in Mutators => Minds(c)
    BY <1>10 DEF DropMutate, LeaveSites, Goto, Return, Minds, Stands,
       MutatorSites, EarlySites, Agrees, Refused, Awaited, PromiseInv, TypeInv,
       Inv, Types, Values, calls
  <2>3. c \in Runners => Loops(c)
    BY <1>10, AreCalls DEF DropMutate, LeaveSites, Goto, Return, Loops, RunSays,
       InHand, PromiseInv, TypeInv, Inv, Types, Values, calls, waiting
  <2> QED
    BY <2>1, <2>2, <2>3 DEF CallStep
<1>11. CASE BeginDispatch(c)
  <2>1. Still /\ OthersStand(c) /\ OthersErr(c)
    BY <1>11 DEF BeginDispatch, Goto, Return, Still, OthersStand, OthersErr,
       TypeInv, Inv, Types, Values, calls, waiting, memory
  <2>2. c \in Mutators => Minds(c)
    BY <1>11 DEF BeginDispatch, Goto, Return, Minds, Stands, MutatorSites,
       EarlySites, Agrees, Refused, Awaited, PromiseInv, TypeInv, Inv, Types,
       Values, calls
  <2>3. c \in Runners => Loops(c)
    BY <1>11, AreCalls DEF BeginDispatch, Goto, Return, Loops, RunSays, InHand,
       PromiseInv, TypeInv, Inv, Types, Values, calls, waiting
  <2> QED
    BY <2>1, <2>2, <2>3 DEF CallStep
<1>12. CASE EndDispatch(c)
  <2>1. Still /\ OthersStand(c) /\ OthersErr(c)
    BY <1>12 DEF EndDispatch, EmitSites, Told, Goto, Return, Still, OthersStand,
       OthersErr, TypeInv, Inv, Types, Values, calls, waiting, memory
  <2>2. c \in Mutators => Minds(c)
    <3> SUFFICES ASSUME c \in Mutators PROVE Minds(c)
      OBVIOUS
    <3>1. pc[c] = "notify"
      BY <1>12 DEF EndDispatch, EmitSites, Stands, MutatorSites, EarlySites, PromiseInv
    <3>2. pc'[c] = "attach" /\ ret'[c] = ret[c]
      BY <1>12, <3>1 DEF EndDispatch, Told, Goto, TypeInv, Inv, Types, calls
    <3> QED
      BY <3>1, <3>2 DEF Minds, Stands, MutatorSites, EarlySites, Awaited, PromiseInv
  <2>3. c \in Runners => Loops(c)
    BY <1>12, AreCalls DEF EndDispatch, EmitSites, Told, Goto, Return, Loops,
       RunSays, InHand, PromiseInv, TypeInv, Inv, Types, Values, calls, waiting
  <2> QED
    BY <2>1, <2>2, <2>3 DEF CallStep
<1>13. CASE NoDispatch(c)
  <2>1. Still /\ OthersStand(c) /\ OthersErr(c)
    BY <1>13 DEF NoDispatch, EmitSites, Told, Goto, Return, Still, OthersStand,
       OthersErr, TypeInv, Inv, Types, Values, calls, waiting, memory
  <2>2. c \in Mutators => Minds(c)
    <3> SUFFICES ASSUME c \in Mutators PROVE Minds(c)
      OBVIOUS
    <3>1. pc[c] = "notify"
      BY <1>13 DEF NoDispatch, EmitSites, Stands, MutatorSites, EarlySites, PromiseInv
    <3>2. pc'[c] = "attach" /\ ret'[c] = ret[c]
      BY <1>13, <3>1 DEF NoDispatch, Told, Goto, TypeInv, Inv, Types, calls
    <3> QED
      BY <3>1, <3>2 DEF Minds, Stands, MutatorSites, EarlySites, Awaited, PromiseInv
  <2>3. c \in Runners => Loops(c)
    BY <1>13, AreCalls DEF NoDispatch, EmitSites, Told, Goto, Return, Loops,
       RunSays, InHand, PromiseInv, TypeInv, Inv, Types, Values, calls, waiting
  <2> QED
    BY <2>1, <2>2, <2>3 DEF CallStep
<1>14. CASE Read(c)
  <2>1. Still /\ OthersStand(c) /\ OthersErr(c)
    BY <1>14 DEF Read, Goto, Return, Still, OthersStand, OthersErr, TypeInv, Inv,
       Types, Values, calls, waiting, memory
  <2>2. c \in Mutators => Minds(c)
    BY <1>14 DEF Read, Goto, Return, Minds, Stands, MutatorSites, EarlySites,
       Agrees, Refused, Awaited, PromiseInv, TypeInv, Inv, Types, Values, calls
  <2>3. c \in Runners => Loops(c)
    BY <1>14, AreCalls DEF Read, Goto, Return, Loops, RunSays, InHand,
       PromiseInv, TypeInv, Inv, Types, Values, calls, waiting
  <2> QED
    BY <2>1, <2>2, <2>3 DEF CallStep
<1>15. CASE Shut(c)
  <2>1. Still /\ OthersStand(c) /\ OthersErr(c)
    BY <1>15 DEF Shut, Goto, Return, Still, OthersStand, OthersErr, TypeInv, Inv,
       Types, Values, calls, waiting, memory
  <2>2. c \in Mutators => Minds(c)
    BY <1>15 DEF Shut, Goto, Return, Minds, Stands, MutatorSites, EarlySites,
       Agrees, Refused, Awaited, PromiseInv, TypeInv, Inv, Types, Values, calls
  <2>3. c \in Runners => Loops(c)
    BY <1>15, AreCalls DEF Shut, Goto, Return, Loops, RunSays, InHand,
       PromiseInv, TypeInv, Inv, Types, Values, calls, waiting
  <2> QED
    BY <2>1, <2>2, <2>3 DEF CallStep
<1> QED
  BY <1>1, <1>2, <1>3, <1>4, <1>5, <1>6, <1>7, <1>8, <1>9, <1>10, <1>11, <1>12, <1>13,
       <1>14, <1>15 DEF GateStep

\* A mutation that neither joins the queue nor takes effect.
LEMMA MutatorMinds ==
  ASSUME TypeInv, PromiseInv, NEW c \in Mutators,
         LockQueue(c) \/ UnlockQueue(c) \/ Receive(c) \/ Attach(c)
  PROVE  CallStep(c)
<1>0. c \in Call
  BY AreCalls
<1>1. CASE LockQueue(c)
  <2>1. Still /\ OthersStand(c) /\ OthersErr(c)
    BY <1>0, <1>1 DEF LockQueue, Goto, Return, Still, OthersStand, OthersErr, TypeInv,
       Inv, Types, Values, calls, waiting, memory
  <2>2. c \in Mutators => Minds(c)
    BY <1>0, <1>1 DEF LockQueue, Goto, Return, Minds, Stands, MutatorSites, EarlySites,
       Agrees, Refused, Awaited, PromiseInv, TypeInv, Inv, Types, Values, calls
  <2> QED
    BY <2>1, <2>2, Apart DEF CallStep
<1>2. CASE UnlockQueue(c)
  <2>1. Still /\ OthersStand(c) /\ OthersErr(c)
    BY <1>0, <1>2 DEF UnlockQueue, Goto, Return, Still, OthersStand, OthersErr,
       TypeInv, Inv, Types, Values, calls, waiting, memory
  <2>2. c \in Mutators => Minds(c)
    BY <1>0, <1>2 DEF UnlockQueue, Goto, Return, Minds, Stands, MutatorSites,
       EarlySites, Agrees, Refused, Awaited, PromiseInv, TypeInv, Inv, Types,
       Values, calls
  <2> QED
    BY <2>1, <2>2, Apart DEF CallStep
<1>3. CASE Receive(c)
  <2>1. Still /\ OthersStand(c) /\ OthersErr(c)
    BY <1>0, <1>3 DEF Receive, Goto, Return, Still, OthersStand, OthersErr, TypeInv,
       Inv, Types, Values, calls, waiting, memory
  <2>2. c \in Mutators => Minds(c)
    BY <1>0, <1>3 DEF Receive, Goto, Return, Minds, Stands, MutatorSites, EarlySites,
       Agrees, Refused, Awaited, PromiseInv, TypeInv, Inv, Types, Values, calls
  <2> QED
    BY <2>1, <2>2, Apart DEF CallStep
<1>4. CASE Attach(c)
  <2>1. Still /\ OthersStand(c) /\ OthersErr(c)
    BY <1>0, <1>4 DEF Attach, Goto, Return, Still, OthersStand, OthersErr, TypeInv,
       Inv, Types, Values, calls, waiting, memory
  <2>2. c \in Mutators => Minds(c)
    BY <1>0, <1>4 DEF Attach, Reconciled, Goto, Return, Minds, Stands, MutatorSites,
       EarlySites, Agrees, Refused, Failed, Awaited, PromiseInv, TypeInv, Inv,
       Types, Values, calls
  <2> QED
    BY <2>1, <2>2, Apart DEF CallStep
<1> QED
  BY <1>1, <1>2, <1>3, <1>4

\* A run that neither answers a request nor changes working memory.
LEMMA LoopMinds ==
  ASSUME TypeInv, PromiseInv, NEW c \in Runners,
         \/ BeginRun(c) \/ RefuseRun(c) \/ QueryWithoutProof(c) \/ Top(c)
         \/ DrainNext(c) \/ Precheck(c) \/ Check(c) \/ ActRefused(c)
         \/ Acted(c) \/ EndRun(c) \/ Cleanup(c)
  PROVE  CallStep(c)
<1>0. c \in Call
  BY AreCalls
<1>1. CASE BeginRun(c)
  <2>1. Still /\ OthersStand(c) /\ OthersErr(c)
    BY <1>0, <1>1 DEF BeginRun, Goto, Return, Still, OthersStand, OthersErr, TypeInv,
       Inv, Types, Values, calls, waiting, memory
  <2>2. c \in Runners => Loops(c)
    BY <1>0, <1>1 DEF BeginRun, Goto, Return, Loops, RunSays, InHand,
       PromiseInv, TypeInv, Inv, Types, Values, calls, waiting
  <2> QED
    BY <2>1, <2>2, Apart DEF CallStep
<1>2. CASE RefuseRun(c)
  <2>1. Still /\ OthersStand(c) /\ OthersErr(c)
    BY <1>0, <1>2 DEF RefuseRun, Goto, Return, Still, OthersStand, OthersErr, TypeInv,
       Inv, Types, Values, calls, waiting, memory
  <2>2. c \in Runners => Loops(c)
    BY <1>0, <1>2 DEF RefuseRun, Goto, Return, Loops, RunSays, InHand,
       PromiseInv, TypeInv, Inv, Types, Values, calls, waiting
  <2> QED
    BY <2>1, <2>2, Apart DEF CallStep
<1>3. CASE QueryWithoutProof(c)
  <2>1. Still /\ OthersStand(c) /\ OthersErr(c)
    BY <1>0, <1>3 DEF QueryWithoutProof, Goto, Return, Still, OthersStand, OthersErr,
       TypeInv, Inv, Types, Values, calls, waiting, memory
  <2>2. c \in Runners => Loops(c)
    BY <1>0, <1>3 DEF QueryWithoutProof, Goto, Return, Loops, RunSays,
       InHand, PromiseInv, TypeInv, Inv, Types, Values, calls, waiting
  <2> QED
    BY <2>1, <2>2, Apart DEF CallStep
<1>4. CASE Top(c)
  <2>1. Still /\ OthersStand(c) /\ OthersErr(c)
    BY <1>0, <1>4 DEF Top, Abort, Goto, Return, Still, OthersStand, OthersErr, TypeInv,
       Inv, Types, Values, calls, waiting, memory
  <2>2. c \in Runners => Loops(c)
    BY <1>0, <1>4 DEF Top, Abort, Goto, Return, Loops, RunSays, InHand,
       PromiseInv, TypeInv, Inv, Types, Values, calls, waiting
  <2> QED
    BY <2>1, <2>2, Apart DEF CallStep
<1>5. CASE DrainNext(c)
  <2>1. Still /\ OthersStand(c) /\ OthersErr(c)
    BY <1>0, <1>5 DEF DrainNext, Goto, Return, Still, OthersStand, OthersErr, TypeInv,
       Inv, Types, Values, calls, waiting, memory
  <2>2. c \in Runners => Loops(c)
    BY <1>0, <1>5 DEF DrainNext, Goto, Return, Loops, RunSays, InHand,
       PromiseInv, TypeInv, Inv, Types, Values, calls, waiting
  <2> QED
    BY <2>1, <2>2, Apart DEF CallStep
<1>6. CASE Precheck(c)
  <2>1. Still /\ OthersStand(c) /\ OthersErr(c)
    BY <1>0, <1>6 DEF Precheck, Abort, Goto, Return, Still, OthersStand, OthersErr,
       TypeInv, Inv, Types, Values, calls, waiting, memory
  <2>2. c \in Runners => Loops(c)
    BY <1>0, <1>6 DEF Precheck, Abort, Goto, Return, Loops, RunSays, InHand,
       PromiseInv, TypeInv, Inv, Types, Values, calls, waiting
  <2> QED
    BY <2>1, <2>2, Apart DEF CallStep
<1>7. CASE Check(c)
  <2>1. Still /\ OthersStand(c) /\ OthersErr(c)
    BY <1>0, <1>7 DEF Check, Goto, Return, Still, OthersStand, OthersErr, TypeInv, Inv,
       Types, Values, calls, waiting, memory
  <2>2. c \in Runners => Loops(c)
    BY <1>0, <1>7 DEF Check, Goto, Return, Loops, RunSays, InHand,
       PromiseInv, TypeInv, Inv, Types, Values, calls, waiting
  <2> QED
    BY <2>1, <2>2, Apart DEF CallStep
<1>8. CASE ActRefused(c)
  <2>1. Still /\ OthersStand(c) /\ OthersErr(c)
    BY <1>0, <1>8 DEF ActRefused, Abort, Goto, Return, Still, OthersStand, OthersErr,
       TypeInv, Inv, Types, Values, calls, waiting, memory
  <2>2. c \in Runners => Loops(c)
    BY <1>0, <1>8 DEF ActRefused, Abort, Goto, Return, Loops, RunSays,
       InHand, PromiseInv, TypeInv, Inv, Types, Values, calls, waiting
  <2> QED
    BY <2>1, <2>2, Apart DEF CallStep
<1>9. CASE Acted(c)
  <2>1. Still /\ OthersStand(c) /\ OthersErr(c)
    BY <1>0, <1>9 DEF Acted, Abort, Goto, Return, Still, OthersStand, OthersErr,
       TypeInv, Inv, Types, Values, calls, waiting, memory
  <2>2. c \in Runners => Loops(c)
    BY <1>0, <1>9 DEF Acted, Abort, Goto, Return, Loops, RunSays, InHand,
       PromiseInv, TypeInv, Inv, Types, Values, calls, waiting
  <2> QED
    BY <2>1, <2>2, Apart DEF CallStep
<1>10. CASE EndRun(c)
  <2>1. Still /\ OthersStand(c) /\ OthersErr(c)
    BY <1>0, <1>10 DEF EndRun, Goto, Return, Still, OthersStand, OthersErr, TypeInv,
       Inv, Types, Values, calls, waiting, memory
  <2>2. c \in Runners => Loops(c)
    BY <1>0, <1>10 DEF EndRun, Goto, Return, Loops, RunSays, InHand,
       PromiseInv, TypeInv, Inv, Types, Values, calls, waiting
  <2> QED
    BY <2>1, <2>2, Apart DEF CallStep
<1>11. CASE Cleanup(c)
  <2>1. Still /\ OthersStand(c) /\ OthersErr(c)
    BY <1>0, <1>11 DEF Cleanup, Goto, Still, OthersStand, OthersErr, TypeInv, Inv,
       Types, Values, calls, waiting, memory
  <2>2. c \in Runners => Loops(c)
    BY <1>0, <1>11 DEF Cleanup, Goto, Loops, RunSays, InHand,
       PromiseInv, TypeInv, Inv, Types, Values, calls, waiting
  <2> QED
    BY <2>1, <2>2, Apart DEF CallStep
<1> QED
  BY <1>1, <1>2, <1>3, <1>4, <1>5, <1>6, <1>7, <1>8, <1>9, <1>10, <1>11

(***************************************************************************)
(* What waits.                                                             *)
(***************************************************************************)
Waits(m) == m \in Mutators /\ answer[m] = "none" /\ pc[m] \in {"wait", "done"}

\* What waits is a batch and then the queue.
LEMMA WaitingSplits ==
  ASSUME TypeInv
  PROVE  \E b \in Seq(Mutators) :
           /\ Waiting = b \o queue
           /\ \A r \in Runners : batch[r] = b \/ batch[r] = <<>>
<1>1. batch \in [Runners -> Seq(Mutators)] /\ queue \in Seq(Mutators)
  BY DEF TypeInv, Values
<1>2. CASE \E r \in Runners : batch[r] # <<>>
  <2>1. PICK c \in Runners : batch[c] # <<>>
    BY <1>2
  <2>2. pc[c] \in RunSites
    BY <2>1 DEF TypeInv, BatchHeld, PopSites, RunSites, LoopSites
  <2>3. \A r \in Runners : r # c => batch[r] = <<>>
    BY <2>2, Alone
  <2>4. Waiting = batch[c] \o queue
    BY <1>1, <2>3, WaitingIs, WaitingAt
  <2>5. batch[c] \in Seq(Mutators) /\ \A r \in Runners : batch[r] = batch[c] \/ batch[r] = <<>>
    BY <1>1, <2>3
  <2> QED
    BY <2>4, <2>5
<1>3. CASE \A r \in Runners : batch[r] = <<>>
  <2>1. Waiting = queue
    BY <1>3 DEF Waiting
  <2>2. <<>> \in Seq(Mutators) /\ <<>> \o queue = queue
    BY <1>1, ConcatEmptySeq
  <2> QED
    BY <1>3, <2>1, <2>2
<1> QED
  BY <1>2, <1>3

\* Nobody waits twice, or with an answer.
LEMMA WaitingOnce ==
  ASSUME TypeInv, QueueInv
  PROVE  /\ \A r \in Runners : \A i \in DOMAIN batch[r] : Waits(batch[r][i])
         /\ \A i \in DOMAIN queue : Waits(queue[i])
         /\ \A r \in Runners : \A i, j \in DOMAIN batch[r] :
              batch[r][i] = batch[r][j] => i = j
         /\ \A r \in Runners : \A i \in DOMAIN batch[r], j \in DOMAIN queue :
              batch[r][i] # queue[j]
<1> DEFINE n == Len(arrivals)
           w == Len(Waiting)
<1>1. PICK b \in Seq(Mutators) :
        /\ Waiting = b \o queue
        /\ \A r \in Runners : batch[r] = b \/ batch[r] = <<>>
  BY WaitingSplits
<1>2. queue \in Seq(Mutators) /\ arrivals \in Seq(Mutators) /\ Waiting \in Seq(Mutators)
  BY <1>1, ConcatProperties DEF TypeInv, Values
<1>3. n \in Nat /\ w \in Nat /\ w =< n
  BY <1>2 DEF QueueInv
<1>4. \A i \in 1 .. w : Waits(Waiting[i])
  <2> SUFFICES ASSUME NEW i \in 1 .. w PROVE Waits(Waiting[i])
    OBVIOUS
  <2>1. Waiting[i] = arrivals[n - w + i] /\ n - w + i \in 1 .. n
    BY <1>3 DEF QueueInv
  <2> QED
    BY <1>2, <2>1 DEF QueueInv, Waits
<1>5. \A i, j \in 1 .. w : Waiting[i] = Waiting[j] => i = j
  <2> SUFFICES ASSUME NEW i \in 1 .. w, NEW j \in 1 .. w, Waiting[i] = Waiting[j]
               PROVE  i = j
    OBVIOUS
  <2>1. /\ Waiting[i] = arrivals[n - w + i] /\ Waiting[j] = arrivals[n - w + j]
        /\ n - w + i \in 1 .. n /\ n - w + j \in 1 .. n
    BY <1>3 DEF QueueInv
  <2>2. n - w + i = n - w + j
    <3>1. \A x, y \in 1 .. n : arrivals[x] = arrivals[y] => x = y
      BY DEF QueueInv
    <3> QED
      BY <2>1, <3>1
  <2> QED
    BY <1>3, <2>2
<1>6. /\ w = Len(b) + Len(queue) /\ Len(b) \in Nat /\ Len(queue) \in Nat
      /\ \A i \in 1 .. Len(b) : i \in 1 .. w /\ Waiting[i] = b[i]
      /\ \A i \in 1 .. Len(queue) : Len(b) + i \in 1 .. w /\ Waiting[Len(b) + i] = queue[i]
  <2> DEFINE q == queue
  <2>1. /\ Len(b \o q) = Len(b) + Len(q)
        /\ \A i \in 1 .. Len(b) + Len(q) :
             (b \o q)[i] = IF i <= Len(b) THEN b[i] ELSE q[i - Len(b)]
    BY <1>2, ConcatProperties
  <2>2. Len(b) \in Nat /\ Len(q) \in Nat
    BY <1>2
  <2>3. ASSUME NEW i \in 1 .. Len(q)
        PROVE  Len(b) + i \in 1 .. w /\ Waiting[Len(b) + i] = q[i]
    <3>1. Len(b) + i \in 1 .. Len(b) + Len(q) /\ ~(Len(b) + i <= Len(b))
          /\ (Len(b) + i) - Len(b) = i
      BY <2>2
    <3> QED
      BY <1>1, <2>1, <3>1
  <2> QED
    BY <1>1, <2>1, <2>2, <2>3
<1> HIDE DEF n, w
<1>7. \A i \in DOMAIN b : Waits(b[i]) /\ i \in 1 .. Len(b)
  BY <1>4, <1>6
<1>8. ASSUME NEW i \in DOMAIN b, NEW j \in DOMAIN b, b[i] = b[j]
      PROVE  i = j
  <2>1. /\ i \in 1 .. w /\ Waiting[i] = b[i]
        /\ j \in 1 .. w /\ Waiting[j] = b[j]
    BY <1>6, <1>7
  <2> QED
    BY <1>5, <1>8, <2>1
<1>9. \A i \in DOMAIN queue : Waits(queue[i])
  BY <1>2, <1>4, <1>6
<1>10. ASSUME NEW i \in DOMAIN b, NEW j \in DOMAIN queue, b[i] = queue[j]
       PROVE  FALSE
  <2>1. i \in 1 .. Len(b) /\ j \in 1 .. Len(queue)
    BY <1>2
  <2>2. i = Len(b) + j
    BY <1>5, <1>6, <1>10, <2>1
  <2> QED
    BY <1>6, <2>1, <2>2
<1>11. ASSUME NEW r \in Runners
       PROVE  batch[r] = b \/ DOMAIN batch[r] = {}
  BY <1>1
<1> QED
  BY <1>7, <1>8, <1>9, <1>10, <1>11

\* One more effect, or none.
LEMMA TookMore ==
  ASSUME TypeInv, NEW c \in Call,
         NEW m, effects' = effects \/ effects' = Append(effects, c)
  PROVE  Took(m)' <=> Took(m) \/ (effects' # effects /\ m = c)
<1>1. effects \in Seq(Call)
  BY DEF TypeInv, Values
<1>2. CASE effects' = effects
  BY <1>2 DEF Took
<1>3. CASE effects' = Append(effects, c)
  <2>1. Len(effects) \in Nat /\ DOMAIN effects = 1 .. Len(effects)
    BY <1>1
  <2>2. /\ DOMAIN effects' = 1 .. Len(effects) + 1
        /\ effects'[Len(effects) + 1] = c
        /\ \A i \in 1 .. Len(effects) : effects'[i] = effects[i]
    <3>1. /\ Append(effects, c) \in Seq(Call)
          /\ Len(Append(effects, c)) = Len(effects) + 1
          /\ \A i \in 1 .. Len(effects) : Append(effects, c)[i] = effects[i]
          /\ Append(effects, c)[Len(effects) + 1] = c
      BY <1>1, AppendProperties
    <3> QED
      BY <1>1, <1>3, <2>1, <3>1
  <2>3. effects' # effects
    BY <2>1, <2>2
  <2>4. Took(m)' <=> \E i \in 1 .. Len(effects) + 1 : effects'[i] = m
    BY <2>2 DEF Took
  <2>5. Took(m) <=> \E i \in 1 .. Len(effects) : effects[i] = m
    BY <2>1 DEF Took
  <2> QED
    BY <2>1, <2>2, <2>3, <2>4, <2>5
<1> QED
  BY <1>2, <1>3

(***************************************************************************)
(* PromiseInv is kept.                                                     *)
(***************************************************************************)
LEMMA StillPromise ==
  ASSUME TypeInv, QueueInv, PromiseInv, NEW c \in Call, CallStep(c)
  PROVE  PromiseInv'
<1> USE DEF CallStep, Still, OthersStand, OthersErr
<1>1. \A m : Took(m)' <=> Took(m)
  BY DEF Took
<1>2. \A m \in Mutators : Stands(pc'[m], ret'[m], Took(m)')
  BY <1>1, AreCalls DEF PromiseInv, Minds, Stands
<1>3. \A m \in Mutators : answer'[m] # "none" => Agrees(answer'[m], Took(m)')
  BY <1>1 DEF PromiseInv, Agrees
<1>4. \A r \in Runners : RunSays(r)' /\ (InHand(r)' <=> InHand(r))
  BY AreCalls DEF PromiseInv, Loops, RunSays, InHand
<1>5. ASSUME NEW m, Waits(m), Awaited(m)
      PROVE  Awaited(m)'
  BY <1>5, AreCalls DEF Waits, Awaited, Minds
<1>6. \A r \in Runners : \A i \in DOMAIN batch'[r] :
        /\ Awaited(batch[r][i])' /\ batch'[r][i] = batch[r][i]
        /\ InTurn(r, i)'
  BY <1>1, <1>4, <1>5, WaitingOnce DEF PromiseInv, InTurn
<1>7. \A i \in DOMAIN queue' : Awaited(queue[i])' /\ ~Took(queue[i])'
  BY <1>1, <1>5, WaitingOnce DEF PromiseInv
<1> QED
  BY <1>2, <1>3, <1>4, <1>6, <1>7 DEF PromiseInv

\* A mutation joins the queue: it has not taken effect.
LEMMA JoinPromise ==
  ASSUME TypeInv, QueueInv, PromiseInv, NEW c \in Mutators, Enqueue(c)
  PROVE  PromiseInv'
<1>1. /\ pc[c] = "append" /\ pc' = [pc EXCEPT ![c] = "wait"] /\ queue' = Append(queue, c)
      /\ UNCHANGED <<ret, answer, batch, outcome, err, effects>> /\ c \in Call
  BY AreCalls DEF Enqueue, Goto, calls, memory
<1>2. pc \in [Call -> Locations] /\ queue \in Seq(Mutators)
  BY DEF TypeInv, Inv, Types, Values
<1>3. (\A m : Took(m)' <=> Took(m)) /\ ~Took(c)
  BY <1>1 DEF Took, PromiseInv, Stands, EarlySites
<1>4. ASSUME NEW m \in Mutators
      PROVE  Stands(pc'[m], ret'[m], Took(m)')
  <2>1. CASE m = c
    BY <1>1, <1>2, <2>1 DEF Stands, MutatorSites, EarlySites
  <2>2. CASE m # c
    <3>1. pc'[m] = pc[m] /\ ret'[m] = ret[m] /\ (Took(m)' <=> Took(m))
      BY <1>1, <1>2, <1>3, <2>2, AreCalls
    <3> QED
      BY <3>1 DEF PromiseInv, Stands, Agrees
  <2> QED
    BY <2>1, <2>2
<1>5. \A m \in Mutators : answer'[m] # "none" => Agrees(answer'[m], Took(m)')
  BY <1>1, <1>3 DEF PromiseInv, Agrees
<1>6. \A r \in Runners : pc'[r] = pc[r]
  BY <1>1, <1>2, Apart, AreCalls
<1>7. \A r \in Runners : RunSays(r)' /\ (InHand(r)' <=> InHand(r))
  BY <1>1, <1>6 DEF PromiseInv, RunSays, InHand
<1>8. \A m \in Mutators : Awaited(m) => Awaited(m)'
  BY <1>1, <1>2, AreCalls DEF Awaited
<1>9. \A r \in Runners : \A i \in DOMAIN batch'[r] :
        /\ Awaited(batch[r][i])' /\ batch'[r][i] = batch[r][i]
        /\ InTurn(r, i)'
  BY <1>1, <1>3, <1>7, <1>8, WaitingOnce DEF PromiseInv, Waits, InTurn
<1>10. ASSUME NEW i \in DOMAIN queue'
       PROVE  Awaited(queue[i])' /\ ~Took(queue[i])'
  <2>1. i \in 1 .. Len(queue) + 1 /\ DOMAIN queue = 1 .. Len(queue) /\ Len(queue) \in Nat
    BY <1>1, <1>2, AppendProperties
  <2>2. CASE i = Len(queue) + 1
    <3>1. queue'[i] = c
      BY <1>1, <1>2, <2>2, AppendProperties
    <3>2. pc'[c] = "wait" /\ ~Took(c)'
      BY <1>1, <1>2, <1>3
    <3> QED
      BY <3>1, <3>2 DEF Awaited
  <2>3. CASE i \in 1 .. Len(queue)
    <3>1. queue'[i] = queue[i]
      BY <1>1, <1>2, <2>3, AppendProperties
    <3>2. queue[i] \in Mutators /\ Awaited(queue[i]) /\ ~Took(queue[i])
      BY <2>1, <2>3, WaitingOnce DEF PromiseInv, Waits
    <3> QED
      BY <1>3, <1>8, <3>1, <3>2
  <2> QED
    BY <2>1, <2>2, <2>3
<1>11. UNCHANGED batch
  BY <1>1
<1> QED
  BY <1>4, <1>5, <1>7, <1>9, <1>10, <1>11 DEF PromiseInv

\* A direct mutation takes effect, or is refused; it is not in the queue.
LEMMA InsertPromise ==
  ASSUME TypeInv, QueueInv, PromiseInv, NEW c \in Mutators, Insert(c)
  PROVE  PromiseInv'
<1>1. PICK result \in Applied(c) :
        /\ Record(c, result) /\ ret' = [ret EXCEPT ![c] = result]
        /\ pc' = [pc EXCEPT ![c] = IF result = "ok" THEN "notify" ELSE "leave"]
  BY DEF Insert, Goto
<1>2. /\ pc[c] = "insert" /\ c \in Call
      /\ UNCHANGED <<queue, answer, batch, outcome, err>>
  BY AreCalls DEF Insert, waiting
<1>3. result \in {"ok", "canceled"} \cup Failed
  BY DEF Applied, Failed
<1>4. pc \in [Call -> Locations] /\ ret \in [Call -> Outcomes]
  BY DEF TypeInv, Inv, Types, Values
<1>5. effects' = effects \/ effects' = Append(effects, c)
  BY <1>1 DEF Record
<1>6. \A m : m # c => (Took(m)' <=> Took(m))
  BY <1>2, <1>5, TookMore
<1>7. result = "ok" => Took(c)'
  <2> SUFFICES ASSUME result = "ok" PROVE Took(c)'
    OBVIOUS
  <2>1. effects \in Seq(Call)
    BY DEF TypeInv, Values
  <2>2. effects' = Append(effects, c)
    BY <1>1 DEF Record
  <2>3. Len(effects') = Len(effects) + 1 /\ Len(effects) \in Nat
    BY <1>2, <2>1, <2>2, AppendProperties
  <2>4. effects' # effects
    BY <2>3
  <2> QED
    BY <1>2, <1>5, <2>4, TookMore
<1>8. \A m \in Mutators : Stands(pc'[m], ret'[m], Took(m)')
  <2>1. Stands(pc'[c], ret'[c], Took(c)')
    BY <1>1, <1>2, <1>3, <1>4, <1>7
       DEF Stands, MutatorSites, EarlySites, Agrees, Refused, Failed
  <2>2. ASSUME NEW m \in Mutators, m # c
        PROVE  Stands(pc'[m], ret'[m], Took(m)')
    <3>1. pc'[m] = pc[m] /\ ret'[m] = ret[m] /\ (Took(m)' <=> Took(m))
      BY <1>1, <1>2, <1>4, <1>6, <2>2, AreCalls
    <3> QED
      BY <3>1 DEF PromiseInv, Stands, Agrees
  <2> QED
    BY <2>1, <2>2
<1>9. answer[c] = "none"
  <2>1. arrivals \in Seq(Mutators)
    BY DEF TypeInv, Values
  <2> QED
    BY <1>2, <2>1 DEF QueueInv
<1>10. \A m \in Mutators : answer'[m] # "none" => Agrees(answer'[m], Took(m)')
  BY <1>2, <1>6, <1>9 DEF PromiseInv, Agrees
<1>11. \A r \in Runners : pc'[r] = pc[r]
  BY <1>1, <1>2, <1>4, Apart, AreCalls
<1>12. \A r \in Runners : RunSays(r)' /\ (InHand(r)' <=> InHand(r))
  BY <1>2, <1>11 DEF PromiseInv, RunSays, InHand
<1>13. ASSUME NEW m, Waits(m), Awaited(m)
       PROVE  Awaited(m)' /\ (Took(m)' <=> Took(m))
  <2>1. m # c /\ m \in Call
    BY <1>2, <1>13, AreCalls DEF Waits
  <2> QED
    BY <1>1, <1>2, <1>4, <1>6, <1>13, <2>1 DEF Awaited
<1>14. \A r \in Runners : \A i \in DOMAIN batch'[r] :
         /\ Awaited(batch[r][i])' /\ batch'[r][i] = batch[r][i]
         /\ InTurn(r, i)'
  BY <1>2, <1>12, <1>13, WaitingOnce DEF PromiseInv, InTurn
<1>15. \A i \in DOMAIN queue' : Awaited(queue[i])' /\ ~Took(queue[i])'
  BY <1>2, <1>13, WaitingOnce DEF PromiseInv
<1> QED
  BY <1>2, <1>8, <1>10, <1>12, <1>14, <1>15 DEF PromiseInv

\* What a run leaves behind when it does not touch working memory: its answers
\* are true, and what it still has was not begun.
Drains(c) ==
  /\ OthersStand(c) /\ OthersErr(c) /\ UNCHANGED <<effects, outcome>>
  /\ RunSays(c)' /\ ~InHand(c)'
  /\ \A m \in Mutators : answer'[m] = answer[m] \/ Agrees(answer'[m], Took(m))
  /\ \A r \in Runners : r # c => batch'[r] = batch[r]
  /\ \A i \in DOMAIN batch'[c] : Awaited(batch'[c][i]) /\ ~Took(batch'[c][i])
  /\ \A i \in DOMAIN batch'[c] : batch'[c][i] \in Mutators
  /\ \A i \in DOMAIN queue' : Awaited(queue'[i]) /\ ~Took(queue'[i])
  /\ \A i \in DOMAIN queue' : queue'[i] \in Mutators

LEMMA DrainsPromise ==
  ASSUME TypeInv, QueueInv, PromiseInv, NEW c \in Runners, Drains(c)
  PROVE  PromiseInv'
<1> USE DEF Drains, OthersStand, OthersErr
<1>1. \A m : Took(m)' <=> Took(m)
  BY DEF Took
<1>2. \A m \in Mutators : pc'[m] = pc[m] /\ ret'[m] = ret[m]
  BY Apart, AreCalls
<1>3. \A m \in Mutators : Stands(pc'[m], ret'[m], Took(m)')
  BY <1>1, <1>2 DEF PromiseInv, Stands, Agrees
<1>4. \A m \in Mutators : answer'[m] # "none" => Agrees(answer'[m], Took(m)')
  BY <1>1 DEF PromiseInv, Agrees
<1>5. \A r \in Runners : RunSays(r)'
  BY AreCalls DEF PromiseInv, RunSays
<1>6. \A m \in Mutators : Awaited(m) => Awaited(m)'
  BY <1>2 DEF Awaited
<1>7. ASSUME NEW r \in Runners, NEW i \in DOMAIN batch'[r]
      PROVE  Awaited(batch[r][i])' /\ InTurn(r, i)'
  <2>1. CASE r = c
    BY <1>1, <1>6, <2>1 DEF InTurn
  <2>2. CASE r # c
    <3>1. batch'[r] = batch[r] /\ (InHand(r)' <=> InHand(r))
      BY <2>2, AreCalls DEF InHand
    <3>2. batch[r][i] \in Mutators
      BY <3>1, WaitingOnce DEF Waits
    <3>3. Awaited(batch[r][i]) /\ InTurn(r, i)
      BY <3>1 DEF PromiseInv
    <3> QED
      BY <1>1, <1>6, <3>1, <3>2, <3>3 DEF InTurn
  <2> QED
    BY <2>1, <2>2
<1>8. \A i \in DOMAIN queue' : Awaited(queue[i])' /\ ~Took(queue[i])'
  BY <1>1, <1>6
<1> QED
  BY <1>3, <1>4, <1>5, <1>7, <1>8 DEF PromiseInv

\* The requests of a run behind the oldest have not been begun.
LEMMA RestWaits ==
  ASSUME TypeInv, QueueInv, PromiseInv, NEW c \in Runners, batch[c] # <<>>
  PROVE  /\ Head(batch[c]) = batch[c][1] /\ 1 \in DOMAIN batch[c]
         /\ Head(batch[c]) \in Mutators
         /\ \A i \in DOMAIN Tail(batch[c]) :
              /\ Tail(batch[c])[i] \in Mutators
              /\ Awaited(Tail(batch[c])[i]) /\ ~Took(Tail(batch[c])[i])
<1> DEFINE b == batch[c]
<1>1. b \in Seq(Mutators)
  BY DEF TypeInv, Values
<1>2. Head(b) = b[1] /\ 1 \in DOMAIN b /\ Head(b) \in Mutators
  BY <1>1
<1>3. ASSUME NEW i \in DOMAIN Tail(b)
      PROVE  Tail(b)[i] \in Mutators /\ Awaited(Tail(b)[i]) /\ ~Took(Tail(b)[i])
  <2>1. Tail(b)[i] = b[i + 1] /\ i + 1 \in DOMAIN b /\ i + 1 # 1
    BY <1>1
  <2>2. b[i + 1] \in Mutators /\ Awaited(b[i + 1]) /\ ~Took(b[i + 1])
    BY <2>1, WaitingOnce DEF PromiseInv, Waits, InTurn
  <2> QED
    BY <2>1, <2>2
<1> QED
  BY <1>2, <1>3

LEMMA LoopDrains ==
  ASSUME TypeInv, QueueInv, PromiseInv, NEW c \in Runners,
         \/ Pop(c) \/ DrainSkip(c) \/ DrainCanceled(c) \/ DrainDenied(c)
         \/ DrainAnswer(c) \/ DrainBreak(c) \/ FailQueued(c)
  PROVE  Drains(c)
<1>0. /\ c \in Call /\ pc \in [Call -> Locations] /\ err \in [Runners -> Outcomes]
      /\ ret \in [Call -> Outcomes] /\ batch \in [Runners -> Seq(Mutators)]
      /\ answer \in [Mutators -> Outcomes] /\ queue \in Seq(Mutators)
      /\ outcome \in [Runners -> Outcomes]
  BY AreCalls DEF TypeInv, Inv, Types, Values
<1>1. \A i \in DOMAIN queue : queue[i] \in Mutators /\ Awaited(queue[i]) /\ ~Took(queue[i])
  BY WaitingOnce DEF PromiseInv, Waits
<1>2. \A m : Agrees("canceled", Took(m))
  BY DEF Agrees, Refused
<1>3. /\ \A m : ~Took(m) => Agrees("misuse", Took(m)) /\ Agrees("failed", Took(m))
      /\ \A m, what : what \in Failed => Agrees(what, Took(m))
  BY DEF Agrees, Refused, Failed
<1>4. CASE Pop(c)
  <2>1. /\ OthersStand(c) /\ OthersErr(c) /\ UNCHANGED <<effects, outcome, answer>>
        /\ \A r \in Runners : r # c => batch'[r] = batch[r]
        /\ batch'[c] = queue /\ queue' = <<>> /\ pc'[c] \in {"precheck", "drain"}
    BY <1>0, <1>4 DEF Pop, Goto, OthersStand, OthersErr, calls, memory
  <2> QED
    BY <1>1, <2>1 DEF Drains, RunSays, InHand
<1>5. CASE DrainSkip(c)
  <2>1. /\ OthersStand(c) /\ OthersErr(c) /\ UNCHANGED <<effects, outcome, queue>>
        /\ \A r \in Runners : r # c => batch'[r] = batch[r]
        /\ batch[c] # <<>> /\ batch'[c] = Tail(batch[c]) /\ pc'[c] = "drain"
    BY <1>0, <1>5 DEF DrainSkip, local, OthersStand, OthersErr, memory
  <2>2. \A m \in Mutators : answer'[m] = answer[m] \/ answer'[m] = "canceled"
    BY <1>0, <1>5, <2>1, RestWaits DEF DrainSkip
  <2> QED
    BY <1>1, <1>2, <2>1, <2>2, RestWaits DEF Drains, RunSays, InHand
<1>6. CASE DrainCanceled(c)
  <2>1. /\ OthersStand(c) /\ OthersErr(c) /\ UNCHANGED <<effects, outcome, queue>>
        /\ \A r \in Runners : r # c => batch'[r] = batch[r]
        /\ batch'[c] = <<>> /\ pc'[c] = "abort" /\ err'[c] = "canceled"
    BY <1>0, <1>6 DEF DrainCanceled, Abort, Goto, OthersStand, OthersErr, memory
  <2>2. \A m \in Mutators : answer'[m] = answer[m] \/ answer'[m] = "canceled"
    BY <1>0, <1>6 DEF DrainCanceled, AnswerAll
  <2> QED
    BY <1>1, <1>2, <2>1, <2>2 DEF Drains, RunSays, InHand
<1>7. CASE DrainDenied(c)
  <2>1. /\ OthersStand(c) /\ OthersErr(c) /\ UNCHANGED <<effects, outcome, queue>>
        /\ \A r \in Runners : r # c => batch'[r] = batch[r]
        /\ batch'[c] = <<>> /\ pc'[c] = "abort" /\ err'[c] = "misuse"
    BY <1>0, <1>7 DEF DrainDenied, Abort, Goto, OthersStand, OthersErr, memory
  <2>2. \A m \in Elems(batch[c]) : ~Took(m)
    <3>1. ~InHand(c)
      BY <1>7 DEF DrainDenied, InHand
    <3> QED
      BY <3>1 DEF PromiseInv, InTurn, Elems
  <2>3. \A m \in Mutators : \/ answer'[m] = answer[m]
                            \/ answer'[m] = "canceled"
                            \/ answer'[m] = "misuse" /\ ~Took(m)
    BY <1>0, <1>7, <2>2 DEF DrainDenied
  <2> QED
    BY <1>1, <1>2, <1>3, <2>1, <2>3 DEF Drains, RunSays, InHand
<1>8. CASE DrainAnswer(c)
  <2>1. /\ OthersStand(c) /\ OthersErr(c) /\ UNCHANGED <<effects, outcome, queue>>
        /\ \A r \in Runners : r # c => batch'[r] = batch[r]
        /\ batch'[c] = Tail(batch[c]) /\ pc'[c] = "drain"
    BY <1>0, <1>8 DEF DrainAnswer, Goto, OthersStand, OthersErr, memory
  <2>2. PICK result \in Answers(c) : answer' = [answer EXCEPT ![Head(batch[c])] = result]
    BY <1>8 DEF DrainAnswer
  <2>3. /\ batch[c] # <<>> /\ InHand(c) /\ outcome[c] \in {"ok", "canceled"} \cup Failed
        /\ outcome[c] = "ok" => Took(Head(batch[c]))
    BY <1>8, RestWaits DEF DrainAnswer, TypeInv, BatchHeld, PopSites, InHand, InTurn,
       PromiseInv, RunSays
  <2>4. Agrees(result, Took(Head(batch[c])))
    BY <1>2, <1>3, <2>2, <2>3 DEF Answers, Reconciled, Agrees, Refused, Failed
  <2>5. \A m \in Mutators : answer'[m] = answer[m] \/ Agrees(answer'[m], Took(m))
    BY <1>0, <2>2, <2>3, <2>4, RestWaits
  <2> QED
    BY <1>1, <2>1, <2>3, <2>5, RestWaits DEF Drains, RunSays, InHand
<1>9. CASE DrainBreak(c)
  <2>1. /\ OthersStand(c) /\ OthersErr(c) /\ UNCHANGED <<effects, outcome, queue>>
        /\ \A r \in Runners : r # c => batch'[r] = batch[r]
        /\ batch'[c] = <<>> /\ pc'[c] = "abort" /\ err'[c] = "canceled"
    BY <1>0, <1>9 DEF DrainBreak, Abort, Goto, OthersStand, OthersErr, memory
  <2>2. \A m \in Mutators : answer'[m] = answer[m] \/ answer'[m] = "canceled"
    BY <1>0, <1>9 DEF DrainBreak
  <2> QED
    BY <1>1, <1>2, <2>1, <2>2 DEF Drains, RunSays, InHand
<1>10. CASE FailQueued(c)
  <2>1. /\ OthersStand(c) /\ OthersErr(c) /\ UNCHANGED <<effects, outcome, batch>>
        /\ queue' = <<>> /\ pc'[c] = "stop"
    BY <1>0, <1>10 DEF FailQueued, Goto, OthersStand, OthersErr, memory
  <2>2. batch[c] = <<>> /\ err[c] \in {"canceled", "misuse", "failed"} \cup Failed
    BY <1>10 DEF FailQueued, TypeInv, BatchHeld, PopSites, PromiseInv, RunSays, Failed
  <2>3. \A m \in Elems(queue) : ~Took(m)
    BY <1>1 DEF Elems
  <2>4. \A m \in Mutators : answer'[m] = answer[m] \/ Agrees(answer'[m], Took(m))
    BY <1>2, <1>3, <1>10, <2>2, <2>3 DEF FailQueued
  <2> QED
    BY <2>1, <2>2, <2>4 DEF Drains, RunSays, InHand
<1> QED
  BY <1>4, <1>5, <1>6, <1>7, <1>8, <1>9, <1>10

\* The oldest request takes effect, or is refused.
LEMMA DrainInsertPromise ==
  ASSUME TypeInv, QueueInv, PromiseInv, NEW c \in Runners, DrainInsert(c)
  PROVE  PromiseInv'
<1>x. PICK x \in Mutators : x = Head(batch[c])
  <2>1. batch[c] # <<>>
    BY DEF DrainInsert, TypeInv, BatchHeld, PopSites
  <2> QED
    BY <2>1, RestWaits
<1>0. /\ c \in Call /\ pc \in [Call -> Locations] /\ effects \in Seq(Call)
      /\ outcome \in [Runners -> Outcomes]
  BY AreCalls DEF TypeInv, Inv, Types, Values
<1>1. PICK result \in Applied(x) :
        /\ Record(x, result) /\ outcome' = [outcome EXCEPT ![c] = result]
        /\ pc' = [pc EXCEPT ![c] = IF result = "ok" THEN "drainNotify" ELSE "drainLeave"]
  BY <1>x DEF DrainInsert, Goto
<1>2. /\ pc[c] = "drainInsert" /\ batch[c] # <<>>
      /\ UNCHANGED <<queue, answer, batch, err, ret>>
  BY DEF DrainInsert, calls, TypeInv, BatchHeld, PopSites
<1>3. result \in {"ok", "canceled"} \cup Failed
  BY DEF Applied, Failed
<1>4. /\ x \in Mutators /\ x \in Call /\ x = batch[c][1] /\ 1 \in DOMAIN batch[c]
      /\ ~Took(x) /\ Awaited(x) /\ Waits(x)
  <2>1. x \in Mutators /\ x = batch[c][1] /\ 1 \in DOMAIN batch[c]
    BY <1>x, <1>2, RestWaits
  <2>2. ~InHand(c)
    BY <1>2 DEF InHand
  <2> QED
    BY <2>1, <2>2, AreCalls, WaitingOnce DEF PromiseInv, InTurn
<1>5. effects' = effects \/ effects' = Append(effects, x)
  BY <1>1 DEF Record
<1>6. \A m : m # x => (Took(m)' <=> Took(m))
  BY <1>4, <1>5, TookMore
<1>7. result = "ok" => Took(x)'
  <2> SUFFICES ASSUME result = "ok" PROVE Took(x)'
    OBVIOUS
  <2>1. effects' = Append(effects, x)
    BY <1>1 DEF Record
  <2>2. Len(effects') = Len(effects) + 1 /\ Len(effects) \in Nat
    BY <1>0, <1>4, <2>1, AppendProperties
  <2>3. effects' # effects
    BY <2>2
  <2> QED
    BY <1>4, <1>5, <2>3, TookMore
<1>8. \A m \in Mutators : pc'[m] = pc[m] /\ ret'[m] = ret[m]
  BY <1>0, <1>1, <1>2, Apart, AreCalls
<1>9. ASSUME NEW m \in Mutators
      PROVE  Stands(pc'[m], ret'[m], Took(m)')
  <2>1. CASE m = x
    <3>1. pc'[m] \in {"wait", "done"} /\ pc'[m] = "done" => ret'[m] = "canceled"
      BY <1>4, <1>8, <2>1 DEF Waits, Awaited
    <3>2. pc'[m] \in {"wait", "done"}
      BY <1>4, <1>8, <2>1 DEF Waits
    <3>3. pc'[m] = "done" => ret'[m] = "canceled"
      BY <1>4, <1>8, <2>1 DEF Awaited
    <3> QED
      BY <3>2, <3>3 DEF Stands, MutatorSites, EarlySites, Agrees, Refused
  <2>2. CASE m # x
    BY <1>6, <1>8, <2>2 DEF PromiseInv, Stands, Agrees
  <2> QED
    BY <2>1, <2>2
<1>10. \A m \in Mutators : answer'[m] # "none" => Agrees(answer'[m], Took(m)')
  <2>1. answer'[x] = "none"
    BY <1>2, <1>4 DEF Waits
  <2> QED
    BY <1>2, <1>6, <2>1 DEF PromiseInv, Agrees
<1>11. \A r \in Runners : r # c => pc'[r] = pc[r] /\ outcome'[r] = outcome[r]
  BY <1>0, <1>1, AreCalls
<1>12. /\ pc'[c] = IF result = "ok" THEN "drainNotify" ELSE "drainLeave"
       /\ outcome'[c] = result
  BY <1>0, <1>1
<1>13. ASSUME NEW r \in Runners
       PROVE  RunSays(r)'
  <2>1. CASE r = c
    BY <1>3, <1>12, <2>1 DEF RunSays
  <2>2. CASE r # c
    BY <1>2, <1>11, <2>2 DEF PromiseInv, RunSays
  <2> QED
    BY <2>1, <2>2
<1>14. InHand(c)'
  BY <1>12 DEF InHand
<1>15. \A m \in Mutators : Awaited(m) => Awaited(m)'
  BY <1>8 DEF Awaited
<1>16. ASSUME NEW r \in Runners, NEW i \in DOMAIN batch'[r]
       PROVE  Awaited(batch[r][i])' /\ InTurn(r, i)'
  <2>0. /\ batch' = batch /\ batch[r][i] \in Mutators
        /\ Awaited(batch[r][i]) /\ InTurn(r, i)
    BY <1>2, WaitingOnce DEF PromiseInv, Waits
  <2>1. Awaited(batch[r][i])'
    BY <1>15, <2>0
  <2>2. CASE r = c /\ i = 1
    BY <1>4, <1>7, <1>12, <1>14, <2>0, <2>1, <2>2 DEF InTurn
  <2>3. CASE r = c /\ i # 1
    <3>1. batch[r][i] # x
      BY <1>2, <1>4, <2>3, WaitingOnce
    <3> QED
      BY <1>6, <1>14, <2>0, <2>1, <2>3, <3>1 DEF InTurn
  <2>4. CASE r # c
    <3>1. pc[c] \in RunSites
      BY <1>2 DEF RunSites, LoopSites
    <3>2. batch[r] = <<>>
      BY <2>4, <3>1, Alone
    <3> QED
      BY <1>2, <3>2
  <2> QED
    BY <2>2, <2>3, <2>4
<1>17. ASSUME NEW i \in DOMAIN queue'
       PROVE  Awaited(queue[i])' /\ ~Took(queue[i])'
  <2>1. queue' = queue /\ queue[i] \in Mutators /\ Awaited(queue[i]) /\ ~Took(queue[i])
    BY <1>2, WaitingOnce DEF PromiseInv, Waits
  <2>2. queue[i] # x
    BY <1>2, <1>4, WaitingOnce
  <2> QED
    BY <1>6, <1>15, <2>1, <2>2
<1> QED
  BY <1>9, <1>10, <1>13, <1>16, <1>17 DEF PromiseInv

\* A rule action changes working memory, asks for a halt or fails; no mutation
\* takes effect by it.
LEMMA ActPromise ==
  ASSUME TypeInv, QueueInv, PromiseInv, NEW c \in Runners, Act(c)
  PROVE  PromiseInv'
<1>1. /\ c \in Call /\ pc \in [Call -> Locations] /\ err \in [Runners -> Outcomes]
      /\ pc[c] = "action" /\ UNCHANGED <<queue, answer, batch, outcome, ret>>
      /\ effects' = effects \/ effects' = Append(effects, c)
  BY AreCalls DEF Act, calls, waiting, TypeInv, Inv, Types, Values
<1>2. \A m \in Mutators : Took(m)' <=> Took(m)
  BY <1>1, TookMore, Apart
<1>3. /\ \A d \in Call : d # c => pc'[d] = pc[d]
      /\ \A r \in Runners : r # c => err'[r] = err[r]
      /\ pc'[c] \in {"actionNotify", "top", "abort"}
      /\ pc'[c] = "abort" => err'[c] = "failed"
  BY <1>1 DEF Act, Abort, Goto
<1>4. \A m \in Mutators : pc'[m] = pc[m] /\ ret'[m] = ret[m]
  BY <1>1, <1>3, Apart, AreCalls
<1>5. \A m \in Mutators : Stands(pc'[m], ret'[m], Took(m)')
  BY <1>2, <1>4 DEF PromiseInv, Stands, Agrees
<1>6. \A m \in Mutators : answer'[m] # "none" => Agrees(answer'[m], Took(m)')
  BY <1>1, <1>2 DEF PromiseInv, Agrees
<1>7. ASSUME NEW r \in Runners
      PROVE  RunSays(r)' /\ (InHand(r)' <=> InHand(r))
  <2>1. CASE r = c
    BY <1>1, <1>3, <2>1 DEF RunSays, InHand
  <2>2. CASE r # c
    BY <1>1, <1>3, <2>2, AreCalls DEF PromiseInv, RunSays, InHand
  <2> QED
    BY <2>1, <2>2
<1>8. \A m \in Mutators : Awaited(m) => Awaited(m)'
  BY <1>4 DEF Awaited
<1>9. ASSUME NEW r \in Runners, NEW i \in DOMAIN batch'[r]
      PROVE  Awaited(batch[r][i])' /\ InTurn(r, i)'
  <2>1. batch' = batch /\ batch[r][i] \in Mutators
    BY <1>1, WaitingOnce DEF Waits
  <2>2. Awaited(batch[r][i]) /\ InTurn(r, i)
    BY <2>1 DEF PromiseInv
  <2> QED
    BY <1>1, <1>2, <1>7, <1>8, <2>1, <2>2 DEF InTurn
<1>10. ASSUME NEW i \in DOMAIN queue'
       PROVE  Awaited(queue[i])' /\ ~Took(queue[i])'
  <2>1. queue' = queue /\ queue[i] \in Mutators /\ Awaited(queue[i]) /\ ~Took(queue[i])
    BY <1>1, WaitingOnce DEF PromiseInv, Waits
  <2> QED
    BY <1>2, <1>8, <2>1
<1> QED
  BY <1>5, <1>6, <1>7, <1>9, <1>10 DEF PromiseInv

LEMMA NextPromise ==
  ASSUME TypeInv, QueueInv, PromiseInv, [Next]_vars
  PROVE  PromiseInv'
<1>1. CASE UNCHANGED vars \/ Quiet
  <2>1. UNCHANGED vars
    BY <1>1 DEF Quiet
  <2>2. UNCHANGED <<pc, ret, answer, queue, batch, outcome, err, effects>>
    BY <2>1 DEF vars, local, calls, waiting, memory
  <2> QED
    BY <2>2 DEF PromiseInv, Stands, Agrees, RunSays, Awaited, InHand, InTurn, Took
<1>2. ASSUME NEW c \in Call, Invoke(c) \/ Cancel(c) \/ GateStep(c)
      PROVE  PromiseInv'
  BY <1>2, InvokeMinds, GateMinds, StillPromise
<1>3. ASSUME NEW c \in Mutators, MutatorStep(c)
      PROVE  PromiseInv'
  BY <1>3, AreCalls, MutatorMinds, StillPromise, JoinPromise, InsertPromise
     DEF MutatorStep
<1>4. ASSUME NEW c \in Runners, RunnerStep(c)
      PROVE  PromiseInv'
  BY <1>4, AreCalls, LoopMinds, StillPromise, LoopDrains, DrainsPromise,
     DrainInsertPromise, ActPromise
     DEF RunnerStep
<1> QED
  BY <1>1, <1>2, <1>3, <1>4 DEF Next, Step

(***************************************************************************)
(* Whoever says that the session is closed, or the agenda lost, is right.  *)
(***************************************************************************)
Caused(what, shut, lost) ==
  (what = "closed" => shut) /\ (what = "unsupported" => lost)

CausesInv ==
  /\ \A c \in Call : Caused(ret[c], closed, dirty)
  /\ \A m \in Mutators : Caused(answer[m], closed, dirty)
  /\ \A r \in Runners : Caused(outcome[r], closed, dirty) /\ Caused(err[r], closed, dirty)

LEMMA InitCauses == Init => CausesInv
BY DEF Init, CausesInv, Caused

\* Neither comes to an end, so that only what is newly said matters.
LEMMA CausesKept ==
  ASSUME CausesInv, closed => closed', dirty => dirty',
         \A c \in Call : ret'[c] = ret[c] \/ Caused(ret'[c], closed', dirty'),
         \A m \in Mutators : answer'[m] = answer[m] \/ Caused(answer'[m], closed', dirty'),
         \A r \in Runners : /\ outcome'[r] = outcome[r] \/ Caused(outcome'[r], closed', dirty')
                            /\ err'[r] = err[r] \/ Caused(err'[r], closed', dirty')
  PROVE  CausesInv'
BY DEF CausesInv, Caused

LEMMA InvokeCauses ==
  ASSUME TypeInv, CausesInv, NEW c \in Call, Invoke(c) \/ Cancel(c)
  PROVE  CausesInv'
<1>1. UNCHANGED <<answer, outcome, err, closed, dirty>>
  BY DEF Invoke, InvokeMutation, InvokeOther, InvokeClose, Cancel, waiting, memory
<1>2. \A d \in Call : ret'[d] = ret[d] \/ Caused(ret'[d], closed', dirty')
  BY <1>1 DEF Invoke, InvokeMutation, InvokeOther, InvokeClose, Cancel, Return,
     Caused, TypeInv, Values
<1> QED
  BY <1>1, <1>2, CausesKept

LEMMA GateCauses ==
  ASSUME TypeInv, CausesInv, NEW c \in Call, GateStep(c)
  PROVE  CausesInv'
<1>1. UNCHANGED <<answer, outcome, err, dirty>> /\ (closed => closed')
  BY DEF GateStep, ProbeHeld, ProbeFree, ProbeDone, TakeMutate, TakeLock,
     LockTaken, Refuse, LockOnly, DropLock, DropMutate, BeginDispatch,
     EndDispatch, NoDispatch, Read, Shut, calls, waiting, memory
<1>2. \A d \in Call : ret'[d] = ret[d] \/ ret'[d] \in {"misuse", "ok"}
  <2>1. CASE ProbeHeld(c) \/ Refuse(c) \/ LockOnly(c) \/ Read(c) \/ Shut(c)
    BY <2>1 DEF ProbeHeld, Refuse, LockOnly, Read, Shut, Return, TypeInv, Values
  <2>2. CASE \/ ProbeFree(c) \/ ProbeDone(c) \/ TakeMutate(c) \/ TakeLock(c)
             \/ LockTaken(c) \/ DropLock(c) \/ DropMutate(c) \/ BeginDispatch(c)
             \/ EndDispatch(c) \/ NoDispatch(c)
    BY <2>2 DEF ProbeFree, ProbeDone, TakeMutate, TakeLock, LockTaken, DropLock,
       DropMutate, BeginDispatch, EndDispatch, NoDispatch, calls
  <2> QED
    BY <2>1, <2>2 DEF GateStep
<1>3. \A d \in Call : ret'[d] = ret[d] \/ Caused(ret'[d], closed', dirty')
  BY <1>2 DEF Caused
<1> QED
  BY <1>1, <1>3, CausesKept

\* What the work on working memory and the reconciliation come to has its cause.
LEMMA ResultsCaused ==
  /\ \A m : \A what \in Applied(m) : Caused(what, closed, dirty)
  /\ \A m : Caused(Reconciled(m), closed, dirty)
BY DEF Applied, Reconciled, Caused

LEMMA MutatorCauses ==
  ASSUME TypeInv, CausesInv, NEW c \in Mutators, MutatorStep(c)
  PROVE  CausesInv'
<1>1. UNCHANGED <<answer, outcome, err, closed, dirty>>
  BY DEF MutatorStep, LockQueue, Enqueue, UnlockQueue, Receive, Insert, Attach,
     calls, waiting, memory
<1>2. \A d \in Call : ret'[d] = ret[d] \/ Caused(ret'[d], closed, dirty)
  <2>1. CASE LockQueue(c) \/ Enqueue(c) \/ UnlockQueue(c)
    BY <2>1 DEF LockQueue, Enqueue, UnlockQueue, calls
  <2>2. CASE Receive(c)
    BY <2>2 DEF Receive, Return, CausesInv, Caused, TypeInv, Values
  <2>3. CASE Insert(c)
    BY <2>3, ResultsCaused DEF Insert, TypeInv, Values
  <2>4. CASE Attach(c)
    <3>1. Caused("ok", closed, dirty)
      BY DEF Caused
    <3> QED
      BY <2>4, <3>1, ResultsCaused DEF Attach, TypeInv, Values
  <2> QED
    BY <2>1, <2>2, <2>3, <2>4 DEF MutatorStep
<1> QED
  BY <1>1, <1>2, CausesKept

\* An abandoned run names its cause, and hands it to the requests it fails.
LEMMA LoopCauses ==
  ASSUME TypeInv, CausesInv, NEW c \in Runners, RunnerStep(c)
  PROVE  CausesInv'
<1>0. /\ c \in Call /\ err \in [Runners -> Outcomes] /\ ret \in [Call -> Outcomes]
      /\ answer \in [Mutators -> Outcomes] /\ outcome \in [Runners -> Outcomes]
  BY AreCalls DEF TypeInv, Values
<1>1. CASE \/ BeginRun(c) \/ QueryWithoutProof(c) \/ Pop(c) \/ DrainNext(c) \/ Cleanup(c)
  BY <1>1, CausesKept DEF BeginRun, QueryWithoutProof, Pop, DrainNext, Cleanup, calls,
     waiting, memory
<1>2. CASE RefuseRun(c) \/ Check(c) \/ EndRun(c)
  <2>1. UNCHANGED <<answer, outcome, err, closed, dirty>>
    BY <1>2 DEF RefuseRun, Check, EndRun, waiting, memory
  <2>2. \A d \in Call : ret'[d] = ret[d] \/ Caused(ret'[d], closed', dirty')
    BY <1>0, <1>2, <2>1 DEF RefuseRun, Check, EndRun, Caused
  <2> QED
    BY <2>1, <2>2, CausesKept
<1>3. CASE Top(c) \/ Precheck(c) \/ ActRefused(c)
  <2>1. UNCHANGED <<ret, answer, outcome, closed, dirty>>
    BY <1>3 DEF Top, Precheck, ActRefused, calls, waiting, memory
  <2>2. \A r \in Runners : err'[r] = err[r] \/ Caused(err'[r], closed', dirty')
    BY <1>0, <1>3, <2>1 DEF Top, Precheck, ActRefused, Abort, Caused
  <2> QED
    BY <2>1, <2>2, CausesKept
<1>4. CASE Act(c) \/ Acted(c)
  <2>1. /\ UNCHANGED <<ret, answer, outcome, closed>>
        /\ dirty' = dirty \/ dirty' = TRUE
    BY <1>4 DEF Act, Acted, calls, waiting, memory
  <2>2. \A r \in Runners : err'[r] = err[r] \/ Caused(err'[r], closed', dirty')
    <3>1. CASE Act(c)
      BY <1>0, <2>1, <3>1 DEF Act, Abort, Caused
    <3>2. CASE Acted(c)
      <4>1. \/ UNCHANGED err
            \/ \E why \in {"failed", "closed", "canceled"} :
                 /\ why = "closed" => closed
                 /\ err' = [err EXCEPT ![c] = why]
        BY <3>2 DEF Acted, Abort
      <4> QED
        BY <1>0, <2>1, <4>1 DEF Caused
    <3> QED
      BY <1>4, <3>1, <3>2
  <2> QED
    BY <2>1, <2>2, CausesKept
<1>5. CASE DrainSkip(c) \/ DrainCanceled(c) \/ DrainDenied(c) \/ DrainBreak(c)
  <2>1. UNCHANGED <<ret, outcome, closed, dirty>>
    BY <1>5 DEF DrainSkip, DrainCanceled, DrainDenied, DrainBreak, memory
  <2>2. \A m \in Mutators : answer'[m] = answer[m] \/ answer'[m] \in {"canceled", "misuse"}
    BY <1>0, <1>5 DEF DrainSkip, DrainCanceled, DrainDenied, DrainBreak, AnswerAll
  <2>3. \A r \in Runners : err'[r] = err[r] \/ err'[r] \in {"canceled", "misuse"}
    BY <1>0, <1>5 DEF DrainSkip, DrainCanceled, DrainDenied, DrainBreak, Abort
  <2>4. /\ \A m \in Mutators : answer'[m] = answer[m] \/ Caused(answer'[m], closed', dirty')
        /\ \A r \in Runners : err'[r] = err[r] \/ Caused(err'[r], closed', dirty')
    BY <2>2, <2>3 DEF Caused
  <2> QED
    BY <2>1, <2>4, CausesKept
<1>6. CASE DrainInsert(c)
  <2>1. UNCHANGED <<ret, answer, err, closed, dirty>>
    BY <1>6 DEF DrainInsert, calls
  <2>2. \A r \in Runners : outcome'[r] = outcome[r] \/ Caused(outcome'[r], closed', dirty')
    BY <1>0, <1>6, <2>1, ResultsCaused DEF DrainInsert
  <2> QED
    BY <2>1, <2>2, CausesKept
<1>7. CASE DrainAnswer(c)
  <2>1. UNCHANGED <<ret, outcome, err, closed, dirty>>
    BY <1>7 DEF DrainAnswer
  <2>2. \A what \in Answers(c) : Caused(what, closed, dirty)
    BY ResultsCaused DEF Answers, CausesInv, Caused
  <2>3. \A m \in Mutators : answer'[m] = answer[m] \/ Caused(answer'[m], closed', dirty')
    BY <1>0, <1>7, <2>1, <2>2 DEF DrainAnswer
  <2> QED
    BY <2>1, <2>3, CausesKept
<1>8. CASE FailQueued(c)
  <2>1. UNCHANGED <<outcome, err, closed, dirty>> /\ Caused(err[c], closed, dirty)
    BY <1>8 DEF FailQueued, waiting, memory, CausesInv
  <2>2. \A m \in Mutators : answer'[m] = answer[m] \/ Caused(answer'[m], closed', dirty')
    BY <1>8, <2>1 DEF FailQueued
  <2>3. \A d \in Call : ret'[d] = ret[d] \/ Caused(ret'[d], closed', dirty')
    BY <1>0, <1>8 DEF FailQueued, Caused
  <2> QED
    BY <2>1, <2>2, <2>3, CausesKept
<1> QED
  BY <1>1, <1>2, <1>3, <1>4, <1>5, <1>6, <1>7, <1>8 DEF RunnerStep

LEMMA NextCauses ==
  ASSUME TypeInv, CausesInv, [Next]_vars
  PROVE  CausesInv'
<1>1. CASE UNCHANGED vars \/ Quiet
  BY <1>1 DEF Quiet, vars, calls, waiting, memory, CausesInv, Caused
<1>2. ASSUME NEW c \in Call, Invoke(c) \/ Cancel(c) \/ Step(c)
      PROVE  CausesInv'
  BY <1>2, InvokeCauses, GateCauses, MutatorCauses, LoopCauses DEF Step
<1> QED
  BY <1>1, <1>2 DEF Next

LEMMA SpecPromise == Spec => [](TypeInv /\ QueueInv /\ PromiseInv /\ CausesInv)
BY InitQueue, InitPromise, InitCauses, NextQueue, NextPromise, NextCauses, SpecTyped, PTL
   DEF Spec

(***************************************************************************)
(* The refinement: what a caller knows is what Service calls told.         *)
(***************************************************************************)
Known == [m \in Mutators |->
            IF pc[m] = "idle" THEN "unmade"
            ELSE IF pc[m] = "done" THEN ret[m] ELSE "open"]

Seen   == <<Known, effects, <<closed, dirty>>>>
Serves == [Service!Next]_Seen

\* No caller learns anything.
Untold == \A m \in Mutators : pc'[m] = pc[m] /\ ret'[m] = ret[m]

LEMMA Silent ==
  ASSUME Untold
  PROVE  Known' = Known
BY DEF Untold, Known

LEMMA InitServed == Init => Service!Init
<1> SUFFICES ASSUME Init PROVE Service!Init
  OBVIOUS
<1>1. \A m \in Mutators : pc[m] = "idle"
  BY AreCalls DEF Init
<1> QED
  BY <1>1 DEF Init, Service!Init

\* A call that moves alone submits its mutation, learns what became of it, gives
\* up, or goes on unseen.
LEMMA CallServed ==
  ASSUME TypeInv, PromiseInv, CausesInv', NEW c \in Call, CallStep(c),
         UNCHANGED <<closed, dirty>>
  PROVE  Serves
<1> USE DEF CallStep, Still, OthersStand, Serves, Seen, Service!condition
<1>1. CASE c \notin Mutators
  <2>1. Untold
    BY <1>1, AreCalls DEF Untold
  <2> QED
    BY <2>1, Silent
<1>2. CASE c \in Mutators
  <2>1. /\ Minds(c) /\ \A m \in Mutators : m # c => pc'[m] = pc[m] /\ ret'[m] = ret[m]
        /\ UNCHANGED effects
    BY <1>2, AreCalls
  <2>2. \A what : Known'[c] = what => Known' = [Known EXCEPT ![c] = what]
    BY <1>2, <2>1 DEF Known
  <2>3. Service!Took(c) <=> Took(c)
    BY DEF Service!Took, Took
  <2>4. CASE Known'[c] = Known[c]
    <3>1. Known' = Known
      BY <1>2, <2>2, <2>4 DEF Known
    <3> QED
      BY <2>1, <3>1
  <2>5. CASE Known'[c] # Known[c] /\ pc[c] = "idle" /\ pc'[c] # "done"
    <3>1. Known[c] = "unmade" /\ Known'[c] = "open"
      BY <1>2, <2>5 DEF Known
    <3>2. Service!Submit(c)
      BY <2>1, <2>2, <3>1 DEF Known, Service!Submit, Service!Tell
    <3> QED
      BY <1>2, <3>2 DEF Service!Next
  <2>6. CASE Known'[c] # Known[c] /\ pc[c] = "idle" /\ pc'[c] = "done"
    <3>1. Known[c] = "unmade" /\ Known'[c] = "canceled"
      BY <1>2, <2>1, <2>6 DEF Known, Minds
    <3>2. Service!GiveUp(c)
      BY <2>1, <2>2, <3>1 DEF Known, Service!GiveUp, Service!Tell
    <3> QED
      BY <1>2, <3>2 DEF Service!Next
  <2>7. CASE Known'[c] # Known[c] /\ pc[c] # "idle"
    <3>1. Known[c] = "open" /\ pc'[c] = "done" /\ Known'[c] = ret'[c]
      BY <1>2, <2>1, <2>7 DEF Known, Minds
    <3>2. Agrees(ret'[c], Took(c))
      BY <2>1, <3>1 DEF Minds, Stands
    <3>3. CASE ret'[c] = "ok"
      <4>1. Service!Confirm(c)
        BY <2>1, <2>2, <2>3, <3>1, <3>2, <3>3
           DEF Agrees, Known, Service!Confirm, Service!Tell
      <4> QED
        BY <1>2, <4>1 DEF Service!Next
    <3>4. CASE ret'[c] = "canceled"
      <4>1. Service!GiveUp(c)
        BY <2>1, <2>2, <3>1, <3>4 DEF Known, Service!GiveUp, Service!Tell
      <4> QED
        BY <1>2, <4>1 DEF Service!Next
    <3>5. CASE ret'[c] \in Refused
      <4>0. PICK why \in Refused : why = ret'[c]
        BY <3>5
      <4>1. ~Service!Took(c) /\ why \in {"misuse", "failed"}
        BY <2>3, <3>2, <3>5, <4>0 DEF Agrees, Refused
      <4>2. Service!Tell(c, why) /\ Known[c] = "open"
        BY <2>1, <2>2, <3>1, <4>0 DEF Known, Service!Tell
      <4>3. Service!Decline(c)
        BY <4>1, <4>2 DEF Known, Service!Decline
      <4> QED
        BY <1>2, <4>3 DEF Service!Next
    <3>6. CASE ret'[c] \in Failed
      <4>1. Caused(ret'[c], closed, dirty)
        BY <1>2 DEF CausesInv
      <4>2. PICK why \in Failed : why = ret'[c]
        BY <3>6
      <4>3. Service!Tell(c, why) /\ Known[c] = "open"
        BY <2>1, <2>2, <3>1, <4>2 DEF Known, Service!Tell
      <4>4. \/ why = "closed" /\ closed
            \/ why = "unsupported" /\ dirty
            \/ why = "error"
        BY <4>1, <4>2 DEF Failed, Caused
      <4>5. Service!Fail(c)
        BY <4>3, <4>4 DEF Known, Service!Fail
      <4> QED
        BY <1>2, <4>5 DEF Service!Next
    <3> QED
      BY <3>2, <3>3, <3>4, <3>5, <3>6 DEF Agrees
  <2> QED
    BY <2>4, <2>5, <2>6, <2>7
<1> QED
  BY <1>1, <1>2

\* A mutation takes effect once, while its caller waits or has given up.
LEMMA InsertServed ==
  ASSUME TypeInv, PromiseInv, NEW c \in Mutators, Insert(c)
  PROVE  Serves
<1> USE DEF Serves, Seen, Service!condition
<1>0. UNCHANGED <<closed, dirty>>
  BY DEF Insert
<1>1. PICK result \in Applied(c) :
        /\ Record(c, result) /\ ret' = [ret EXCEPT ![c] = result]
        /\ pc' = [pc EXCEPT ![c] = IF result = "ok" THEN "notify" ELSE "leave"]
  BY DEF Insert, Goto
<1>2. pc[c] = "insert" /\ c \in Call /\ pc \in [Call -> Locations] /\ ret \in [Call -> Outcomes]
  BY AreCalls DEF Insert, TypeInv, Inv, Types, Values
<1>3. Known' = Known /\ Known[c] = "open"
  BY <1>1, <1>2, AreCalls DEF Known
<1>4. CASE effects' = effects
  BY <1>0, <1>3, <1>4
<1>5. CASE effects' = Append(effects, c) /\ ~closed
  <2>1. ~Service!Took(c)
    BY <1>2 DEF PromiseInv, Stands, EarlySites, Took, Service!Took
  <2>2. Service!TakeEffect(c)
    BY <1>0, <1>3, <1>5, <2>1 DEF Known, Service!TakeEffect
  <2> QED
    BY <2>2 DEF Service!Next
<1> QED
  BY <1>1, <1>4, <1>5 DEF Record, Applied

LEMMA DrainInsertServed ==
  ASSUME TypeInv, QueueInv, PromiseInv, NEW c \in Runners, DrainInsert(c)
  PROVE  Serves
<1> USE DEF Serves, Seen, Service!condition
<1>0. UNCHANGED <<closed, dirty>>
  BY DEF DrainInsert
<1>1. /\ pc[c] = "drainInsert" /\ batch[c] # <<>> /\ UNCHANGED ret
      /\ c \in Call /\ pc \in [Call -> Locations]
  BY AreCalls DEF DrainInsert, calls, TypeInv, Inv, Types, BatchHeld, PopSites
<1>2. Untold
  BY <1>1, Apart, AreCalls DEF DrainInsert, Goto, Untold
<1>3. Known' = Known
  BY <1>2, Silent
<1>4. PICK x \in Mutators : x = Head(batch[c])
  BY <1>1, RestWaits
<1>5. ~Took(x) /\ Awaited(x) /\ Waits(x)
  <2>1. x = batch[c][1] /\ 1 \in DOMAIN batch[c] /\ ~InHand(c)
    BY <1>1, <1>4, RestWaits DEF InHand
  <2> QED
    BY <2>1, WaitingOnce DEF PromiseInv, InTurn
<1>6. CASE effects' = effects
  BY <1>0, <1>3, <1>6
<1>7. CASE effects' = Append(effects, x) /\ ~closed
  <2>1. ~Service!Took(x)
    BY <1>5 DEF Took, Service!Took
  <2>2. Known[x] \in {"open", "canceled"}
    BY <1>5 DEF Known, Waits, Awaited
  <2>3. Service!TakeEffect(x)
    BY <1>0, <1>3, <1>7, <2>1, <2>2 DEF Known, Service!TakeEffect
  <2> QED
    BY <2>3 DEF Service!Next
<1> QED
  BY <1>4, <1>6, <1>7 DEF DrainInsert, Record, Applied

LEMMA ActServed ==
  ASSUME TypeInv, NEW c \in Runners, Act(c)
  PROVE  Serves
<1> USE DEF Serves, Seen, Service!condition
<1>1. /\ \A d \in Call : d # c => pc'[d] = pc[d]
      /\ UNCHANGED <<ret, closed, dirty>>
  BY DEF Act, Abort, Goto, calls, TypeInv, Inv, Types
<1>2. Known' = Known
  BY <1>1, Apart, AreCalls, Silent DEF Untold
<1>3. CASE effects' = effects
  BY <1>1, <1>2, <1>3
<1>4. CASE effects' = Append(effects, c)
  <2>1. Service!RuleAction
    BY <1>1, <1>2, <1>4 DEF Known, Service!RuleAction
  <2> QED
    BY <2>1 DEF Service!Next
<1> QED
  BY <1>3, <1>4 DEF Act

\* Closing the session and losing a delta are seen; no caller is told.
LEMMA ConditionServed ==
  ASSUME TypeInv, NEW c \in Call,
         (Shut(c) /\ c \notin Mutators) \/ (c \in Runners /\ Acted(c))
  PROVE  Serves
<1>1. c \notin Mutators /\ UNCHANGED effects
  BY Apart DEF Shut, Acted
<1>2. Known' = Known
  <2>1. \A d \in Call : d # c => pc'[d] = pc[d] /\ ret'[d] = ret[d]
    BY DEF Shut, Acted, Abort, Goto, calls, TypeInv, Inv, Types, Values
  <2> QED
    BY <1>1, <2>1, AreCalls, Silent DEF Untold
<1>3. \/ closed' = TRUE /\ UNCHANGED dirty
      \/ UNCHANGED closed /\ dirty' \in {dirty, TRUE}
  BY DEF Shut, Acted
<1>4. Service!Shut \/ Service!Lose \/ UNCHANGED Seen
  BY <1>1, <1>2, <1>3 DEF Service!Shut, Service!Lose, Seen, Known
<1> QED
  BY <1>4 DEF Serves, Service!Next

LEMMA NextServed ==
  ASSUME TypeInv, QueueInv, PromiseInv, CausesInv', [Next]_vars
  PROVE  Serves
<1>1. CASE UNCHANGED vars \/ Quiet
  <2>1. UNCHANGED <<pc, ret, effects, closed, dirty>>
    BY <1>1 DEF Quiet, vars, local, calls, memory
  <2> QED
    BY <2>1 DEF Known, Serves, Seen
<1>2. ASSUME NEW c \in Call, Invoke(c) \/ Cancel(c) \/ GateStep(c)
      PROVE  Serves
  <2>1. CASE Shut(c)
    <3>1. c \notin Mutators
      BY <2>1 DEF Shut, PromiseInv, Stands, MutatorSites, EarlySites
    <3> QED
      BY <2>1, <3>1, ConditionServed
  <2>2. CASE Invoke(c) \/ Cancel(c)
    <3>1. UNCHANGED <<closed, dirty>>
      BY <2>2 DEF Invoke, InvokeMutation, InvokeOther, InvokeClose, Cancel, memory
    <3> QED
      BY <2>2, <3>1, InvokeMinds, CallServed
  <2>3. CASE GateStep(c) /\ ~Shut(c)
    <3>1. UNCHANGED <<closed, dirty>>
      BY <2>3 DEF GateStep, ProbeHeld, ProbeFree, ProbeDone, TakeMutate, TakeLock,
         LockTaken, Refuse, LockOnly, DropLock, DropMutate, BeginDispatch,
         EndDispatch, NoDispatch, Read, memory
    <3> QED
      BY <2>3, <3>1, GateMinds, CallServed
  <2> QED
    BY <1>2, <2>1, <2>2, <2>3
<1>3. ASSUME NEW c \in Mutators, MutatorStep(c)
      PROVE  Serves
  <2>1. CASE Enqueue(c)
    <3>1. Known' = Known /\ UNCHANGED <<effects, closed, dirty>>
      BY <2>1, AreCalls DEF Enqueue, Goto, Known, calls, memory, TypeInv, Inv, Types
    <3> QED
      BY <3>1 DEF Serves, Seen
  <2>2. CASE LockQueue(c) \/ UnlockQueue(c) \/ Receive(c) \/ Attach(c)
    <3>1. UNCHANGED <<closed, dirty>>
      BY <2>2 DEF LockQueue, UnlockQueue, Receive, Attach, memory
    <3> QED
      BY <2>2, <3>1, AreCalls, MutatorMinds, CallServed
  <2>3. CASE Insert(c)
    BY <2>3, InsertServed
  <2> QED
    BY <1>3, <2>1, <2>2, <2>3 DEF MutatorStep
<1>4. ASSUME NEW c \in Runners, RunnerStep(c)
      PROVE  Serves
  <2>0. c \in Call
    BY AreCalls
  <2>1. CASE \/ Pop(c) \/ DrainSkip(c) \/ DrainCanceled(c) \/ DrainDenied(c)
             \/ DrainAnswer(c) \/ DrainBreak(c) \/ FailQueued(c)
    <3>1. Drains(c)
      BY <2>1, LoopDrains
    <3>2. Untold /\ UNCHANGED effects
      BY <3>1, Apart, AreCalls DEF Drains, OthersStand, Untold
    <3>3. UNCHANGED <<closed, dirty>>
      BY <2>1 DEF Pop, DrainSkip, DrainCanceled, DrainDenied, DrainAnswer,
         DrainBreak, FailQueued, memory
    <3> QED
      BY <3>2, <3>3, Silent DEF Serves, Seen
  <2>2. CASE \/ BeginRun(c) \/ RefuseRun(c) \/ QueryWithoutProof(c) \/ Top(c)
             \/ DrainNext(c) \/ Precheck(c) \/ Check(c) \/ ActRefused(c)
             \/ EndRun(c) \/ Cleanup(c)
    <3>1. UNCHANGED <<closed, dirty>>
      BY <2>2 DEF BeginRun, RefuseRun, QueryWithoutProof, Top, DrainNext, Precheck,
         Check, ActRefused, EndRun, Cleanup, memory
    <3> QED
      BY <2>0, <2>2, <3>1, LoopMinds, CallServed
  <2>3. CASE Acted(c)
    BY <2>0, <2>3, ConditionServed
  <2> QED
    BY <1>4, <2>1, <2>2, <2>3, DrainInsertServed, ActServed DEF RunnerStep
<1> QED
  BY <1>1, <1>2, <1>3, <1>4 DEF Next, Step

\* Whatever is queued, refused, canceled or dropped, a caller that is told "ok"
\* had its mutation applied, once; one that is refused as misuse, or with the run
\* that failed, never has it applied; "closed" and "unsupported" are told of a
\* session that is closed and of an agenda that lost a delta, though perhaps of a
\* mutation that was committed; and only a canceled caller does not know.
THEOREM PromiseKept == Spec => KeepsPromise
<1>1. TypeInv /\ QueueInv /\ PromiseInv /\ CausesInv' /\ [Next]_vars
        => [Service!Next]_<<Known, effects, <<closed, dirty>>>>
  BY NextServed DEF Serves, Seen
<1> QED
  BY <1>1, InitServed, SpecPromise, PTL
     DEF Spec, KeepsPromise, Service!Spec, Service!condition, Known

(***************************************************************************)
(* Until a context is canceled, nobody is forgotten.                       *)
(***************************************************************************)
\* Everybody who joined the queue has an answer, or waits for one.
Remembered ==
  \A i \in DOMAIN arrivals :
    \/ answer[arrivals[i]] # "none"
    \/ arrivals[i] \in Elems(queue)
    \/ \E r \in Runners : arrivals[i] \in Elems(batch[r])

PoppedInv == AllLive => Remembered /\ \A r \in Runners : outcome[r] # "canceled"

LEMMA StaysCanceled ==
  ASSUME TypeInv, [Next]_vars, AllLive'
  PROVE  AllLive
<1>1. CASE UNCHANGED vars \/ Quiet
  BY <1>1 DEF Quiet, vars, calls, AllLive
<1>2. ASSUME NEW c \in Call, Invoke(c)
      PROVE  UNCHANGED ctx
  BY <1>2 DEF Invoke, InvokeMutation, InvokeOther, InvokeClose
<1>3. ASSUME NEW c \in Call, Cancel(c)
      PROVE  FALSE
  BY <1>3 DEF Cancel, AllLive, TypeInv, Values
<1>4. ASSUME NEW c \in Call, GateStep(c)
      PROVE  UNCHANGED ctx
  BY <1>4 DEF GateStep, ProbeHeld, ProbeFree, ProbeDone, TakeMutate, TakeLock,
     LockTaken, Refuse, LockOnly, DropLock, DropMutate, BeginDispatch,
     EndDispatch, NoDispatch, Read, Shut, calls
<1>5. ASSUME NEW c \in Call, MutatorStep(c)
      PROVE  UNCHANGED ctx
  BY <1>5 DEF MutatorStep, LockQueue, Enqueue, UnlockQueue, Receive, Insert,
     Attach, calls
<1>6. ASSUME NEW c \in Call, RunnerStep(c)
      PROVE  UNCHANGED ctx
  BY <1>6 DEF RunnerStep, BeginRun, RefuseRun, QueryWithoutProof, Top, Pop,
     DrainNext, DrainSkip, DrainCanceled, DrainDenied, DrainInsert,
     DrainAnswer, DrainBreak, Precheck, Check, Act, ActRefused, Acted,
     FailQueued, EndRun, Cleanup, calls
<1> QED
  BY <1>1, <1>2, <1>3, <1>4, <1>5, <1>6 DEF Next, Step, AllLive

LEMMA HeadTail ==
  ASSUME NEW s \in Seq(Mutators), s # <<>>
  PROVE  Elems(s) = {Head(s)} \cup Elems(Tail(s)) /\ Head(s) \in Mutators
<1>1. /\ Tail(s) \in Seq(Mutators) /\ Len(Tail(s)) = Len(s) - 1
      /\ \A i \in 1 .. Len(Tail(s)) : Tail(s)[i] = s[i + 1]
      /\ Len(s) \in Nat /\ Len(s) >= 1 /\ Head(s) = s[1] /\ DOMAIN s = 1 .. Len(s)
      /\ DOMAIN Tail(s) = 1 .. Len(Tail(s))
  BY HeadTailProperties
<1>2. ASSUME NEW i \in 1 .. Len(s)
      PROVE  s[i] \in {Head(s)} \cup Elems(Tail(s))
  <2>1. CASE i = 1
    BY <1>1, <2>1
  <2>2. CASE i # 1
    <3>1. i - 1 \in 1 .. Len(Tail(s)) /\ Tail(s)[i - 1] = s[i]
      BY <1>1, <2>2
    <3> QED
      BY <1>1, <3>1 DEF Elems
  <2> QED
    BY <2>1, <2>2
<1>3. ASSUME NEW i \in 1 .. Len(Tail(s))
      PROVE  Tail(s)[i] \in Elems(s)
  BY <1>1 DEF Elems
<1>4. Head(s) \in Elems(s) /\ Head(s) \in Mutators
  BY <1>1 DEF Elems
<1>5. Elems(s) \subseteq {Head(s)} \cup Elems(Tail(s))
  BY <1>1, <1>2 DEF Elems
<1>6. Elems(Tail(s)) \subseteq Elems(s)
  BY <1>1, <1>3 DEF Elems
<1> QED
  BY <1>4, <1>5, <1>6

\* A request that gets no answer keeps its place.
KeepsPlaces ==
  /\ UNCHANGED arrivals
  /\ \A m \in Mutators :
       answer'[m] = "none" =>
         /\ answer[m] = "none"
         /\ m \in Elems(queue) => m \in Elems(queue') \/ \E r \in Runners : m \in Elems(batch'[r])
         /\ \A r \in Runners : m \in Elems(batch[r]) => m \in Elems(batch'[r])

LEMMA KeptRemembered ==
  ASSUME TypeInv, Remembered, KeepsPlaces
  PROVE  Remembered'
<1>1. \A i \in DOMAIN arrivals : arrivals[i] \in Mutators
  BY DEF TypeInv, Values
<1>2. ASSUME NEW i \in DOMAIN arrivals, answer'[arrivals[i]] = "none"
      PROVE  arrivals[i] \in Elems(queue') \/ \E r \in Runners : arrivals[i] \in Elems(batch'[r])
  BY <1>1, <1>2 DEF Remembered, KeepsPlaces
<1> QED
  BY <1>2 DEF Remembered, KeepsPlaces, Elems

LEMMA LoopPlaces ==
  ASSUME TypeInv, PromiseInv, NEW c \in Runners, AllLive, outcome[c] # "canceled",
         \/ Pop(c) \/ DrainSkip(c) \/ DrainCanceled(c) \/ DrainDenied(c)
         \/ DrainAnswer(c) \/ DrainBreak(c) \/ FailQueued(c)
  PROVE  KeepsPlaces
<1>0. /\ c \in Call /\ batch \in [Runners -> Seq(Mutators)] /\ queue \in Seq(Mutators)
      /\ answer \in [Mutators -> Outcomes]
  BY AreCalls DEF TypeInv, Values
<1>1. CASE Pop(c)
  <2>1. /\ UNCHANGED <<arrivals, answer>> /\ batch'[c] = queue /\ batch[c] = <<>>
        /\ \A r \in Runners : r # c => batch'[r] = batch[r]
    BY <1>0, <1>1 DEF Pop, calls
  <2>2. Elems(batch[c]) = {}
    BY <2>1 DEF Elems
  <2> QED
    BY <2>1, <2>2 DEF KeepsPlaces
<1>2. CASE DrainSkip(c) \/ DrainAnswer(c)
  <2>1. /\ UNCHANGED <<arrivals, queue>> /\ batch[c] # <<>> /\ batch'[c] = Tail(batch[c])
        /\ \A r \in Runners : r # c => batch'[r] = batch[r]
    BY <1>0, <1>2 DEF DrainSkip, DrainAnswer, TypeInv, BatchHeld, PopSites
  <2>2. PICK why : why # "none" /\ answer' = [answer EXCEPT ![Head(batch[c])] = why]
    <3>1. \A result \in Answers(c) : pc[c] = "drainAnswer" => result # "none"
      BY DEF Answers, Reconciled, PromiseInv, RunSays, Failed
    <3> QED
      BY <1>2, <3>1 DEF DrainSkip, DrainAnswer
  <2>3. Elems(batch[c]) = {Head(batch[c])} \cup Elems(batch'[c]) /\ Head(batch[c]) \in Mutators
    BY <1>0, <2>1, HeadTail
  <2>4. \A m \in Mutators : answer'[m] = "none" => answer[m] = "none" /\ m # Head(batch[c])
    BY <1>0, <2>2, <2>3
  <2>5. \A r \in Runners, m \in Mutators :
          answer'[m] = "none" /\ m \in Elems(batch[r]) => m \in Elems(batch'[r])
    BY <2>1, <2>3, <2>4
  <2> QED
    BY <2>1, <2>4, <2>5 DEF KeepsPlaces
<1>3. CASE DrainCanceled(c) \/ DrainDenied(c)
  <2>1. /\ UNCHANGED <<arrivals, queue>>
        /\ \A r \in Runners : r # c => batch'[r] = batch[r]
    BY <1>0, <1>3 DEF DrainCanceled, DrainDenied
  <2>2. \A m \in Mutators : \/ m \in Elems(batch[c]) /\ answer'[m] # "none"
                            \/ m \notin Elems(batch[c]) /\ answer'[m] = answer[m]
    BY <1>3 DEF DrainCanceled, DrainDenied, AnswerAll
  <2>3. \A r \in Runners, m \in Mutators :
          answer'[m] = "none" /\ m \in Elems(batch[r]) => m \in Elems(batch'[r])
    BY <2>1, <2>2
  <2> QED
    BY <2>1, <2>2, <2>3 DEF KeepsPlaces
<1>4. CASE DrainBreak(c)
  BY <1>0, <1>4 DEF DrainBreak, Answers, Reconciled, AllLive
<1>5. CASE FailQueued(c)
  <2>1. UNCHANGED <<arrivals, batch>> /\ err[c] # "none"
    BY <1>5 DEF FailQueued, PromiseInv, RunSays
  <2>2. \A m \in Mutators : \/ m \in Elems(queue) /\ answer'[m] # "none"
                            \/ m \notin Elems(queue) /\ answer'[m] = answer[m]
    BY <1>5, <2>1 DEF FailQueued
  <2> QED
    BY <2>1, <2>2 DEF KeepsPlaces
<1> QED
  BY <1>1, <1>2, <1>3, <1>4, <1>5

LEMMA JoinRemembered ==
  ASSUME TypeInv, Remembered, NEW c \in Mutators, Enqueue(c)
  PROVE  Remembered'
<1>1. /\ queue' = Append(queue, c) /\ arrivals' = Append(arrivals, c)
      /\ UNCHANGED <<answer, batch>>
      /\ queue \in Seq(Mutators) /\ arrivals \in Seq(Mutators)
  BY DEF Enqueue, calls, TypeInv, Values
<1>2. Elems(queue') = Elems(queue) \cup {c}
  <2>1. /\ DOMAIN queue = 1 .. Len(queue) /\ Len(queue) \in Nat
        /\ DOMAIN queue' = 1 .. Len(queue) + 1 /\ queue'[Len(queue) + 1] = c
        /\ \A i \in 1 .. Len(queue) : queue'[i] = queue[i]
    BY <1>1, AppendProperties
  <2>2. \A i \in 1 .. Len(queue) + 1 : queue'[i] \in Elems(queue) \cup {c}
    <3> SUFFICES ASSUME NEW i \in 1 .. Len(queue) + 1
                 PROVE  queue'[i] \in Elems(queue) \cup {c}
      OBVIOUS
    <3>1. i \in 1 .. Len(queue) \/ i = Len(queue) + 1
      BY <2>1
    <3> QED
      BY <2>1, <3>1 DEF Elems
  <2>3. \A i \in 1 .. Len(queue) : queue[i] \in {queue'[j] : j \in 1 .. Len(queue) + 1}
    BY <2>1
  <2>4. Elems(queue') = {queue'[j] : j \in 1 .. Len(queue) + 1}
        /\ Elems(queue) = {queue[j] : j \in 1 .. Len(queue)}
    BY <2>1 DEF Elems
  <2>5. c \in Elems(queue')
    BY <2>1, <2>4
  <2>6. Elems(queue) \subseteq Elems(queue')
    BY <2>3, <2>4
  <2>7. Elems(queue') \subseteq Elems(queue) \cup {c}
    BY <2>2, <2>4
  <2> QED
    BY <2>5, <2>6, <2>7
<1>3. ASSUME NEW i \in DOMAIN arrivals'
      PROVE  \/ i \in DOMAIN arrivals /\ arrivals'[i] = arrivals[i]
             \/ arrivals'[i] = c
  <2>1. /\ DOMAIN arrivals = 1 .. Len(arrivals) /\ Len(arrivals) \in Nat
        /\ DOMAIN arrivals' = 1 .. Len(arrivals) + 1 /\ arrivals'[Len(arrivals) + 1] = c
        /\ \A j \in 1 .. Len(arrivals) : arrivals'[j] = arrivals[j]
    BY <1>1, AppendProperties
  <2> QED
    BY <2>1
<1>4. ASSUME NEW i \in DOMAIN arrivals'
      PROVE  \/ answer'[arrivals'[i]] # "none"
             \/ arrivals'[i] \in Elems(queue')
             \/ \E r \in Runners : arrivals'[i] \in Elems(batch'[r])
  BY <1>1, <1>2, <1>3 DEF Remembered
<1> QED
  BY <1>4 DEF Remembered, Elems

LEMMA NextPopped ==
  ASSUME TypeInv, QueueInv, PromiseInv, PoppedInv, [Next]_vars
  PROVE  PoppedInv'
<1> SUFFICES ASSUME AllLive'
             PROVE  Remembered' /\ \A r \in Runners : outcome'[r] # "canceled"
  BY DEF PoppedInv
<1>1. AllLive /\ Remembered /\ \A r \in Runners : outcome[r] # "canceled"
  BY StaysCanceled DEF PoppedInv
<1>2. ASSUME Untouched, UNCHANGED outcome
      PROVE  Remembered' /\ \A r \in Runners : outcome'[r] # "canceled"
  BY <1>1, <1>2 DEF Untouched, Remembered, Elems
<1>3. CASE UNCHANGED vars \/ Quiet
  BY <1>2, <1>3 DEF Quiet, vars, calls, waiting, Untouched
<1>4. ASSUME NEW c \in Call, Invoke(c) \/ Cancel(c) \/ GateStep(c)
      PROVE  Remembered' /\ \A r \in Runners : outcome'[r] # "canceled"
  BY <1>2, <1>4, InvokeKeeps, GateKeeps, InvokeMinds, GateMinds DEF CallStep, Still
<1>5. ASSUME NEW c \in Mutators, MutatorStep(c)
      PROVE  Remembered' /\ \A r \in Runners : outcome'[r] # "canceled"
  <2>1. c \in Call
    BY AreCalls
  <2>2. CASE Enqueue(c)
    BY <1>1, <2>2, JoinRemembered DEF Enqueue
  <2>3. CASE LockQueue(c) \/ UnlockQueue(c) \/ Receive(c) \/ Insert(c) \/ Attach(c)
    <3>1. Untouched /\ UNCHANGED outcome
      BY <2>3 DEF LockQueue, UnlockQueue, Receive, Insert, Attach, Untouched,
         calls, waiting
    <3> QED
      BY <1>2, <3>1
  <2> QED
    BY <1>5, <2>2, <2>3 DEF MutatorStep
<1>6. ASSUME NEW c \in Runners, RunnerStep(c)
      PROVE  Remembered' /\ \A r \in Runners : outcome'[r] # "canceled"
  <2>1. CASE CallStep(c) /\ UNCHANGED arrivals
    BY <1>2, <2>1 DEF CallStep, Still, Untouched
  <2>2. CASE Act(c)
    BY <1>2, <2>2 DEF Act, Untouched, calls, waiting
  <2>3. CASE DrainInsert(c)
    <3>1. Untouched
      BY <2>3 DEF DrainInsert, Untouched, calls
    <3>2. Head(batch[c]) \in Call /\ outcome \in [Runners -> Outcomes]
      BY <2>3, RestWaits, AreCalls DEF DrainInsert, TypeInv, BatchHeld, PopSites, Values
    <3>3. \A r \in Runners : outcome'[r] # "canceled"
      BY <1>1, <2>3, <3>2 DEF DrainInsert, Applied, AllLive
    <3>4. Remembered'
      BY <1>1, <3>1 DEF Untouched, Remembered, Elems
    <3> QED
      BY <3>3, <3>4
  <2>4. CASE \/ Pop(c) \/ DrainSkip(c) \/ DrainCanceled(c) \/ DrainDenied(c)
             \/ DrainAnswer(c) \/ DrainBreak(c) \/ FailQueued(c)
    <3>1. KeepsPlaces /\ UNCHANGED outcome
      BY <1>1, <2>4, LoopPlaces, LoopDrains DEF Drains
    <3> QED
      BY <1>1, <3>1, KeptRemembered
  <2>5. UNCHANGED arrivals
    BY <1>6 DEF RunnerStep, BeginRun, RefuseRun, QueryWithoutProof, Top, Pop,
       DrainNext, DrainSkip, DrainCanceled, DrainDenied, DrainInsert,
       DrainAnswer, DrainBreak, Precheck, Check, Act, ActRefused, Acted,
       FailQueued, EndRun, Cleanup, waiting
  <2> QED
    BY <1>6, <2>1, <2>2, <2>3, <2>4, <2>5, LoopMinds DEF RunnerStep
<1> QED
  BY <1>3, <1>4, <1>5, <1>6 DEF Next, Step

\* What has left the queue is at the front of those who joined it.
LEMMA RememberedAnswered ==
  ASSUME TypeInv, QueueInv, Remembered
  PROVE  EveryPoppedAnswered
<1> DEFINE n == Len(arrivals)
           w == Len(Waiting)
<1>1. PICK b \in Seq(Mutators) :
        /\ Waiting = b \o queue
        /\ \A r \in Runners : batch[r] = b \/ batch[r] = <<>>
  BY WaitingSplits
<1>2. /\ queue \in Seq(Mutators) /\ arrivals \in Seq(Mutators) /\ Waiting \in Seq(Mutators)
      /\ DOMAIN arrivals = 1 .. n
  BY <1>1, ConcatProperties DEF TypeInv, Values
<1>3. n \in Nat /\ w \in Nat /\ w =< n
  BY <1>2 DEF QueueInv
<1>4. ASSUME NEW m, m \in Elems(queue) \/ \E r \in Runners : m \in Elems(batch[r])
      PROVE  \E j \in 1 .. w : Waiting[j] = m
  <2>1. /\ w = Len(b) + Len(queue) /\ Len(b) \in Nat /\ Len(queue) \in Nat
        /\ DOMAIN b = 1 .. Len(b) /\ DOMAIN queue = 1 .. Len(queue)
        /\ \A i \in 1 .. Len(b) + Len(queue) :
             Waiting[i] = IF i <= Len(b) THEN b[i] ELSE queue[i - Len(b)]
    BY <1>1, <1>2, ConcatProperties
  <2>2. CASE m \in Elems(queue)
    <3>1. PICK i \in 1 .. Len(queue) : queue[i] = m
      BY <2>1, <2>2 DEF Elems
    <3>2. Len(b) + i \in 1 .. w /\ ~(Len(b) + i <= Len(b)) /\ (Len(b) + i) - Len(b) = i
      BY <2>1
    <3> QED
      BY <2>1, <3>1, <3>2
  <2>3. CASE m \in Elems(b)
    <3>1. PICK i \in 1 .. Len(b) : b[i] = m
      BY <2>1, <2>3 DEF Elems
    <3>2. i \in 1 .. w /\ i <= Len(b)
      BY <2>1
    <3> QED
      BY <2>1, <3>1, <3>2
  <2>4. Elems(<<>>) = {}
    BY DEF Elems
  <2> QED
    BY <1>1, <1>4, <2>2, <2>3, <2>4
<1>5. ASSUME NEW i \in 1 .. n - w, answer[arrivals[i]] = "none"
      PROVE  FALSE
  <2>1. i \in 1 .. n
    BY <1>3
  <2>2. PICK j \in 1 .. w : Waiting[j] = arrivals[i]
    BY <1>2, <1>4, <1>5, <2>1 DEF Remembered
  <2>3. arrivals[n - w + j] = arrivals[i] /\ n - w + j \in 1 .. n
    BY <1>3, <2>2 DEF QueueInv
  <2>4. n - w + j = i
    <3>1. \A x, y \in 1 .. n : arrivals[x] = arrivals[y] => x = y
      BY DEF QueueInv
    <3> QED
      BY <2>1, <2>3, <3>1
  <2> QED
    BY <1>3, <2>4
<1> QED
  BY <1>5 DEF EveryPoppedAnswered, Served

LEMMA InitPopped == Init => PoppedInv
BY DEF Init, PoppedInv, Remembered

\* As long as no context has been canceled, every request that has left the queue
\* has its answer: no refusal, failure, halt or close makes a run forget one.
THEOREM NobodyForgotten == Spec => []AnsweredWhileLive
<1>1. TypeInv /\ QueueInv /\ PoppedInv => AnsweredWhileLive
  BY RememberedAnswered DEF PoppedInv, AnsweredWhileLive
<1>2. TypeInv /\ QueueInv /\ PromiseInv /\ PoppedInv /\ [Next]_vars => PoppedInv'
  BY NextPopped
<1> QED
  BY <1>1, <1>2, InitPopped, SpecPromise, PTL DEF Spec
=============================================================================
