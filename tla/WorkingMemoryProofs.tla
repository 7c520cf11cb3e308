-------------------------- MODULE WorkingMemoryProofs ------------------------
(***************************************************************************)
(* Proofs about WorkingMemory, for every set of contents, rules and names. *)
(***************************************************************************)
EXTENDS WorkingMemoryProps, TLAPS

(***************************************************************************)
(* Types.                                                                  *)
(***************************************************************************)
\* What is known of the operation under way, and of what it would restore.
WorkWell ==
  /\ Idle => work = NoWork /\ undo = Empty
  /\ work.op = "replace" =>
       /\ work.put \in Contents
       /\ work.as \in {"stated", "logical"}
       /\ work.as = "logical" => firing # Nothing

TypeInv == MemoryTypeOK /\ WorkWell

LEMMA HoldsMatch == \A s : Holds(s) \subseteq Match
BY DEF Holds, MatchIn, Standing, Facts, Match

LEMMA LostMatch == Lost \subseteq Match /\ Gained \subseteq Match
BY HoldsMatch DEF Lost, Gained

LEMMA MemoryTypes ==
  ASSUME MemoryTypeOK
  PROVE  /\ says \in [Names -> Contents \cup {Nothing}] /\ how \in [Names -> Held]
         /\ edges \subseteq Match \X Names
         /\ undo.says \in [Names -> Contents \cup {Nothing}]
         /\ undo.how \in [Names -> Held]
         /\ undo.edges \subseteq Match \X Names
BY DEF MemoryTypeOK, Memory

LEMMA WorkTypes ==
  ASSUME MemoryTypeOK
  PROVE  /\ work.op \in {"none", "retract", "modify", "replace", "fail"}
         /\ work.sources \subseteq Match /\ work.doubtful \subseteq Names
         /\ work.removed \subseteq Match /\ work.added \subseteq Match
         /\ work.put \in Contents \cup {Nothing} /\ work.as \in Held
BY DEF MemoryTypeOK, Work

LEMMA FreshName == \A n \in Fresh : n \in Names
BY DEF Fresh

LEMMA TellTypes ==
  ASSUME MemoryTypeOK, NEW removed, NEW added, added \subseteq Match, Tell(removed, added)
  PROVE  pending' \subseteq Match /\ consumed' \subseteq Match /\ ready' \in BOOLEAN
BY DEF Tell, MemoryTypeOK, agenda

LEMMA ExcuseTypes ==
  ASSUME MemoryTypeOK, NEW lost, lost \subseteq Match, Excuse(lost)
  PROVE  excused' \subseteq Match
BY DEF Excuse, MemoryTypeOK

LEMMA PutTypes ==
  ASSUME TypeInv, NEW f \in Names, NEW c \in Contents, NEW as \in {"stated", "logical"},
         as = "logical" => firing # Nothing, Put(f, c, as)
  PROVE  /\ says' \in [Names -> Contents \cup {Nothing}]
         /\ how' \in [Names -> Held]
         /\ edges' \subseteq Match \X Names
         /\ excused' \subseteq Match
<1>1. /\ says' \in [Names -> Contents \cup {Nothing}]
      /\ how' \in [Names -> Held]
  BY MemoryTypes DEF Put, TypeInv, Held
<1>5. edges' \subseteq Match \X Names
  <2>1. as = "logical" => <<firing, f>> \in Match \X Names
    BY DEF TypeInv, MemoryTypeOK
  <2>2. edges' = IF as = "logical" THEN edges \cup {<<firing, f>>} ELSE edges
    BY DEF Put
  <2>3. edges \subseteq Match \X Names
    BY MemoryTypes DEF TypeInv
  <2> QED
    BY <2>1, <2>2, <2>3
<1>2. Lost \cup (IF as = "logical" THEN {firing} ELSE {}) \subseteq Match
  BY LostMatch DEF TypeInv, MemoryTypeOK
<1>3. Excuse(Lost \cup (IF as = "logical" THEN {firing} ELSE {}))
  BY DEF Put
<1>4. MemoryTypeOK
  BY DEF TypeInv
<1> QED
  BY <1>1, <1>2, <1>3, <1>4, <1>5, ExcuseTypes

LEMMA BeginTypes ==
  ASSUME TypeInv, NEW op \in {"retract", "modify", "replace"},
         NEW put \in Contents \cup {Nothing}, NEW as \in {"none", "stated", "logical"},
         op = "replace" => /\ put # Nothing /\ as # "none"
                           /\ as = "logical" => firing # Nothing,
         says' \in [Names -> Contents \cup {Nothing}], how' \in [Names -> Held],
         edges' \subseteq edges, Begin(op, put, as)
  PROVE  TypeInv'
<1>1. work' \in Work /\ undo' \in Memory
  BY LostMatch DEF Begin, TypeInv, MemoryTypeOK, Work, Memory, Held
<1>2. MemoryTypeOK'
  BY <1>1 DEF Begin, TypeInv, MemoryTypeOK, Memory, agenda, run
<1>3. WorkWell'
  BY DEF Begin, WorkWell, Idle, run
<1> QED
  BY <1>2, <1>3 DEF TypeInv

LEMMA InitTypes == InitMemory => TypeInv
<1> SUFFICES ASSUME InitMemory PROVE TypeInv
  OBVIOUS
<1> USE MemoryAssumption DEF InitMemory, Empty, NoWork
<1>1. undo \in Memory /\ [says |-> says, how |-> how, edges |-> edges] \in Memory
  BY DEF Memory, Held
<1>2. work \in Work
  BY DEF Work, Held
<1>3. WorkWell
  BY DEF WorkWell, Idle
<1> QED
  BY <1>1, <1>2, <1>3 DEF TypeInv, MemoryTypeOK

LEMMA BeginActionTypes ==
  ASSUME TypeInv, Retract \/ Modify \/ Replace
  PROVE  TypeInv'
<1> USE DEF TypeInv
<1>1. CASE Retract
  <2>1. /\ says' \in [Names -> Contents \cup {Nothing}] /\ how' \in [Names -> Held]
        /\ edges' \subseteq edges
    BY <1>1, MemoryTypes DEF Retract, Gone, Held
  <2> QED
    BY <1>1, <2>1, BeginTypes DEF Retract
<1>2. CASE Modify
  <2>1. /\ says' \in [Names -> Contents \cup {Nothing}] /\ how' \in [Names -> Held]
        /\ edges' \subseteq edges
    BY <1>2, MemoryTypes, FreshName DEF Modify, Facts, Held
  <2> QED
    BY <1>2, <2>1, BeginTypes DEF Modify
<1>3. CASE Replace
  <2>1. PICK f \in Facts(says), c \in Contents, as \in Manner :
               Gone(f) /\ edges' = Purged(f) /\ Begin("replace", c, as)
    BY <1>3 DEF Replace
  <2>2. /\ says' \in [Names -> Contents \cup {Nothing}] /\ how' \in [Names -> Held]
        /\ edges' \subseteq edges
    BY <2>1, MemoryTypes DEF Gone, Purged, Held
  <2>3. /\ as \in {"stated", "logical"} /\ c # Nothing
        /\ as = "logical" => firing # Nothing
    BY MemoryAssumption DEF Manner
  <2> QED
    BY <2>1, <2>2, <2>3, BeginTypes
<1> QED
  BY <1>1, <1>2, <1>3

LEMMA CascadeTypes ==
  ASSUME TypeInv, Undermine \/ Reconsider
  PROVE  TypeInv'
<1> USE DEF TypeInv
<1>1. work' \in Work
  <2>1. work \in Work
    BY DEF MemoryTypeOK
  <2>2. CASE Undermine
    <3>1. {e[2] : e \in edges \ edges'} \subseteq Names
      BY MemoryTypes
    <3> QED
      BY <2>1, <2>2, <3>1 DEF Undermine, Work
  <2>3. CASE Reconsider
    <3>1. PICK f \in work.doubtful :
            \/ work' = [work EXCEPT !.doubtful = @ \ {f}, !.sources = @ \cup Lost,
                                    !.removed = @ \cup Lost, !.added = @ \cup Gained]
            \/ work' = [work EXCEPT !.doubtful = @ \ {f}]
      BY <2>3 DEF Reconsider
    <3>2. /\ work.sources \cup Lost \subseteq Match /\ work.removed \cup Lost \subseteq Match
          /\ work.added \cup Gained \subseteq Match /\ work.doubtful \ {f} \subseteq Names
      BY WorkTypes, LostMatch
    <3> HIDE DEF Lost, Gained
    <3> QED
      BY <2>1, <3>1, <3>2 DEF Work
  <2> QED
    BY <2>2, <2>3
<1>2. /\ says' \in [Names -> Contents \cup {Nothing}] /\ how' \in [Names -> Held]
      /\ edges' \subseteq edges
  BY MemoryTypes DEF Undermine, Reconsider, Gone, Held
<1>3. MemoryTypeOK'
  BY <1>1, <1>2, MemoryTypes DEF Undermine, Reconsider, MemoryTypeOK, Memory, agenda, run
<1>4. /\ ~Idle /\ undo' = undo /\ firing' = firing
      /\ work'.op = work.op /\ work'.put = work.put /\ work'.as = work.as
  BY WorkTypes DEF Undermine, Reconsider, Cascading, run, MemoryTypeOK, Work
<1>5. WorkWell'
  BY <1>4 DEF WorkWell, Idle
<1> QED
  BY <1>3, <1>5

LEMMA FinishTypes ==
  ASSUME TypeInv,
         FinishRetract \/ FinishModify \/ FinishReplace \/ AbandonReplace \/ FinishFail
  PROVE  TypeInv'
<1> USE DEF TypeInv
<1>1. work' \in Work /\ undo' \in Memory /\ WorkWell'
  BY MemoryAssumption DEF FinishRetract, FinishModify, FinishReplace, AbandonReplace,
     FinishFail, Done, NoWork, Empty, Work, Memory, Held, WorkWell, Idle
<1>2. CASE FinishRetract
  <2>1. work.added \ Both \subseteq Match
    BY WorkTypes
  <2>2. pending' \subseteq Match /\ consumed' \subseteq Match /\ ready' \in BOOLEAN
    BY <1>2, <2>1, TellTypes DEF FinishRetract
  <2>3. excused' \subseteq Match
    BY <1>2, ExcuseTypes DEF FinishRetract
  <2>4. acts' \in Nat
    BY <1>2 DEF FinishRetract, Recorded, MemoryTypeOK
  <2> QED
    BY <1>1, <1>2, <2>2, <2>3, <2>4 DEF FinishRetract, MemoryTypeOK, memory
<1>3. CASE FinishModify
  <2>1. work.added \subseteq Match
    BY WorkTypes
  <2>2. pending' \subseteq Match /\ consumed' \subseteq Match /\ ready' \in BOOLEAN
    BY <1>3, <2>1, TellTypes DEF FinishModify
  <2>3. excused' \subseteq Match
    BY <1>3, ExcuseTypes DEF FinishModify
  <2>4. acts' \in Nat /\ missed' \in BOOLEAN
    BY <1>3 DEF FinishModify, Recorded, MemoryTypeOK
  <2> QED
    BY <1>1, <1>3, <2>2, <2>3, <2>4 DEF FinishModify, MemoryTypeOK, memory
<1>4. CASE FinishReplace
  <2>1. PICK g \in Fresh : Put(g, work.put, work.as)
    BY <1>4 DEF FinishReplace
  <2>2. /\ says' \in [Names -> Contents \cup {Nothing}] /\ how' \in [Names -> Held]
        /\ edges' \subseteq Match \X Names /\ excused' \subseteq Match
    BY <1>4, <2>1, FreshName, PutTypes DEF FinishReplace, Settled, WorkWell
  <2>3. \A removed, added : Tell(removed, added) /\ added \subseteq Match =>
          pending' \subseteq Match /\ consumed' \subseteq Match /\ ready' \in BOOLEAN
    BY TellTypes
  <2>4. pending' \subseteq Match /\ consumed' \subseteq Match /\ ready' \in BOOLEAN
    <3>1. work.added \cup Gained \subseteq Match
      BY WorkTypes, LostMatch
    <3> QED
      BY <1>4, <2>3, <3>1 DEF FinishReplace
  <2>5. acts' \in Nat
    BY <1>4 DEF FinishReplace, Recorded, MemoryTypeOK
  <2> QED
    BY <1>1, <1>4, <2>2, <2>4, <2>5 DEF FinishReplace, MemoryTypeOK, Memory
<1>5. CASE AbandonReplace
  <2>1. [says |-> says', how |-> how', edges |-> edges'] \in Memory
    BY <1>5, MemoryTypes DEF AbandonReplace, Restored, Memory
  <2> QED
    BY <1>1, <1>5, <2>1 DEF AbandonReplace, MemoryTypeOK, agenda, run
<1>6. CASE FinishFail
  <2>1. excused' \subseteq Match
    BY <1>6, ExcuseTypes DEF FinishFail
  <2> QED
    BY <1>1, <1>6, <2>1 DEF FinishFail, MemoryTypeOK, memory
<1> QED
  BY <1>2, <1>3, <1>4, <1>5, <1>6

LEMMA OtherTypes ==
  ASSUME TypeInv,
         \/ Restate \/ DeriveAgain \/ Insert \/ Unstate
         \/ Fire \/ EndFiring \/ Fail \/ ResetMemory
  PROVE  TypeInv'
<1> USE DEF TypeInv
<1>1. CASE Restate \/ Unstate
  <2>1. how' \in [Names -> Held]
    BY <1>1, MemoryTypes DEF Restate, Unstate, Held
  <2>2. WorkWell'
    BY <1>1 DEF Restate, Unstate, WorkWell, Idle, run
  <2> QED
    BY <1>1, <2>1, <2>2 DEF Restate, Unstate, MemoryTypeOK, Memory, agenda, run
<1>2. CASE DeriveAgain
  <2>1. how' \in [Names -> Held]
    BY <1>2, MemoryTypes DEF DeriveAgain, Held
  <2>2. edges' \subseteq Match \X Names
    <3>1. PICK f \in Names : edges' = edges \cup {<<firing, f>>}
      BY <1>2 DEF DeriveAgain, Facts
    <3>2. <<firing, f>> \in Match \X Names
      BY <1>2 DEF DeriveAgain, MemoryTypeOK
    <3>3. edges \subseteq Match \X Names
      BY MemoryTypes
    <3> QED
      BY <3>1, <3>2, <3>3
  <2>3. excused' \subseteq Match
    <3>1. {firing} \subseteq Match
      BY <1>2 DEF DeriveAgain, MemoryTypeOK
    <3> QED
      BY <1>2, <3>1, ExcuseTypes DEF DeriveAgain
  <2>4. WorkWell'
    BY <1>2 DEF DeriveAgain, WorkWell, Idle, run
  <2> QED
    BY <1>2, <2>1, <2>2, <2>3, <2>4 DEF DeriveAgain, MemoryTypeOK, Memory, agenda, run
<1>3. CASE Insert
  <2>1. PICK c \in Contents, f \in Fresh, as \in Manner : Put(f, c, as)
    BY <1>3 DEF Insert
  <2>2. as \in {"stated", "logical"} /\ (as = "logical" => firing # Nothing)
    BY DEF Manner
  <2>3. /\ says' \in [Names -> Contents \cup {Nothing}] /\ how' \in [Names -> Held]
        /\ edges' \subseteq Match \X Names /\ excused' \subseteq Match
    BY <2>1, <2>2, FreshName, PutTypes
  <2>4. pending' \subseteq Match /\ consumed' \subseteq Match /\ ready' \in BOOLEAN
    BY <1>3, LostMatch, TellTypes DEF Insert
  <2>5. acts' \in Nat
    BY <1>3 DEF Insert, Recorded, MemoryTypeOK
  <2>6. WorkWell'
    BY <1>3 DEF Insert, WorkWell, Idle
  <2> QED
    BY <1>3, <2>3, <2>4, <2>5, <2>6 DEF Insert, MemoryTypeOK, Memory
<1>4. CASE Fire \/ EndFiring
  <2>1. WorkWell'
    BY <1>4, MemoryAssumption DEF Fire, EndFiring, WorkWell, Idle, NoWork
  <2> QED
    BY <1>4, <2>1 DEF Fire, EndFiring, MemoryTypeOK, memory, agenda
<1>5. CASE Fail
  <2>1. work' \in Work
    BY <1>5 DEF Fail, NoWork, Work, Held, MemoryTypeOK
  <2>2. undo' \in Memory
    BY <1>5, MemoryTypes DEF Fail, Memory
  <2>3. WorkWell'
    BY <1>5 DEF Fail, WorkWell, Idle, NoWork
  <2> QED
    BY <1>5, <2>1, <2>2, <2>3 DEF Fail, MemoryTypeOK, memory, agenda, run
<1>6. CASE ResetMemory
  <2>1. [says |-> says', how |-> how', edges |-> edges'] \in Memory
    BY <1>6 DEF ResetMemory, Empty, Memory, Held
  <2>2. WorkWell'
    BY <1>6 DEF ResetMemory, WorkWell, Idle, run
  <2> QED
    BY <1>6, <2>1, <2>2 DEF ResetMemory, MemoryTypeOK, run
<1> QED
  BY <1>1, <1>2, <1>3, <1>4, <1>5, <1>6

LEMMA TypesNext ==
  ASSUME TypeInv, [NextMemory]_memoryVars
  PROVE  TypeInv'
<1>1. CASE UNCHANGED memoryVars
  BY <1>1 DEF TypeInv, WorkWell, Idle, MemoryTypeOK, memoryVars, memory, agenda, run
<1> QED
  BY <1>1, BeginActionTypes, CascadeTypes, FinishTypes, OtherTypes DEF NextMemory

\* Every variable of the memory stays in its range, whatever the rules are.
THEOREM MemoryTyped == SpecMemory => []MemoryTypeOK
<1>1. TypeInv => MemoryTypeOK
  BY DEF TypeInv
<1> QED
  BY <1>1, InitTypes, TypesNext, PTL DEF SpecMemory

(***************************************************************************)
(* Support.  The memory a rollback restores is as exact as the one of an   *)
(* idle session.                                                           *)
(***************************************************************************)
SupportedIn(s, h, E, doubtful) ==
  /\ \A f \in Names : h[f] = "none" <=> s[f] = Nothing
  /\ \A e \in E : h[e[2]] \in {"logical", "both"}
  /\ \A f \in Names : h[f] \in {"logical", "both"} =>
                         (\E e \in E : e[2] = f) \/ f \in doubtful

SupportInv ==
  /\ TypeInv
  /\ SupportedIn(says, how, edges, work.doubtful)
  /\ SupportedIn(undo.says, undo.how, undo.edges, {})

LEMMA SupportIsExact == SupportInv => SupportExact
BY DEF SupportInv, SupportedIn, SupportExact, Derived

LEMMA FreshUnused ==
  ASSUME NEW n \in Fresh
  PROVE  /\ says[n] = Nothing /\ undo.says[n] = Nothing
         /\ \A e \in edges : e[2] # n
BY DEF Fresh, Remembered, Facts

LEMMA IdleWork ==
  ASSUME TypeInv, Idle
  PROVE  work.doubtful = {} /\ work.sources = {} /\ undo = Empty
BY DEF TypeInv, WorkWell, NoWork

LEMMA EmptySupported == SupportedIn(Empty.says, Empty.how, Empty.edges, {})
BY DEF SupportedIn, Empty

LEMMA PutSupported ==
  ASSUME SupportInv, work.doubtful = {}, NEW f \in Fresh, NEW c \in Contents,
         NEW as \in {"stated", "logical"}, Put(f, c, as)
  PROVE  SupportedIn(says', how', edges', {})
<1>1. /\ f \in Names /\ says[f] = Nothing /\ \A e \in edges : e[2] # f
      /\ c # Nothing
  BY FreshName, FreshUnused, MemoryAssumption
<1>2. /\ says \in [Names -> Contents \cup {Nothing}] /\ how \in [Names -> Held]
      /\ edges \subseteq Match \X Names
  BY MemoryTypes DEF SupportInv, TypeInv
<1>3. /\ says' = [says EXCEPT ![f] = c] /\ how' = [how EXCEPT ![f] = as]
      /\ edges' = IF as = "logical" THEN edges \cup {<<firing, f>>} ELSE edges
  BY DEF Put
<1>4. SupportedIn(says, how, edges, {})
  BY DEF SupportInv
<1>5. CASE as = "logical"
  <2>1. \A e \in edges' : how'[e[2]] \in {"logical", "both"}
    <3> SUFFICES ASSUME NEW e \in edges' PROVE how'[e[2]] \in {"logical", "both"}
      OBVIOUS
    <3>1. CASE e \in edges
      BY <1>1, <1>2, <1>3, <1>4, <3>1 DEF SupportedIn
    <3>2. CASE e = <<firing, f>>
      BY <1>1, <1>2, <1>3, <1>5, <3>2
    <3> QED
      BY <1>3, <1>5, <3>1, <3>2
  <2>2. \A g \in Names : how'[g] \in {"logical", "both"} => \E e \in edges' : e[2] = g
    <3>1. <<firing, f>> \in edges' /\ <<firing, f>>[2] = f /\ edges \subseteq edges'
      BY <1>3, <1>5
    <3> QED
      BY <1>1, <1>2, <1>3, <1>4, <3>1 DEF SupportedIn
  <2> QED
    BY <1>1, <1>2, <1>3, <1>4, <2>1, <2>2 DEF SupportedIn
<1>6. CASE as = "stated"
  BY <1>1, <1>2, <1>3, <1>4, <1>6 DEF SupportedIn
<1> QED
  BY <1>5, <1>6

LEMMA BeginSupport ==
  ASSUME SupportInv, Retract \/ Modify \/ Replace
  PROVE  /\ SupportedIn(says', how', edges', work'.doubtful)
         /\ SupportedIn(undo'.says, undo'.how, undo'.edges, {})
<1>1. /\ says \in [Names -> Contents \cup {Nothing}] /\ how \in [Names -> Held]
      /\ edges \subseteq Match \X Names
  BY MemoryTypes DEF SupportInv, TypeInv
<1>2. Idle
  BY DEF Retract, Modify, Replace, Mutating
<1>3. work.doubtful = {}
  BY <1>2, IdleWork DEF SupportInv
<1>4. work'.doubtful = {} /\ undo' = [says |-> says, how |-> how, edges |-> edges]
  BY DEF Retract, Modify, Replace, Begin
<1>5. SupportedIn(undo'.says, undo'.how, undo'.edges, {})
  BY <1>3, <1>4 DEF SupportInv
<1>6. CASE Retract
  <2>1. PICK f \in Facts(says) : how[f] = "stated" /\ Gone(f)
    BY <1>6 DEF Retract
  <2>2. edges' = edges
    BY <1>6 DEF Retract
  <2> QED
    BY <1>1, <1>3, <1>4, <1>5, <2>1, <2>2 DEF SupportInv, SupportedIn, Gone, Facts
<1>7. CASE Modify
  <2>1. PICK f \in Facts(says), g \in Fresh, c \in Contents :
          /\ ~Derived(f)
          /\ says' = [says EXCEPT ![f] = Nothing, ![g] = c]
          /\ how' = [how EXCEPT ![f] = "none", ![g] = how[f]]
    BY <1>7 DEF Modify
  <2>2. edges' = edges
    BY <1>7 DEF Modify
  <2>3. /\ f \in Names /\ g \in Names /\ f # g /\ says[f] # Nothing /\ says[g] = Nothing
        /\ c # Nothing /\ \A e \in edges : e[2] # f /\ e[2] # g
    BY <2>1, FreshName, FreshUnused, MemoryAssumption DEF Facts, Derived
  <2>4. how[f] \notin {"none", "logical", "both"}
    BY <1>3, <2>3 DEF SupportInv, SupportedIn
  <2> QED
    BY <1>1, <1>3, <1>4, <1>5, <2>1, <2>2, <2>3, <2>4 DEF SupportInv, SupportedIn
<1>8. CASE Replace
  <2>1. PICK f \in Facts(says) : Gone(f) /\ edges' = Purged(f)
    BY <1>8 DEF Replace
  <2> QED
    BY <1>1, <1>3, <1>4, <1>5, <2>1 DEF SupportInv, SupportedIn, Gone, Facts, Purged
<1> QED
  BY <1>6, <1>7, <1>8

LEMMA CascadeSupport ==
  ASSUME SupportInv, Undermine \/ Reconsider
  PROVE  SupportedIn(says', how', edges', work'.doubtful)
<1>1. /\ says \in [Names -> Contents \cup {Nothing}] /\ how \in [Names -> Held]
      /\ edges \subseteq Match \X Names
  BY MemoryTypes DEF SupportInv, TypeInv
<1>2. work \in Work
  BY DEF SupportInv, TypeInv, MemoryTypeOK
<1>3. CASE Undermine
  <2>1. /\ says' = says /\ how' = how /\ work.doubtful = {}
        /\ edges' = {e \in edges : e[1] \notin work.sources}
        /\ work'.doubtful = {e[2] : e \in edges \ edges'}
    BY <1>2, <1>3 DEF Undermine, Work
  <2> QED
    BY <1>1, <2>1 DEF SupportInv, SupportedIn
<1>4. CASE Reconsider
  <2>1. PICK f \in work.doubtful :
          IF f \in Facts(says) /\ how[f] = "logical" /\ ~Derived(f)
          THEN Gone(f) /\ work'.doubtful = work.doubtful \ {f}
          ELSE /\ how' = IF how[f] = "both" /\ ~Derived(f)
                         THEN [how EXCEPT ![f] = "stated"] ELSE how
               /\ work'.doubtful = work.doubtful \ {f}
               /\ says' = says
    BY <1>2, <1>4 DEF Reconsider, Work
  <2>2. edges' = edges /\ f \in Names
    BY <1>4, <2>1, <1>2 DEF Reconsider, Work
  <2>3. CASE f \in Facts(says) /\ how[f] = "logical" /\ ~Derived(f)
    BY <1>1, <2>1, <2>2, <2>3 DEF SupportInv, SupportedIn, Gone, Facts, Derived
  <2>4. CASE ~(f \in Facts(says) /\ how[f] = "logical" /\ ~Derived(f))
    BY <1>1, <2>1, <2>2, <2>4 DEF SupportInv, SupportedIn, Facts, Derived
  <2> QED
    BY <2>3, <2>4
<1> QED
  BY <1>3, <1>4

LEMMA OtherSupport ==
  ASSUME SupportInv, Restate \/ DeriveAgain \/ Unstate
  PROVE  SupportedIn(says', how', edges', work'.doubtful)
<1>1. /\ says \in [Names -> Contents \cup {Nothing}] /\ how \in [Names -> Held]
      /\ edges \subseteq Match \X Names
  BY MemoryTypes DEF SupportInv, TypeInv
<1>2. work' = work /\ says' = says
  BY DEF Restate, DeriveAgain, Unstate
<1>3. CASE Restate
  BY <1>1, <1>2, <1>3 DEF Restate, SupportInv, SupportedIn
<1>4. CASE Unstate
  BY <1>1, <1>2, <1>4 DEF Unstate, SupportInv, SupportedIn
<1>5. CASE DeriveAgain
  <2>1. PICK f \in Facts(says) :
          /\ how' = [how EXCEPT ![f] = IF @ = "logical" THEN @ ELSE "both"]
          /\ edges' = edges \cup {<<firing, f>>}
    BY <1>5 DEF DeriveAgain
  <2>2. SupportedIn(says, how, edges, work.doubtful) /\ f \in Names /\ says[f] # Nothing
    BY DEF SupportInv, Facts
  <2>3. how'[f] \in {"logical", "both"} /\ \A g \in Names \ {f} : how'[g] = how[g]
    BY <1>1, <2>1, <2>2
  <2>4. \A e \in edges' : how'[e[2]] \in {"logical", "both"}
    <3> SUFFICES ASSUME NEW e \in edges' PROVE how'[e[2]] \in {"logical", "both"}
      OBVIOUS
    <3>1. CASE e \in edges
      BY <1>1, <2>2, <2>3, <3>1 DEF SupportedIn
    <3>2. CASE e = <<firing, f>>
      BY <2>3, <3>2
    <3> QED
      BY <2>1, <3>1, <3>2
  <2>5. <<firing, f>> \in edges' /\ <<firing, f>>[2] = f /\ edges \subseteq edges'
    BY <2>1
  <2> QED
    BY <1>2, <2>2, <2>3, <2>4, <2>5 DEF SupportedIn
<1> QED
  BY <1>3, <1>4, <1>5

LEMMA SupportNext ==
  ASSUME SupportInv, [NextMemory]_memoryVars
  PROVE  SupportInv'
<1> USE DEF SupportInv
<1>1. TypeInv'
  BY TypesNext
<1>2. CASE UNCHANGED memoryVars
  BY <1>1, <1>2 DEF SupportedIn, memoryVars, memory
<1>3. CASE Retract \/ Modify \/ Replace
  BY <1>1, <1>3, BeginSupport
<1>4. CASE Undermine \/ Reconsider
  <2>1. undo' = undo
    BY <1>4 DEF Undermine, Reconsider
  <2> QED
    BY <1>1, <1>4, <2>1, CascadeSupport
<1>5. CASE Restate \/ DeriveAgain \/ Unstate
  <2>1. undo' = undo
    BY <1>5 DEF Restate, DeriveAgain, Unstate
  <2> QED
    BY <1>1, <1>5, <2>1, OtherSupport
<1>6. CASE Insert
  <2>1. work.doubtful = {} /\ work' = work /\ undo' = undo
    BY <1>6, IdleWork DEF Insert, Mutating
  <2>2. PICK c \in Contents, f \in Fresh, as \in Manner : Put(f, c, as)
    BY <1>6 DEF Insert
  <2>3. as \in {"stated", "logical"}
    BY DEF Manner
  <2> QED
    BY <1>1, <2>1, <2>2, <2>3, PutSupported
<1>7. CASE FinishRetract \/ FinishModify \/ FinishFail
  <2>1. /\ work.doubtful = {} /\ work'.doubtful = {} /\ undo' = Empty
        /\ says' = says /\ how' = how /\ edges' = edges
    BY <1>7 DEF FinishRetract, FinishModify, FinishFail, Settled, Done, NoWork, memory
  <2> QED
    BY <1>1, <2>1, EmptySupported
<1>8. CASE FinishReplace
  <2>1. work.doubtful = {} /\ work'.doubtful = {} /\ undo' = Empty
    BY <1>8 DEF FinishReplace, Settled, Done, NoWork
  <2>2. PICK g \in Fresh : Put(g, work.put, work.as)
    BY <1>8 DEF FinishReplace
  <2>3. work.put \in Contents /\ work.as \in {"stated", "logical"}
    BY <1>8 DEF FinishReplace, Settled, TypeInv, WorkWell
  <2> QED
    BY <1>1, <2>1, <2>2, <2>3, PutSupported, EmptySupported
<1>9. CASE AbandonReplace
  BY <1>1, <1>9, EmptySupported DEF AbandonReplace, Restored, Done, NoWork
<1>10. CASE Fire \/ EndFiring
  BY <1>1, <1>10 DEF Fire, EndFiring, memory
<1>11. CASE Fail
  BY <1>1, <1>11, IdleWork DEF Fail, memory, NoWork
<1>12. CASE ResetMemory
  BY <1>1, <1>12, IdleWork, EmptySupported DEF ResetMemory, Empty
<1> QED
  BY <1>2, <1>3, <1>4, <1>5, <1>6, <1>7, <1>8, <1>9, <1>10, <1>11, <1>12 DEF NextMemory

LEMMA InitSupport == InitMemory => SupportInv
BY InitTypes, EmptySupported DEF SupportInv, InitMemory, NoWork, Empty

\* A fact is marked as derived exactly when an edge supports it, whatever
\* cascades, replacements and rollbacks have been through.
THEOREM SupportStaysExact == SpecMemory => []SupportExact
BY InitSupport, SupportNext, SupportIsExact, PTL DEF SpecMemory

(***************************************************************************)
(* Unique keys.  The key that a replacement is to take stays free.         *)
(***************************************************************************)
UniqueIn(s) ==
  \A f, g \in Names : s[f] # Nothing /\ s[g] # Nothing /\ KeyOf[s[f]] = KeyOf[s[g]] => f = g

FreeIn(s, c) == \A f \in Names : s[f] # Nothing => KeyOf[s[f]] # KeyOf[c]

KeysInv ==
  /\ TypeInv
  /\ UniqueIn(says) /\ UniqueIn(undo.says)
  /\ work.op = "replace" => FreeIn(says, work.put)

\* A memory that says less has no new clash.
LEMMA FewerFacts ==
  ASSUME NEW s, NEW t, \A f \in Names : t[f] \in {s[f], Nothing}
  PROVE  /\ UniqueIn(s) => UniqueIn(t)
         /\ \A c : FreeIn(s, c) => FreeIn(t, c)
BY DEF UniqueIn, FreeIn

LEMMA PutUnique ==
  ASSUME says \in [Names -> Contents \cup {Nothing}], UniqueIn(says),
         NEW f \in Fresh, NEW c \in Contents, NEW as, Put(f, c, as), FreeIn(says, c)
  PROVE  UniqueIn(says')
BY FreshName DEF Put, UniqueIn, FreeIn

LEMMA KeysNext ==
  ASSUME KeysInv, [NextMemory]_memoryVars
  PROVE  KeysInv'
<1> USE DEF KeysInv
<1>1. TypeInv' /\ says \in [Names -> Contents \cup {Nothing}] /\ work \in Work
  BY TypesNext, MemoryTypes DEF TypeInv, MemoryTypeOK
<1>2. UniqueIn(Empty.says)
  BY DEF UniqueIn, Empty
<1>3. CASE Restate \/ DeriveAgain \/ Unstate \/ Fire \/ EndFiring \/ UNCHANGED memoryVars
  BY <1>1, <1>3 DEF Restate, DeriveAgain, Unstate, Fire, EndFiring, memoryVars, memory
<1>4. CASE Insert
  <2>1. PICK c \in Contents, f \in Fresh, as \in Manner : Unused(c) /\ Put(f, c, as)
    BY <1>4 DEF Insert
  <2>2. FreeIn(says, c)
    BY <2>1 DEF Unused, Facts, FreeIn
  <2>3. undo' = undo /\ work' = work /\ work.op = "none"
    BY <1>4 DEF Insert, Mutating, Idle
  <2> QED
    BY <1>1, <2>1, <2>2, <2>3, PutUnique
<1>5. CASE Retract
  <2>1. PICK f \in Facts(says) : Gone(f) /\ Begin("retract", Nothing, "none")
    BY <1>5 DEF Retract
  <2>2. \A h \in Names : says'[h] \in {says[h], Nothing}
    BY <1>1, <2>1 DEF Gone
  <2> QED
    BY <1>1, <2>1, <2>2, FewerFacts DEF Begin
<1>6. CASE Modify
  <2>1. PICK f \in Facts(says), g \in Fresh, c \in Contents :
          /\ \A h \in Facts(says) \ {f} : KeyOf[says[h]] # KeyOf[c]
          /\ says' = [says EXCEPT ![f] = Nothing, ![g] = c]
    BY <1>6 DEF Modify
  <2>2. Begin("modify", Nothing, "none")
    BY <1>6 DEF Modify
  <2>3. /\ f \in Names /\ g \in Names /\ says'[f] # says'[g] /\ says'[f] = Nothing
        /\ says'[g] = c /\ \A h \in Names \ {f, g} : says'[h] = says[h]
    BY <1>1, <2>1, FreshName, FreshUnused, MemoryAssumption DEF Facts
  <2>4. UniqueIn(says')
    <3>1. \A h \in Names \ {f, g} : says[h] # Nothing => KeyOf[says[h]] # KeyOf[c]
      BY <2>1 DEF Facts
    <3> SUFFICES ASSUME NEW h \in Names, NEW k \in Names, says'[h] # Nothing,
                        says'[k] # Nothing, KeyOf[says'[h]] = KeyOf[says'[k]]
                 PROVE  h = k
      BY DEF UniqueIn
    <3>2. h # f /\ k # f
      BY <2>3
    <3>3. CASE h = g \/ k = g
      BY <2>3, <3>1, <3>2, <3>3
    <3>4. CASE h # g /\ k # g
      BY <2>3, <3>2, <3>4 DEF UniqueIn
    <3> QED
      BY <3>3, <3>4
  <2> QED
    BY <1>1, <2>2, <2>4 DEF Begin
<1>7. CASE Replace
  <2>1. PICK f \in Facts(says), c \in Contents, as \in Manner :
          KeyOf[says[f]] = KeyOf[c] /\ Gone(f) /\ Begin("replace", c, as)
    BY <1>7 DEF Replace
  <2>2. \A h \in Names : says'[h] \in {says[h], Nothing}
    BY <1>1, <2>1 DEF Gone
  <2>3. FreeIn(says', c)
    BY <1>1, <2>1 DEF UniqueIn, FreeIn, Gone, Facts
  <2> QED
    BY <1>1, <2>1, <2>2, <2>3, FewerFacts DEF Begin
<1>8. CASE Undermine
  BY <1>1, <1>8 DEF Undermine, Work
<1>9. CASE Reconsider
  <2>1. /\ \A h \in Names : says'[h] \in {says[h], Nothing}
        /\ work'.op = work.op /\ work'.put = work.put /\ undo' = undo
    BY <1>1, <1>9 DEF Reconsider, Gone, Work
  <2> QED
    BY <1>1, <2>1, FewerFacts
<1>10. CASE FinishReplace
  <2>1. PICK g \in Fresh : Put(g, work.put, work.as)
    BY <1>10 DEF FinishReplace
  <2>2. work.put \in Contents /\ FreeIn(says, work.put) /\ undo' = Empty /\ work'.op = "none"
    BY <1>10 DEF FinishReplace, Settled, TypeInv, WorkWell, Done, NoWork
  <2> QED
    BY <1>1, <1>2, <2>1, <2>2, PutUnique
<1>11. CASE FinishRetract \/ FinishModify \/ FinishFail
  <2>1. says' = says /\ undo' = Empty /\ work'.op = "none"
    BY <1>11 DEF FinishRetract, FinishModify, FinishFail, Done, NoWork, memory
  <2> QED
    BY <1>1, <1>2, <2>1
<1>12. CASE AbandonReplace
  BY <1>1, <1>2, <1>12 DEF AbandonReplace, Restored, Done, NoWork
<1>13. CASE Fail
  BY <1>1, <1>13 DEF Fail, memory, NoWork
<1>14. CASE ResetMemory
  BY <1>1, <1>2, <1>14, IdleWork DEF ResetMemory, Idle
<1> QED
  BY <1>3, <1>4, <1>5, <1>6, <1>7, <1>8, <1>9, <1>10, <1>11, <1>12, <1>13, <1>14
     DEF NextMemory

LEMMA InitKeys == InitMemory => KeysInv
BY InitTypes DEF KeysInv, InitMemory, UniqueIn, NoWork, Empty

LEMMA KeysAreUnique == KeysInv => KeysUnique
BY DEF KeysInv, UniqueIn, KeysUnique, Facts

\* No two facts ever have one unique key.
THEOREM KeysStayUnique == SpecMemory => []KeysUnique
BY InitKeys, KeysNext, KeysAreUnique, PTL DEF SpecMemory

(***************************************************************************)
(* Grounds.  In a cascade the source of an edge holds, is excused, or is   *)
(* still to be taken down.                                                 *)
(***************************************************************************)
GroundedIn(E, s, others) == \A e \in E : e[1] \in Holds(s) \cup others

GroundedInv ==
  /\ TypeInv
  /\ GroundedIn(edges, says, excused \cup work.sources)
  /\ GroundedIn(undo.edges, undo.says, excused)

\* A step that loses matches, and records them.
LEMMA LostGrounded ==
  ASSUME NEW E, NEW others, GroundedIn(E, says, others)
  PROVE  GroundedIn(E, says', others \cup Lost)
BY DEF GroundedIn, Lost

\* What Excuse keeps is enough for the edges that were grounded.
LEMMA ExcuseGrounded ==
  ASSUME NEW E, NEW lost, Excuse(lost), GroundedIn(E, says', excused \cup lost),
         E = edges'
  PROVE  GroundedIn(edges', says', excused')
BY DEF GroundedIn, Excuse, Sources

LEMMA PutGrounded ==
  ASSUME NEW f, NEW c, NEW as, Put(f, c, as), GroundedIn(edges, says, excused)
  PROVE  GroundedIn(edges', says', excused')
<1>1. GroundedIn(edges, says', excused \cup Lost)
  BY LostGrounded
<1>2. GroundedIn(edges', says',
                 excused \cup (Lost \cup (IF as = "logical" THEN {firing} ELSE {})))
  <2>1. CASE as = "logical"
    <3>1. edges' = edges \cup {<<firing, f>>}
      BY <2>1 DEF Put
    <3>2. \A e \in edges' : e \in edges \/ e[1] = firing
      BY <3>1
    <3> QED
      BY <1>1, <2>1, <3>2 DEF GroundedIn
  <2>2. CASE as # "logical"
    BY <1>1, <2>2 DEF Put, GroundedIn
  <2> QED
    BY <2>1, <2>2
<1> QED
  BY <1>2, ExcuseGrounded DEF Put

LEMMA EmptyGrounded == \A others : GroundedIn(Empty.edges, Empty.says, others)
BY DEF GroundedIn, Empty

LEMMA GroundedNext ==
  ASSUME GroundedInv, [NextMemory]_memoryVars
  PROVE  GroundedInv'
<1> USE DEF GroundedInv
<1>1. TypeInv' /\ work \in Work
  BY TypesNext DEF TypeInv, MemoryTypeOK
<1>2. CASE Restate \/ Unstate \/ Fire \/ EndFiring \/ UNCHANGED memoryVars
  BY <1>1, <1>2 DEF Restate, Unstate, Fire, EndFiring, memoryVars, memory, GroundedIn
<1>3. CASE DeriveAgain
  <2>1. work.sources = {} /\ undo = Empty /\ undo' = undo /\ work' = work /\ says' = says
    BY <1>3, IdleWork DEF DeriveAgain, Mutating
  <2>2. edges' \subseteq edges \cup ({firing} \X Names)
    BY <1>3 DEF DeriveAgain, Facts
  <2>3. GroundedIn(edges', says', excused \cup {firing})
    BY <2>1, <2>2 DEF GroundedIn
  <2>4. GroundedIn(edges', says', excused')
    BY <1>3, <2>3, ExcuseGrounded DEF DeriveAgain
  <2> QED
    BY <1>1, <2>1, <2>4, EmptyGrounded
<1>4. CASE Insert
  <2>1. work.sources = {} /\ undo = Empty /\ undo' = undo /\ work' = work
    BY <1>4, IdleWork DEF Insert, Mutating
  <2>2. GroundedIn(edges', says', excused')
    BY <1>4, <2>1, PutGrounded DEF Insert
  <2> QED
    BY <1>1, <2>1, <2>2, EmptyGrounded
<1>5. CASE Retract \/ Modify \/ Replace
  <2>1. work.sources = {}
    BY <1>5, IdleWork DEF Retract, Modify, Replace, Mutating
  <2>2. /\ work'.sources = Lost /\ excused' = excused /\ edges' \subseteq edges
        /\ undo' = [says |-> says, how |-> how, edges |-> edges]
    BY <1>5 DEF Retract, Modify, Replace, Begin, Purged
  <2>3. GroundedIn(edges', says', excused' \cup work'.sources)
    BY <2>1, <2>2 DEF GroundedIn, Lost
  <2> QED
    BY <1>1, <2>1, <2>2, <2>3
<1>6. CASE Undermine
  <2>1. /\ edges' = {e \in edges : e[1] \notin work.sources} /\ work'.sources = {}
        /\ says' = says /\ excused' = excused /\ undo' = undo
    BY <1>1, <1>6 DEF Undermine, Work
  <2> QED
    BY <1>1, <2>1 DEF GroundedIn
<1>7. CASE Reconsider
  <2>1. /\ edges' = edges /\ excused' = excused /\ undo' = undo
        /\ \/ says' = says /\ work'.sources = work.sources
           \/ work'.sources = work.sources \cup Lost
    BY <1>1, <1>7 DEF Reconsider, Work
  <2>2. GroundedIn(edges', says', excused' \cup work'.sources)
    BY <2>1 DEF GroundedIn, Lost
  <2> QED
    BY <1>1, <2>1, <2>2
<1>8. CASE FinishRetract \/ FinishModify \/ FinishFail
  <2>1. /\ work.sources = {} /\ work'.sources = {} /\ undo' = Empty
        /\ edges' = edges /\ says' = says /\ Excuse({})
    BY <1>8 DEF FinishRetract, FinishModify, FinishFail, Settled, Done, NoWork, memory
  <2>2. GroundedIn(edges', says', excused')
    BY <2>1, ExcuseGrounded
  <2> QED
    BY <1>1, <2>1, <2>2, EmptyGrounded
<1>9. CASE FinishReplace
  <2>1. work.sources = {} /\ work'.sources = {} /\ undo' = Empty
    BY <1>9 DEF FinishReplace, Settled, Done, NoWork
  <2>2. GroundedIn(edges', says', excused')
    BY <1>9, <2>1, PutGrounded DEF FinishReplace
  <2> QED
    BY <1>1, <2>1, <2>2, EmptyGrounded
<1>10. CASE AbandonReplace
  BY <1>1, <1>10, EmptyGrounded DEF AbandonReplace, Restored, Done, NoWork, GroundedIn
<1>11. CASE Fail
  <2>1. work.sources = {}
    BY <1>11, IdleWork DEF Fail
  <2> QED
    BY <1>1, <1>11, <2>1 DEF Fail, memory, GroundedIn, NoWork
<1>12. CASE ResetMemory
  BY <1>1, <1>12, IdleWork, EmptyGrounded DEF ResetMemory, GroundedIn
<1> QED
  BY <1>2, <1>3, <1>4, <1>5, <1>6, <1>7, <1>8, <1>9, <1>10, <1>11, <1>12 DEF NextMemory

LEMMA InitGrounded == InitMemory => GroundedInv
BY InitTypes DEF GroundedInv, InitMemory, GroundedIn, Empty

LEMMA GroundsHold == GroundedInv => EdgesGrounded
BY IdleWork DEF GroundedInv, GroundedIn, EdgesGrounded

\* Between operations every derived fact stands on a match that holds, or on
\* one that was lost without a cascade.
THEOREM EdgesStayGrounded == SpecMemory => []EdgesGrounded
BY InitGrounded, GroundedNext, GroundsHold, PTL DEF SpecMemory

(***************************************************************************)
(* The agenda.  A match that a cascade has lost does not come back: a fact *)
(* it is on is gone, or what blocks it is the stated fact that Modify put. *)
(* So what was removed and what was added are together the difference of   *)
(* what held before the operation and what holds now.                      *)
(***************************************************************************)
Blocked(m, s) == \E g \in Facts(s) : s[g] \in Blocks[m.rule]
Broken(m, s)  == \E f \in m.on : s[f] = Nothing

LEMMA StandingWhen ==
  ASSUME NEW s, NEW r
  PROVE  r \in Standing(s) <=> /\ r \in Rules
                               /\ \A c \in Needs[r] : \E h \in Facts(s) : s[h] = c
                               /\ \A h \in Facts(s) : s[h] \notin Blocks[r]
BY DEF Standing, Said

LEMMA SpentFails ==
  ASSUME NEW s, NEW m, Broken(m, s) \/ Blocked(m, s)
  PROVE  m \notin Holds(s)
<1> SUFFICES ASSUME m \in Holds(s) PROVE FALSE
  OBVIOUS
<1>1. PICK r \in Standing(s) : m = MatchIn(r, s)
  BY DEF Holds
<1>2. m.rule = r /\ m.on \subseteq Facts(s)
  BY <1>1 DEF MatchIn
<1>3. ~Broken(m, s)
  BY <1>2 DEF Broken, Facts
<1>4. ~Blocked(m, s)
  BY <1>1, <1>2 DEF Blocked, Standing, Said
<1> QED
  BY <1>3, <1>4

\* Every rule needs a fact.
LEMMA NothingHolds == Holds(Empty.says) = {}
<1> SUFFICES ASSUME NEW m \in Holds(Empty.says) PROVE FALSE
  OBVIOUS
<1>1. PICK r \in Standing(Empty.says) : TRUE
  BY DEF Holds
<1>2. Needs[r] # {}
  BY StandingWhen, MemoryAssumption
<1> QED
  BY <1>2, StandingWhen DEF Facts, Empty

\* A match lost to the removal of a fact is on it.
LEMMA RemovalLoses ==
  ASSUME NEW s \in [Names -> Contents \cup {Nothing}], NEW f \in Names, NEW m,
         m \in Holds(s), m \notin Holds([s EXCEPT ![f] = Nothing])
  PROVE  f \in m.on
<1> DEFINE t == [s EXCEPT ![f] = Nothing]
<1> SUFFICES ASSUME f \notin m.on PROVE m \in Holds(t)
  OBVIOUS
<1>1. PICK r \in Standing(s) : m = MatchIn(r, s)
  BY DEF Holds
<1>2. Facts(t) = Facts(s) \ {f} /\ \A h \in Facts(t) : t[h] = s[h]
  BY DEF Facts
<1> HIDE DEF t
<1>3. f \in Facts(s) => s[f] \notin Needs[r]
  BY <1>1 DEF MatchIn
<1>4. r \in Standing(t)
  <2>1. \A c \in Needs[r] : \E h \in Facts(t) : t[h] = c
    <3> SUFFICES ASSUME NEW c \in Needs[r] PROVE \E h \in Facts(t) : t[h] = c
      OBVIOUS
    <3>1. PICK h \in Facts(s) : s[h] = c
      BY StandingWhen
    <3> QED
      BY <1>2, <1>3, <3>1
  <2>2. \A h \in Facts(t) : t[h] \notin Blocks[r]
    BY <1>2, StandingWhen
  <2> QED
    BY <2>1, <2>2, StandingWhen
<1>5. MatchIn(r, t) = m
  BY <1>1, <1>2, <1>3 DEF MatchIn
<1> QED
  BY <1>4, <1>5 DEF Holds

\* A match gained by the addition of a fact is on it.
LEMMA AdditionGains ==
  ASSUME NEW s \in [Names -> Contents \cup {Nothing}], NEW g \in Names, NEW c \in Contents,
         s[g] = Nothing, NEW m, m \notin Holds(s), m \in Holds([s EXCEPT ![g] = c])
  PROVE  g \in m.on
<1> DEFINE t == [s EXCEPT ![g] = c]
<1> SUFFICES ASSUME g \notin m.on PROVE m \in Holds(s)
  OBVIOUS
<1>1. PICK r \in Standing(t) : m = MatchIn(r, t)
  BY DEF Holds
<1>2. Facts(s) = Facts(t) \ {g} /\ t[g] = c /\ g \in Facts(t)
      /\ \A h \in Facts(s) : t[h] = s[h]
  BY MemoryAssumption DEF Facts
<1> HIDE DEF t
<1>3. c \notin Needs[r]
  BY <1>1, <1>2 DEF MatchIn
<1>4. r \in Standing(s)
  <2>1. \A d \in Needs[r] : \E h \in Facts(s) : s[h] = d
    <3> SUFFICES ASSUME NEW d \in Needs[r] PROVE \E h \in Facts(s) : s[h] = d
      OBVIOUS
    <3>1. PICK h \in Facts(t) : t[h] = d
      BY StandingWhen
    <3> QED
      BY <1>2, <1>3, <3>1
  <2>2. \A h \in Facts(s) : s[h] \notin Blocks[r]
    BY <1>2, StandingWhen
  <2> QED
    BY <2>1, <2>2, StandingWhen
<1>5. MatchIn(r, s) = m
  BY <1>1, <1>2, <1>3 DEF MatchIn
<1> QED
  BY <1>4, <1>5 DEF Holds

\* A match lost to a modification is on the old version, or the new one blocks
\* it.
LEMMA ModificationLoses ==
  ASSUME NEW s \in [Names -> Contents \cup {Nothing}], NEW f \in Names, NEW g \in Names,
         NEW c \in Contents, s[f] # Nothing, s[g] = Nothing, c # s[f],
         \A h \in Facts(s) \ {f} : KeyOf[s[h]] # KeyOf[c],
         NEW m, m \in Holds(s), m \notin Holds([s EXCEPT ![f] = Nothing, ![g] = c])
  PROVE  f \in m.on \/ c \in Blocks[m.rule]
<1> DEFINE t == [s EXCEPT ![f] = Nothing, ![g] = c]
<1> SUFFICES ASSUME f \notin m.on, c \notin Blocks[m.rule] PROVE m \in Holds(t)
  OBVIOUS
<1>1. PICK r \in Standing(s) : m = MatchIn(r, s)
  BY DEF Holds
<1>2. /\ Facts(t) = (Facts(s) \ {f}) \cup {g} /\ t[g] = c /\ f \in Facts(s)
      /\ g \notin Facts(s) /\ \A h \in Facts(s) \ {f} : t[h] = s[h]
  BY MemoryAssumption DEF Facts
<1> HIDE DEF t
<1>3. s[f] \notin Needs[r] /\ m.rule = r
  BY <1>1, <1>2 DEF MatchIn
<1>4. c \notin Needs[r]
  BY <1>2, <1>3, StandingWhen
<1>5. r \in Standing(t)
  <2>1. \A d \in Needs[r] : \E h \in Facts(t) : t[h] = d
    <3> SUFFICES ASSUME NEW d \in Needs[r] PROVE \E h \in Facts(t) : t[h] = d
      OBVIOUS
    <3>1. PICK h \in Facts(s) : s[h] = d
      BY StandingWhen
    <3> QED
      BY <1>2, <1>3, <3>1
  <2>2. \A h \in Facts(t) : t[h] \notin Blocks[r]
    BY <1>2, <1>3, StandingWhen
  <2> QED
    BY <2>1, <2>2, StandingWhen
<1>6. MatchIn(r, t) = m
  BY <1>1, <1>2, <1>3, <1>4 DEF MatchIn
<1> QED
  BY <1>5, <1>6 DEF Holds

\* m cannot hold again before the operation is over.
Spent(m) ==
  \/ Broken(m, says)
  \/ \E g \in Facts(says) : says[g] \in Blocks[m.rule] /\ how[g] = "stated"

\* What the operation under way has to say to the agenda.
DeltaExact ==
  /\ \A m \in work.removed : Spent(m)
  /\ Holds(says) = (Holds(undo.says) \cup work.added) \ work.removed
  /\ work.added \cap Holds(undo.says) = {}

Armed(H) == ready /\ ~missed => /\ pending \cup consumed = H
                                /\ pending \cap consumed = {}

ArmedNext(H) == ready' /\ ~missed' => /\ pending' \cup consumed' = H
                                      /\ pending' \cap consumed' = {}

AgendaInv ==
  /\ SupportInv
  /\ KeysInv
  /\ Armed(Holds(IF Idle THEN says ELSE undo.says))
  /\ ~Idle => DeltaExact

LEMMA SpentIsLost == \A m : Spent(m) => m \notin Holds(says)
BY SpentFails DEF Spent, Blocked

LEMMA TellExact ==
  ASSUME NEW H, Armed(H), NEW removed, NEW added, Tell(removed, added),
         missed' = missed
  PROVE  ArmedNext((H \ removed) \cup added)
BY DEF Tell, Armed, ArmedNext, agenda

LEMMA UntoldArmed ==
  ASSUME NEW H, Armed(H), UNCHANGED <<agenda, missed>>
  PROVE  ArmedNext(H)
BY DEF Armed, ArmedNext, agenda

LEMMA HoldsOn ==
  ASSUME NEW s, NEW m \in Holds(s)
  PROVE  m.on \subseteq Facts(s)
BY DEF Holds, MatchIn

\* An addition gains no match that held before or has been lost since.
LEMMA PutGains ==
  ASSUME TypeInv, NEW g \in Fresh, NEW c \in Contents, NEW as, Put(g, c, as), NEW m \in Gained
  PROVE  m \notin Holds(undo.says) /\ m \notin work.removed
<1>1. /\ says \in [Names -> Contents \cup {Nothing}] /\ g \in Names /\ says[g] = Nothing
      /\ undo.says[g] = Nothing /\ says' = [says EXCEPT ![g] = c]
  BY MemoryTypes, FreshName, FreshUnused DEF TypeInv, Put
<1>2. g \in m.on
  BY <1>1, AdditionGains DEF Gained
<1>3. m \notin Holds(undo.says)
  BY <1>1, <1>2, HoldsOn DEF Facts
<1>4. g \notin VersionsOf(work.removed)
  BY DEF Fresh, Remembered, VersionsOf
<1> QED
  BY <1>2, <1>3, <1>4 DEF VersionsOf

LEMMA BeginAgenda ==
  ASSUME AgendaInv, Retract \/ Modify \/ Replace
  PROVE  Armed(Holds(undo.says))' /\ DeltaExact'
<1> USE DEF AgendaInv, KeysInv
<1>1. Idle /\ says \in [Names -> Contents \cup {Nothing}] /\ how \in [Names -> Held]
  BY MemoryTypes DEF Retract, Modify, Replace, Mutating, TypeInv
<1>2. /\ undo'.says = says /\ work'.removed = Lost /\ work'.added = Gained
      /\ UNCHANGED <<agenda, missed>>
  BY DEF Retract, Modify, Replace, Begin
<1>3. Armed(Holds(undo.says))'
  BY <1>1, <1>2, UntoldArmed DEF Armed, ArmedNext
<1>4. \A m \in Lost : Spent(m)'
  <2> SUFFICES ASSUME NEW m \in Lost PROVE Spent(m)'
    OBVIOUS
  <2>1. CASE Retract \/ Replace
    <3>1. PICK f \in Facts(says) : Gone(f)
      BY <2>1 DEF Retract, Replace
    <3>2. f \in m.on /\ says'[f] = Nothing
      BY <1>1, <3>1, RemovalLoses DEF Gone, Lost, Facts
    <3> QED
      BY <3>2 DEF Spent, Broken
  <2>2. CASE Modify
    <3>1. PICK f \in Facts(says), g \in Fresh, c \in Contents :
            /\ ~Derived(f) /\ c # says[f]
            /\ \A h \in Facts(says) \ {f} : KeyOf[says[h]] # KeyOf[c]
            /\ says' = [says EXCEPT ![f] = Nothing, ![g] = c]
            /\ how' = [how EXCEPT ![f] = "none", ![g] = how[f]]
      BY <2>2 DEF Modify
    <3>2. f \in Names /\ g \in Names /\ says[f] # Nothing /\ says[g] = Nothing /\ f # g
      BY <3>1, FreshName, FreshUnused DEF Facts
    <3>3. f \in m.on \/ c \in Blocks[m.rule]
      BY <1>1, <3>1, <3>2, ModificationLoses DEF Lost
    <3>4. how[f] = "stated"
      BY <1>1, <3>1, <3>2, IdleWork DEF SupportInv, SupportedIn, Derived, Held
    <3>5. /\ says'[f] = Nothing /\ g \in Facts(says') /\ says'[g] = c /\ how'[g] = "stated"
      BY <1>1, <3>1, <3>2, <3>4, MemoryAssumption DEF Facts
    <3> QED
      BY <3>3, <3>5 DEF Spent, Broken
  <2> QED
    BY <2>1, <2>2
<1>5. /\ Holds(says') = (Holds(says) \cup Gained) \ Lost
      /\ Gained \cap Holds(says) = {}
  BY DEF Lost, Gained
<1> QED
  BY <1>2, <1>3, <1>4, <1>5 DEF DeltaExact

\* While the cascade runs, the operation's delta grows by what it loses and
\* gains.
LEMMA DeltaGrows ==
  ASSUME NEW H0, NEW H, NEW H1, NEW removed, NEW added, NEW lost, NEW gained,
         H = (H0 \cup added) \ removed, added \cap H0 = {},
         lost = H \ H1, gained = H1 \ H, removed \cap H1 = {}
  PROVE  /\ H1 = (H0 \cup (added \cup gained)) \ (removed \cup lost)
         /\ (added \cup gained) \cap H0 = {}
OBVIOUS

LEMMA CascadeAgenda ==
  ASSUME AgendaInv, Undermine \/ Reconsider
  PROVE  Armed(Holds(undo.says))' /\ DeltaExact'
<1> USE DEF AgendaInv
<1>1. /\ says \in [Names -> Contents \cup {Nothing}] /\ how \in [Names -> Held]
      /\ work \in Work /\ work.doubtful \subseteq Names /\ ~Idle /\ undo' = undo
  BY MemoryTypes, WorkTypes
     DEF Undermine, Reconsider, Cascading, SupportInv, TypeInv, MemoryTypeOK
<1>2. Armed(Holds(undo.says))'
  BY <1>1, UntoldArmed DEF Undermine, Reconsider, Armed, ArmedNext
<1>3. CASE UNCHANGED <<says, how, work.removed, work.added>>
  BY <1>1, <1>2, <1>3 DEF DeltaExact, Spent, Broken
<1>4. CASE Reconsider
  <2>1. PICK f \in work.doubtful :
          IF f \in Facts(says) /\ how[f] = "logical" /\ ~Derived(f)
          THEN /\ Gone(f)
               /\ work'.removed = work.removed \cup Lost
               /\ work'.added = work.added \cup Gained
          ELSE /\ how' = IF how[f] = "both" /\ ~Derived(f)
                         THEN [how EXCEPT ![f] = "stated"] ELSE how
               /\ work'.removed = work.removed /\ work'.added = work.added
               /\ UNCHANGED says
    BY <1>1, <1>4 DEF Reconsider, Work
  <2>2. \A g \in Names : how[g] = "stated" => says'[g] = says[g] /\ how'[g] = "stated"
    BY <1>1, <2>1 DEF Gone
  <2>3. \A h \in Names : says[h] = Nothing => says'[h] = Nothing
    BY <1>1, <2>1 DEF Gone
  <2>4. \A m \in Match : Spent(m) => Spent(m)'
    BY <2>2, <2>3 DEF Spent, Broken, Facts, Match
  <2>5. \A m \in work.removed : Spent(m)'
    BY <1>1, <2>4, WorkTypes DEF DeltaExact, SupportInv, TypeInv
  <2>6. CASE f \in Facts(says) /\ how[f] = "logical" /\ ~Derived(f)
    <3>1. Gone(f) /\ f \in Names
      BY <2>1, <2>6 DEF Facts
    <3>2. \A m \in Lost : f \in m.on
      BY <1>1, <3>1, RemovalLoses DEF Gone, Lost
    <3>3. \A m \in Lost : Spent(m)'
      BY <1>1, <3>1, <3>2 DEF Spent, Broken, Gone
    <3>4. work.removed \cap Holds(says') = {}
      BY <2>5, SpentFails DEF Spent, Blocked
    <3>5. /\ Holds(says') = (Holds(undo.says) \cup (work.added \cup Gained))
                             \ (work.removed \cup Lost)
          /\ (work.added \cup Gained) \cap Holds(undo.says) = {}
      BY <1>1, <3>4, DeltaGrows DEF DeltaExact, Lost, Gained
    <3> QED
      BY <1>1, <1>2, <2>1, <2>5, <2>6, <3>3, <3>5 DEF DeltaExact
  <2>7. CASE ~(f \in Facts(says) /\ how[f] = "logical" /\ ~Derived(f))
    BY <1>1, <1>2, <2>1, <2>5, <2>7 DEF DeltaExact
  <2> QED
    BY <2>6, <2>7
<1>5. CASE Undermine
  <2>1. UNCHANGED <<says, how, work.removed, work.added>>
    BY <1>1, <1>5 DEF Undermine, Work
  <2> QED
    BY <1>3, <2>1
<1> QED
  BY <1>4, <1>5

LEMMA FinishAgenda ==
  ASSUME AgendaInv, FinishRetract \/ FinishModify \/ FinishFail \/ AbandonReplace
  PROVE  Armed(Holds(says))'
<1> USE DEF AgendaInv
<1>1. /\ Armed(Holds(undo.says))
      /\ Holds(says) = (Holds(undo.says) \cup work.added) \ work.removed
      /\ work.added \cap Holds(undo.says) = {}
  BY DEF FinishRetract, FinishModify, FinishFail, AbandonReplace, Settled, Cascading,
         DeltaExact
<1>2. SUFFICES ArmedNext(Holds(says'))
  BY DEF Armed, ArmedNext
<1>3. CASE FinishRetract
  <2>1. Holds(says) = (Holds(undo.says) \ (work.removed \ Both)) \cup (work.added \ Both)
    BY <1>1 DEF Both
  <2> QED
    BY <1>1, <1>3, <2>1, TellExact DEF FinishRetract, memory
<1>4. CASE FinishModify
  <2>1. CASE Both = {}
    <3>1. Holds(says) = (Holds(undo.says) \ work.removed) \cup work.added
      BY <1>1, <2>1 DEF Both
    <3>2. says' = says /\ Tell(work.removed, work.added) /\ missed' = missed
      BY <1>4, <2>1 DEF FinishModify, memory, SupportInv, TypeInv, MemoryTypeOK
    <3> QED
      BY <1>1, <3>1, <3>2, TellExact
  <2>2. CASE Both # {}
    BY <1>4, <2>2 DEF FinishModify, ArmedNext
  <2> QED
    BY <2>1, <2>2
<1>5. CASE FinishFail
  <2>1. CASE work.removed \cup work.added = {}
    BY <1>1, <1>5, <2>1 DEF FinishFail, memory, Armed, ArmedNext
  <2>2. CASE work.removed \cup work.added # {}
    BY <1>5, <2>2 DEF FinishFail, ArmedNext
  <2> QED
    BY <2>1, <2>2
<1>6. CASE AbandonReplace
  BY <1>1, <1>6, UntoldArmed DEF AbandonReplace, Restored
<1> QED
  BY <1>3, <1>4, <1>5, <1>6

LEMMA PutAgenda ==
  ASSUME AgendaInv, Insert \/ FinishReplace
  PROVE  Armed(Holds(says))'
<1> USE DEF AgendaInv
<1>1. SUFFICES ArmedNext(Holds(says'))
  BY DEF Armed, ArmedNext
<1>2. CASE Insert
  <2>1. Holds(says') = (Holds(says) \ Lost) \cup Gained
    BY DEF Lost, Gained
  <2>2. Armed(Holds(says))
    BY <1>2 DEF Insert, Mutating
  <2> QED
    BY <1>2, <2>1, <2>2, TellExact DEF Insert
<1>3. CASE FinishReplace
  <2> DEFINE removed == work.removed \cup Lost
             added   == work.added \cup Gained
  <2>1. /\ Armed(Holds(undo.says))
        /\ Holds(says) = (Holds(undo.says) \cup work.added) \ work.removed
        /\ work.added \cap Holds(undo.says) = {}
    BY <1>3 DEF FinishReplace, Settled, Cascading, DeltaExact
  <2>2. PICK g \in Fresh : Put(g, work.put, work.as)
    BY <1>3 DEF FinishReplace
  <2>3. work.put \in Contents
    BY <1>3 DEF FinishReplace, Settled, SupportInv, TypeInv, WorkWell
  <2>4. Gained \cap Holds(undo.says) = {} /\ Gained \cap work.removed = {}
    BY <2>2, <2>3, PutGains DEF SupportInv
  <2>5. Holds(says') = (Holds(says) \ Lost) \cup Gained /\ Lost \cap Gained = {}
    BY DEF Lost, Gained
  <2>6. Holds(says') = (Holds(undo.says) \ (removed \ added)) \cup (added \ removed)
    BY <2>1, <2>4, <2>5
  <2>7. Tell(removed \ added, added \ removed) /\ missed' = missed
    BY <1>3 DEF FinishReplace
  <2> HIDE DEF removed, added
  <2> QED
    BY <2>1, <2>6, <2>7, TellExact
<1> QED
  BY <1>2, <1>3

LEMMA AgendaNext ==
  ASSUME AgendaInv, [NextMemory]_memoryVars
  PROVE  AgendaInv'
<1> USE DEF AgendaInv
<1>1. SupportInv' /\ KeysInv' /\ TypeInv
  BY SupportNext, KeysNext DEF SupportInv
<1>2. CASE UNCHANGED memoryVars
  <2>1. says' = says /\ how' = how /\ undo' = undo /\ work' = work
    BY <1>2 DEF memoryVars, memory
  <2>2. Armed(Holds(IF Idle THEN says ELSE undo.says))'
    BY <1>2, <2>1 DEF Armed, Idle, memoryVars, agenda
  <2> QED
    BY <1>1, <2>1, <2>2 DEF Idle, DeltaExact, Spent, Broken
<1>3. CASE Restate \/ DeriveAgain \/ Unstate \/ EndFiring
  <2>1. Idle /\ says' = says /\ work' = work /\ UNCHANGED <<agenda, missed>>
    BY <1>3 DEF Restate, DeriveAgain, Unstate, EndFiring, Mutating, memory
  <2>2. ArmedNext(Holds(says'))
    BY <2>1, UntoldArmed
  <2> QED
    BY <1>1, <2>1, <2>2 DEF Idle, Armed, ArmedNext
<1>4. CASE Insert
  <2>1. Idle /\ work' = work
    BY <1>4 DEF Insert, Mutating
  <2> QED
    BY <1>1, <1>4, <2>1, PutAgenda DEF Idle
<1>5. CASE Retract \/ Modify \/ Replace
  <2>1. ~Idle'
    BY <1>5 DEF Retract, Modify, Replace, Begin, Idle
  <2> QED
    BY <1>1, <1>5, <2>1, BeginAgenda
<1>6. CASE Undermine \/ Reconsider
  <2>1. ~Idle'
    BY <1>1, <1>6 DEF Undermine, Reconsider, Cascading, Idle, TypeInv, MemoryTypeOK, Work
  <2> QED
    BY <1>1, <1>6, <2>1, CascadeAgenda
<1>7. CASE FinishRetract \/ FinishModify \/ FinishReplace \/ FinishFail \/ AbandonReplace
  <2>1. Idle'
    BY <1>7 DEF FinishRetract, FinishModify, FinishReplace, FinishFail, AbandonReplace,
                Done, NoWork, Idle
  <2>2. Armed(Holds(says))'
    BY <1>7, FinishAgenda, PutAgenda
  <2> QED
    BY <1>1, <2>1, <2>2
<1>8. CASE Fire
  <2>1. Idle /\ says' = says /\ work' = work /\ UNCHANGED <<ready, missed>>
    BY <1>8 DEF Fire, memory
  <2>2. ArmedNext(Holds(says'))
    BY <1>8, <2>1 DEF Fire, Armed, ArmedNext
  <2> QED
    BY <1>1, <2>1, <2>2 DEF Idle, Armed, ArmedNext
<1>9. CASE Fail
  <2>1. /\ Idle /\ ~Idle' /\ says' = says /\ undo'.says = says
        /\ work'.removed = {} /\ work'.added = {} /\ UNCHANGED <<agenda, missed>>
    BY <1>9 DEF Fail, NoWork, Idle, memory
  <2>2. ArmedNext(Holds(undo'.says))
    BY <2>1, UntoldArmed
  <2>3. DeltaExact'
    BY <2>1 DEF DeltaExact
  <2> QED
    BY <1>1, <2>1, <2>2, <2>3 DEF Armed, ArmedNext
<1>10. CASE ResetMemory
  <2>1. Holds(Empty.says) = {}
    BY NothingHolds
  <2>2. Idle /\ work' = work /\ says' = Empty.says /\ pending' = {} /\ consumed' = {}
    BY <1>10 DEF ResetMemory
  <2> QED
    BY <1>1, <2>1, <2>2 DEF Armed, Idle
<1> QED
  BY <1>2, <1>3, <1>4, <1>5, <1>6, <1>7, <1>8, <1>9, <1>10 DEF NextMemory

LEMMA InitAgenda == InitMemory => AgendaInv
<1> SUFFICES ASSUME InitMemory PROVE AgendaInv
  OBVIOUS
<1>1. Holds(Empty.says) = {}
  BY NothingHolds
<1> QED
  BY <1>1, InitSupport, InitKeys DEF AgendaInv, InitMemory, Armed, Idle, NoWork

LEMMA AgendaFollowsThen == AgendaInv => AgendaFollows
BY DEF AgendaInv, Armed, AgendaFollows

\* A clean agenda that was told of everything has exactly the matches that
\* hold: what an operation and its cascade add and remove, coalesced, is the
\* difference they make.
THEOREM AgendaKeepsUp == SpecMemory => []AgendaFollows
BY InitAgenda, AgendaNext, AgendaFollowsThen, PTL DEF SpecMemory

(***************************************************************************)
(* Refinement.  A cascade only takes away what its operation left without  *)
(* a reason, so that what is there when it has settled is what             *)
(* TruthMaintenance leaves.                                                *)
(***************************************************************************)
HowSeen   == IF Idle THEN how ELSE undo.how
EdgesSeen == IF Idle THEN edges ELSE undo.edges

LeftFrom(base) ==
  \A x \in Names : \/ how[x] = base[x]
                   \/ base[x] = "logical" /\ how[x] = "none"
                   \/ base[x] = "both" /\ how[x] = "stated"

Without(f) == [undo.how EXCEPT ![f] = "none"]

Begun ==
  \/ work.op = "fail" /\ LeftFrom(undo.how)
  \/ /\ work.op = "retract"
     /\ \E f \in Names : undo.how[f] = "stated" /\ LeftFrom(Without(f))
  \/ /\ work.op = "modify"
     /\ \E f, g \in Names : /\ undo.how[f] = "stated" /\ undo.how[g] = "none"
                            /\ LeftFrom([Without(f) EXCEPT ![g] = "stated"])
  \/ /\ work.op = "replace"
     /\ \E f \in Names : /\ undo.how[f] # "none" /\ LeftFrom(Without(f))
                         /\ \A e \in edges : e[2] # f

TruthInv == SupportInv /\ (~Idle => edges \subseteq undo.edges /\ Begun)

LEMMA TruthNext ==
  ASSUME TruthInv, [NextMemory]_memoryVars
  PROVE  TruthInv'
<1> USE DEF TruthInv
<1>1. /\ SupportInv' /\ work \in Work
      /\ says \in [Names -> Contents \cup {Nothing}] /\ how \in [Names -> Held]
      /\ undo.how \in [Names -> Held]
  BY SupportNext, MemoryTypes DEF SupportInv, TypeInv, MemoryTypeOK
<1>2. CASE UNCHANGED memoryVars
  BY <1>1, <1>2 DEF memoryVars, memory, Idle, Begun, LeftFrom, Without
<1>3. CASE Restate \/ DeriveAgain \/ Unstate \/ Insert \/ Fire \/ EndFiring \/ ResetMemory
  <2>1. Idle /\ work' = work
    BY <1>3 DEF Restate, DeriveAgain, Unstate, Insert, Fire, EndFiring, ResetMemory, Mutating
  <2> QED
    BY <1>1, <2>1 DEF Idle
<1>4. CASE FinishRetract \/ FinishModify \/ FinishReplace \/ FinishFail \/ AbandonReplace
  BY <1>1, <1>4 DEF FinishRetract, FinishModify, FinishReplace, FinishFail, AbandonReplace,
                    Done, NoWork, Idle
<1>5. CASE Retract
  <2>1. PICK f \in Facts(says) : how[f] = "stated" /\ Gone(f)
    BY <1>5 DEF Retract
  <2>2. work'.op = "retract" /\ undo'.how = how /\ undo'.edges = edges /\ edges' = edges
    BY <1>5 DEF Retract, Begin
  <2> QED
    BY <1>1, <2>1, <2>2 DEF Begun, LeftFrom, Without, Gone, Facts
<1>6. CASE Modify
  <2>1. PICK f \in Facts(says), g \in Fresh :
          /\ ~Derived(f)
          /\ how' = [how EXCEPT ![f] = "none", ![g] = how[f]]
    BY <1>6 DEF Modify
  <2>2. /\ work'.op = "modify" /\ undo'.how = how /\ undo'.edges = edges /\ edges' = edges
        /\ work.doubtful = {}
    BY <1>6, IdleWork DEF Modify, Mutating, Begin, SupportInv
  <2>3. f \in Names /\ g \in Names /\ how[f] = "stated" /\ how[g] = "none"
    BY <1>1, <2>1, <2>2, FreshName, FreshUnused
       DEF Facts, SupportInv, SupportedIn, Derived, Held
  <2> QED
    BY <1>1, <2>1, <2>2, <2>3 DEF Begun, LeftFrom, Without
<1>7. CASE Replace
  <2>1. PICK f \in Facts(says) : Gone(f) /\ edges' = Purged(f)
    BY <1>7 DEF Replace
  <2>2. /\ work'.op = "replace" /\ undo'.how = how /\ undo'.edges = edges
        /\ work.doubtful = {}
    BY <1>7, IdleWork DEF Replace, Mutating, Begin, SupportInv
  <2>3. f \in Names /\ how[f] # "none" /\ edges' \subseteq edges /\ \A e \in edges' : e[2] # f
    BY <1>1, <2>1 DEF Facts, SupportInv, SupportedIn, Purged
  <2> QED
    BY <1>1, <2>1, <2>2, <2>3 DEF Begun, LeftFrom, Without, Gone
<1>8. CASE Undermine
  <2>1. work'.op = work.op /\ undo' = undo /\ how' = how /\ edges' \subseteq edges /\ ~Idle
    BY <1>1, <1>8 DEF Undermine, Cascading, Work
  <2> QED
    BY <1>1, <2>1 DEF Begun, LeftFrom, Without
<1>9. CASE Reconsider
  <2>1. work'.op = work.op /\ undo' = undo /\ edges' = edges /\ ~Idle
    BY <1>1, <1>9 DEF Reconsider, Cascading, Work
  <2>2. \A x \in Names : \/ how'[x] = how[x]
                         \/ how[x] = "logical" /\ how'[x] = "none"
                         \/ how[x] = "both" /\ how'[x] = "stated"
    BY <1>1, <1>9 DEF Reconsider, Gone
  <2> QED
    BY <1>1, <2>1, <2>2 DEF Begun, LeftFrom, Without
<1>10. CASE Fail
  BY <1>1, <1>10 DEF Fail, NoWork, memory, Begun, LeftFrom
<1> QED
  BY <1>2, <1>3, <1>4, <1>5, <1>6, <1>7, <1>8, <1>9, <1>10 DEF NextMemory

\* What Ledger!Left leaves, said of the facts.
LEMMA LeftIs ==
  ASSUME NEW E \in SUBSET (Match \X Names), NEW x \in Names
  PROVE  Ledger!Left(E)[x] =
           IF HowSeen[x] = "logical" /\ ~\E e \in E : e[2] = x THEN "none"
           ELSE IF HowSeen[x] = "both" /\ ~\E e \in E : e[2] = x THEN "stated"
           ELSE HowSeen[x]
<1>1. Ledger!Derived(E, x) <=> \E e \in E : e[2] = x
  <2>1. ASSUME NEW e \in E, e[2] = x PROVE <<e[1], x>> \in E /\ e[1] \in Match
    BY <2>1
  <2>2. ASSUME NEW r \in Match, <<r, x>> \in E PROVE \E e \in E : e[2] = x
    <3>1. <<r, x>>[2] = x
      OBVIOUS
    <3> QED
      BY <2>2, <3>1
  <2> QED
    BY <2>1, <2>2 DEF Ledger!Derived
<1> QED
  BY <1>1 DEF Ledger!Left, HowSeen

\* When the cascade has settled, an exact memory that lost only what a memory
\* base could lose has what the edges leave of base.
LEMMA SettledExact ==
  ASSUME SupportedIn(says, how, edges, {}), NEW base, LeftFrom(base), NEW x \in Names
  PROVE  how[x] = IF base[x] = "logical" /\ ~\E e \in edges : e[2] = x THEN "none"
                  ELSE IF base[x] = "both" /\ ~\E e \in edges : e[2] = x THEN "stated"
                  ELSE base[x]
<1>1. \A e \in edges : e[2] = x => how[x] \in {"logical", "both"}
  BY DEF SupportedIn
<1>2. how[x] \in {"logical", "both"} => \E e \in edges : e[2] = x
  BY DEF SupportedIn
<1> QED
  BY <1>1, <1>2 DEF LeftFrom

LEMMA FinishMaps ==
  ASSUME TruthInv, FinishRetract \/ FinishModify \/ FinishFail
  PROVE  Ledger!Next
<1> USE DEF TruthInv
<1>1. /\ ~Idle /\ Idle' /\ SupportedIn(says, how, edges, {})
      /\ how' = how /\ edges' = edges
  BY DEF FinishRetract, FinishModify, FinishFail, Settled, Cascading, Done, NoWork,
         Idle, memory, SupportInv
<1>2. /\ how \in [Names -> Held] /\ undo.how \in [Names -> Held]
      /\ edges \in SUBSET (Match \X Names)
  BY MemoryTypes DEF SupportInv, TypeInv
<1>3. HowSeen = undo.how /\ HowSeen' = how /\ EdgesSeen = undo.edges /\ EdgesSeen' = edges
  BY <1>1 DEF HowSeen, EdgesSeen
<1>4. Ledger!Undermine
  BY <1>1, <1>3 DEF Ledger!Undermine, EdgesSeen
<1>5. Ledger!Left(edges) = [x \in Names |-> Ledger!Left(edges)[x]]
  BY DEF Ledger!Left
<1>6. CASE FinishFail
  <2>1. LeftFrom(undo.how)
    BY <1>1, <1>6 DEF FinishFail, Begun
  <2>2. how = Ledger!Left(edges)
    BY <1>1, <1>2, <1>3, <1>5, <2>1, LeftIs, SettledExact
  <2>3. Ledger!Disown
    BY <1>3, <1>4, <2>2 DEF Ledger!Disown, HowSeen, EdgesSeen
  <2> QED
    BY <2>3 DEF Ledger!Next
<1>7. CASE FinishRetract
  <2>1. PICK f \in Names : undo.how[f] = "stated" /\ LeftFrom(Without(f))
    BY <1>1, <1>7 DEF FinishRetract, Begun
  <2>2. how = [Ledger!Left(edges) EXCEPT ![f] = "none"]
    BY <1>1, <1>2, <1>3, <1>5, <2>1, LeftIs, SettledExact DEF Without
  <2>3. Ledger!Withdraw(f)
    BY <1>3, <1>4, <2>1, <2>2 DEF Ledger!Withdraw, HowSeen, EdgesSeen
  <2> QED
    BY <2>3 DEF Ledger!Next
<1>8. CASE FinishModify
  <2>1. PICK f \in Names, g \in Names :
          /\ undo.how[f] = "stated" /\ undo.how[g] = "none"
          /\ LeftFrom([Without(f) EXCEPT ![g] = "stated"])
    BY <1>1, <1>8 DEF FinishModify, Begun
  <2>2. how = [Ledger!Left(edges) EXCEPT ![f] = "none", ![g] = "stated"]
    BY <1>1, <1>2, <1>3, <1>5, <2>1, LeftIs, SettledExact DEF Without
  <2>3. Ledger!Amend(f, g)
    BY <1>3, <1>4, <2>1, <2>2 DEF Ledger!Amend, HowSeen, EdgesSeen
  <2> QED
    BY <2>3 DEF Ledger!Next
<1> QED
  BY <1>6, <1>7, <1>8

LEMMA ReplaceMaps ==
  ASSUME TruthInv, FinishReplace
  PROVE  Ledger!Next
<1> USE DEF TruthInv
<1>1. /\ ~Idle /\ Idle' /\ SupportedIn(says, how, edges, {})
      /\ SupportedIn(undo.says, undo.how, undo.edges, {})
  BY DEF FinishReplace, Settled, Cascading, Done, NoWork, Idle, SupportInv
<1>2. /\ how \in [Names -> Held] /\ undo.how \in [Names -> Held]
      /\ edges \in SUBSET (Match \X Names) /\ edges' \in SUBSET (Match \X Names)
  <2>1. TypeInv'
    BY TypesNext DEF SupportInv, NextMemory
  <2> QED
    BY <2>1, MemoryTypes DEF SupportInv, TypeInv, MemoryTypeOK, Memory
<1>3. HowSeen = undo.how /\ HowSeen' = how' /\ EdgesSeen = undo.edges /\ EdgesSeen' = edges'
  BY <1>1 DEF HowSeen, EdgesSeen
<1>4. PICK f \in Names : /\ undo.how[f] # "none" /\ LeftFrom(Without(f))
                         /\ \A e \in edges : e[2] # f
  BY <1>1 DEF FinishReplace, Begun
<1>5. PICK g \in Fresh : Put(g, work.put, work.as)
  BY DEF FinishReplace
<1>6. /\ g \in Names /\ undo.how[g] = "none" /\ \A e \in edges : e[2] # g
  BY <1>1, <1>5, FreshName, FreshUnused DEF SupportedIn
<1>7. /\ work.as \in {"stated", "logical"}
      /\ work.as = "logical" => firing \in Match
  BY DEF FinishReplace, Settled, SupportInv, TypeInv, WorkWell, MemoryTypeOK
<1>8. edges \subseteq undo.edges
  BY <1>1
<1>9. Ledger!Left(edges') = [x \in Names |-> Ledger!Left(edges')[x]]
  BY DEF Ledger!Left
<1>10. how' = [how EXCEPT ![g] = work.as]
  BY <1>5 DEF Put
<1>11. CASE work.as = "stated"
  <2>1. edges' = edges
    BY <1>5, <1>11 DEF Put
  <2>2. how' = [Ledger!Left(edges') EXCEPT ![f] = "none", ![g] = "stated"]
    <3>1. \A x \in Names \ {g} :
            how'[x] = [Ledger!Left(edges') EXCEPT ![f] = "none", ![g] = "stated"][x]
      BY <1>1, <1>2, <1>3, <1>4, <1>6, <1>9, <1>10, <2>1, LeftIs, SettledExact DEF Without
    <3> QED
      BY <1>2, <1>6, <1>9, <1>10, <1>11, <3>1
  <2>3. HowSeen[f] # "none" /\ HowSeen[g] = "none"
    BY <1>3, <1>4, <1>6
  <2>4. EdgesSeen' \subseteq {e \in EdgesSeen : e[2] # f}
    BY <1>3, <1>4, <1>8, <2>1
  <2>5. HowSeen' = [Ledger!Left(EdgesSeen') EXCEPT ![f] = "none", ![g] = "stated"]
    BY <1>3, <2>2
  <2>6. Ledger!Supplant(f, g)
    BY <2>3, <2>4, <2>5 DEF Ledger!Supplant, HowSeen, EdgesSeen
  <2> QED
    BY <1>6, <2>6 DEF Ledger!Next
<1>12. CASE work.as = "logical"
  <2>1. edges' = edges \cup {<<firing, g>>} /\ firing \in Match
    BY <1>5, <1>7, <1>12 DEF Put
  <2>2. \A x \in Names \ {g} : (\E e \in edges' : e[2] = x) <=> \E e \in edges : e[2] = x
    BY <2>1
  <2>3. how' = [Ledger!Left(edges') EXCEPT ![f] = "none", ![g] = "logical"]
    <3>1. \A x \in Names \ {g} :
            how'[x] = [Ledger!Left(edges') EXCEPT ![f] = "none", ![g] = "logical"][x]
      BY <1>1, <1>2, <1>3, <1>4, <1>6, <1>9, <1>10, <2>2, LeftIs, SettledExact DEF Without
    <3> QED
      BY <1>2, <1>6, <1>9, <1>10, <1>12, <3>1
  <2>4. /\ <<firing, g>> \in edges'
        /\ edges' \ {<<firing, g>>} \subseteq {e \in undo.edges : e[2] # f}
    BY <1>4, <1>8, <2>1
  <2>5. HowSeen[f] # "none" /\ HowSeen[g] = "none"
    BY <1>3, <1>4, <1>6
  <2>6. /\ <<firing, g>> \in EdgesSeen'
        /\ EdgesSeen' \ {<<firing, g>>} \subseteq {e \in EdgesSeen : e[2] # f}
    BY <1>3, <2>4
  <2>7. HowSeen' = [Ledger!Left(EdgesSeen') EXCEPT ![f] = "none", ![g] = "logical"]
    BY <1>3, <2>3
  <2>8. Ledger!Supplant(f, g)
    BY <2>1, <2>5, <2>6, <2>7 DEF Ledger!Supplant, HowSeen, EdgesSeen
  <2> QED
    BY <1>6, <2>8 DEF Ledger!Next
<1> QED
  BY <1>7, <1>11, <1>12

\* Operations that are one step here are one step there.
LEMMA StepMaps ==
  ASSUME TruthInv, Restate \/ DeriveAgain \/ Insert \/ Unstate \/ ResetMemory
  PROVE  Ledger!Next
<1> USE DEF TruthInv
<1>1. Idle /\ Idle' /\ SupportedIn(says, how, edges, {})
  BY IdleWork DEF Restate, DeriveAgain, Insert, Unstate, ResetMemory, Mutating, Idle, SupportInv
<1>2. how \in [Names -> Held]
  BY MemoryTypes DEF SupportInv, TypeInv
<1>3. HowSeen = how /\ HowSeen' = how' /\ EdgesSeen = edges /\ EdgesSeen' = edges'
  BY <1>1 DEF HowSeen, EdgesSeen
<1>4. CASE Restate
  <2>1. PICK f \in Facts(says) : how[f] = "logical" /\ how' = [how EXCEPT ![f] = "both"]
    BY <1>4 DEF Restate
  <2>2. edges' = edges /\ f \in Names
    BY <1>4, <2>1 DEF Restate, Facts
  <2>3. Ledger!State(f)
    BY <1>3, <2>1, <2>2 DEF Ledger!State, HowSeen, EdgesSeen
  <2> QED
    BY <2>2, <2>3 DEF Ledger!Next
<1>5. CASE Unstate
  <2>1. PICK f \in Facts(says) : how[f] = "both" /\ how' = [how EXCEPT ![f] = "logical"]
    BY <1>5 DEF Unstate
  <2>2. edges' = edges /\ f \in Names
    BY <1>5, <2>1 DEF Unstate, Facts
  <2>3. Ledger!Withdraw(f)
    BY <1>3, <2>1, <2>2 DEF Ledger!Withdraw, HowSeen, EdgesSeen
  <2> QED
    BY <2>2, <2>3 DEF Ledger!Next
<1>6. CASE DeriveAgain
  <2>1. PICK f \in Facts(says) :
          /\ how' = [how EXCEPT ![f] = IF @ = "logical" THEN @ ELSE "both"]
          /\ edges' = edges \cup {<<firing, f>>}
    BY <1>6 DEF DeriveAgain
  <2>2. f \in Names /\ how[f] # "none" /\ firing \in Match
    BY <1>1, <1>6 DEF DeriveAgain, Facts, SupportedIn, SupportInv, TypeInv, MemoryTypeOK
  <2>3. how' = [how EXCEPT ![f] = IF @ \in {"none", "logical"} THEN "logical" ELSE "both"]
    BY <1>2, <2>1, <2>2
  <2>4. Ledger!Derive(f, firing)
    BY <1>3, <2>1, <2>3 DEF Ledger!Derive, HowSeen, EdgesSeen
  <2> QED
    BY <2>2, <2>4 DEF Ledger!Next
<1>7. CASE Insert
  <2>1. PICK c \in Contents, f \in Fresh, as \in Manner : Put(f, c, as)
    BY <1>7 DEF Insert
  <2>2. f \in Names /\ how[f] = "none"
    BY <1>1, <2>1, FreshName, FreshUnused DEF SupportedIn
  <2>3. CASE as = "stated"
    <3>1. how' = [how EXCEPT ![f] = "stated"] /\ edges' = edges
      BY <2>1, <2>3 DEF Put
    <3>2. Ledger!State(f)
      BY <1>3, <2>2, <3>1 DEF Ledger!State, HowSeen, EdgesSeen
    <3> QED
      BY <2>2, <3>2 DEF Ledger!Next
  <2>4. CASE as = "logical"
    <3>1. firing \in Match
      BY <2>1, <2>4 DEF Manner, SupportInv, TypeInv, MemoryTypeOK
    <3>2. /\ how' = [how EXCEPT ![f] = IF @ \in {"none", "logical"} THEN "logical" ELSE "both"]
          /\ edges' = edges \cup {<<firing, f>>}
      BY <2>1, <2>2, <2>4 DEF Put
    <3>3. Ledger!Derive(f, firing)
      BY <1>3, <3>2 DEF Ledger!Derive, HowSeen, EdgesSeen
    <3> QED
      BY <2>2, <3>1, <3>3 DEF Ledger!Next
  <2> QED
    BY <2>1, <2>3, <2>4 DEF Manner
<1>8. CASE ResetMemory
  <2>1. Ledger!Clear
    BY <1>3, <1>8 DEF ResetMemory, Empty, Ledger!Clear, HowSeen, EdgesSeen
  <2> QED
    BY <2>1 DEF Ledger!Next
<1> QED
  BY <1>4, <1>5, <1>6, <1>7, <1>8

\* The rest cannot be seen: what a cascade has not finished, and what it
\* restores.
LEMMA StutterMaps ==
  ASSUME TruthInv,
         \/ Retract \/ Modify \/ Replace \/ Fail \/ Undermine \/ Reconsider
         \/ AbandonReplace \/ Fire \/ EndFiring \/ UNCHANGED memoryVars
  PROVE  UNCHANGED <<HowSeen, EdgesSeen>>
<1> USE DEF TruthInv
<1>1. CASE Retract \/ Modify \/ Replace \/ Fail
  <2>1. Idle /\ ~Idle' /\ undo'.how = how /\ undo'.edges = edges
    <3>1. CASE Retract \/ Modify \/ Replace
      BY <3>1 DEF Retract, Modify, Replace, Mutating, Begin, Idle
    <3>2. CASE Fail
      BY <3>2 DEF Fail, NoWork, Idle
    <3> QED
      BY <1>1, <3>1, <3>2
  <2> QED
    BY <2>1 DEF HowSeen, EdgesSeen
<1>2. CASE Undermine \/ Reconsider
  <2>1. ~Idle /\ ~Idle' /\ undo' = undo
    BY <1>2 DEF Undermine, Reconsider, Cascading, Idle, SupportInv, TypeInv, MemoryTypeOK, Work
  <2> QED
    BY <2>1 DEF HowSeen, EdgesSeen
<1>3. CASE AbandonReplace
  <2>1. ~Idle /\ Idle' /\ how' = undo.how /\ edges' = undo.edges
    BY <1>3 DEF AbandonReplace, Cascading, Restored, Done, NoWork, Idle
  <2> QED
    BY <2>1 DEF HowSeen, EdgesSeen
<1>4. CASE Fire \/ EndFiring \/ UNCHANGED memoryVars
  <2>1. work' = work /\ undo' = undo /\ how' = how /\ edges' = edges
    BY <1>4 DEF Fire, EndFiring, memoryVars, memory
  <2> QED
    BY <2>1 DEF HowSeen, EdgesSeen, Idle
<1> QED
  BY <1>1, <1>2, <1>3, <1>4

LEMMA InitTruth == InitMemory => TruthInv /\ Ledger!Init
<1> SUFFICES ASSUME InitMemory PROVE TruthInv /\ Ledger!Init
  OBVIOUS
<1>1. TruthInv
  BY InitSupport DEF TruthInv, InitMemory, Idle, NoWork
<1>2. Ledger!Init
  BY DEF InitMemory, Empty, NoWork, Idle, Ledger!Init
<1> QED
  BY <1>1, <1>2

\* Every operation, its cascade included, is one step of TruthMaintenance: only
\* what has no reason left goes with the fact that was taken, and a
\* replacement that fails is never seen.
THEOREM TruthKept == SpecMemory => KeepsTruth
<1>1. InitMemory => TruthInv /\ Ledger!Init
  BY InitTruth
<1>2. TruthInv /\ [NextMemory]_memoryVars => TruthInv'
  BY TruthNext
<1>3. TruthInv /\ [NextMemory]_memoryVars =>
        [Ledger!Next]_<<IF Idle THEN how ELSE undo.how, IF Idle THEN edges ELSE undo.edges>>
  BY FinishMaps, ReplaceMaps, StepMaps, StutterMaps DEF NextMemory, HowSeen, EdgesSeen
<1> QED
  BY <1>1, <1>2, <1>3, PTL DEF SpecMemory, KeepsTruth, Ledger!Spec
=============================================================================
