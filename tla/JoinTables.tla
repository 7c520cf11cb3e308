----------------------------- MODULE JoinTables ------------------------------
(***************************************************************************)
(* The tables a join keeps its memory in.  The rows of a side are in one   *)
(* arena, chained by the slot of their join key, with a free list through  *)
(* the rows that are gone (betaJoinBucketTable); a row is found again by   *)
(* the reference its token remembers, or by an index of token hashes that  *)
(* is built when it is first needed; the outputs are links of an arena of  *)
(* their own, in the chain of their left row and in the chain of their     *)
(* right row (joinOutputTable).  References count from 1, and 0 is none.   *)
(***************************************************************************)
EXTENDS Integers, FiniteSets, Sequences, SequencesExt

CONSTANTS
  LeftTokens, RightTokens, \* the tokens of each side; a token may be of both
  JoinKey(_, _),           \* the join key of a token at a side
  Identity(_),             \* identityState: tokens may share it
  Spread,                  \* the tokens that another node may store too
  Holding,                 \* for each fact, the tokens that hold it
  MinRows,                 \* the rows a table has slots for at first: 8 in the code
  NoRow                    \* a row that is free

VARIABLES
  left, right,  \* the table of each side
  links,        \* the arena of the outputs, and the head of its free list
  freeLink,
  holders,      \* where each token remembers it is stored: <<table, row>>,
                \* two at most, or Many
  elsewhere     \* the tokens a table of another node stores

outputTable == <<links, freeLink>>
tableVars == <<left, right, outputTable, holders, elsewhere>>

JoinTokens == LeftTokens \cup RightTokens
Many == {<<"many", 0>>}
Partners(l, r) == JoinKey("left", l) = JoinKey("right", r)

----------------------------------------------------------------------------
\* One table: heads and tails of the slots, the arena of rows with its chains,
\* and the index, there or not yet.

EmptyTable == [heads |-> <<>>, tails |-> <<>>, rows |-> <<>>, next |-> <<>>,
               prev |-> <<>>, free |-> 0, count |-> 0, touched |-> {},
               indexed |-> FALSE, index |-> <<>>]

Live(T)    == {r \in DOMAIN T.rows : T.rows[r] # NoRow}
RowsOf(T)  == SelectSeq([r \in 1..Len(T.rows) |-> r], LAMBDA r : r \in Live(T))
TokenAt(T, r) == T.rows[r].token

\* The references from a head on, for as long as the chain could be.
Walk(next, head) ==
  LET at[i \in 1..Len(next)] ==
        IF i = 1 THEN head ELSE IF at[i - 1] = 0 THEN 0 ELSE next[at[i - 1]]
  IN  SelectSeq(at, LAMBDA ref : ref # 0)

\* graphTokenBucketSlotCapacity: twice the rows, rounded up to a power of two.
PowerOfTwo(n) == CHOOSE p \in {2 ^ i : i \in 0..n} : p >= n /\ p < 2 * n
Slots(rows)   == PowerOfTwo(2 * rows)
Slot(T, k)    == (k % Len(T.heads)) + 1

Chained(T, r) ==
  LET s == Slot(T, T.rows[r].key)
      tail == T.tails[s]
  IN  IF T.heads[s] = 0
      THEN [T EXCEPT !.heads[s] = r, !.tails[s] = r, !.next[r] = 0, !.prev[r] = 0,
                     !.touched = @ \cup {s}]
      ELSE [T EXCEPT !.next[tail] = r, !.prev[r] = tail, !.next[r] = 0, !.tails[s] = r]

\* More rows than before: new slots, every chain again, the arena as it is.
Reserved(T, rows) ==
  IF Slots(rows) <= Len(T.heads) THEN T
  ELSE LET none == [s \in 1..Slots(rows) |-> 0]
           bare == [T EXCEPT !.heads = none, !.tails = none, !.touched = {}, !.free = 0]
       IN  FoldLeft(LAMBDA U, r : IF U.rows[r] = NoRow
                                  THEN [U EXCEPT !.next[r] = U.free, !.free = r]
                                  ELSE Chained(U, r),
                    bare, [r \in 1..Len(T.rows) |-> r])

----------------------------------------------------------------------------
\* The index: for each hash two references, and the others.

NoBucket == [first |-> 0, second |-> 0, rest |-> <<>>]
BucketOf(T, h) == IF h \in DOMAIN T.index THEN T.index[h] ELSE NoBucket
RefsIn(b) == ({b.first, b.second} \ {0}) \cup Range(b.rest)

AddedRef(b, r) ==
  IF b.first = 0 THEN [b EXCEPT !.first = r]
  ELSE IF b.second = 0 THEN [b EXCEPT !.second = r]
  ELSE [b EXCEPT !.rest = Append(@, r)]

\* Faulty variant of Promoted: the references that overflowed stay where they are.
PromotedNone(b) == b

\* promoteOverflow: the second place is filled from the rest.
Promoted(b) == IF b.rest = <<>> THEN b
               ELSE [b EXCEPT !.second = Last(b.rest), !.rest = Front(@)]

RemovedRef(b, r) ==
  CASE b.first = r  -> Promoted([b EXCEPT !.first = b.second, !.second = 0])
    [] b.second = r -> Promoted([b EXCEPT !.second = 0])
    [] OTHER -> LET i == CHOOSE i \in DOMAIN b.rest : b.rest[i] = r
                IN  [b EXCEPT !.rest = Front([b.rest EXCEPT ![i] = Last(b.rest)])]

HashAt(T, r) == Identity(TokenAt(T, r))
SetBucket(T, h, b) ==
  [T EXCEPT !.index = [g \in (DOMAIN T.index \cup {h}) \ (IF b.first = 0 THEN {h} ELSE {}) |->
                         IF g = h THEN b ELSE T.index[g]]]

Indexed(T, r) ==
  IF T.indexed THEN SetBucket(T, HashAt(T, r), AddedRef(BucketOf(T, HashAt(T, r)), r)) ELSE T

Unindexed(T, r) ==
  IF T.indexed /\ HashAt(T, r) \in DOMAIN T.index
  THEN SetBucket(T, HashAt(T, r), RemovedRef(BucketOf(T, HashAt(T, r)), r)) ELSE T

\* ensureIdentityIndex: built over the rows there are, when a removal needs it.
WithIndex(T) ==
  IF T.indexed THEN T
  ELSE FoldLeft(Indexed, [T EXCEPT !.indexed = TRUE], RowsOf(T))

----------------------------------------------------------------------------
\* Rows come and go.

FreshRow(T) == IF T.free # 0 THEN T.free ELSE Len(T.rows) + 1

Placed(T, row) ==
  IF T.free # 0 THEN [T EXCEPT !.free = T.next[T.free], !.rows[T.free] = row]
  ELSE [T EXCEPT !.rows = Append(@, row), !.next = Append(@, 0), !.prev = Append(@, 0)]

InsertedRow(T, row) ==
  LET R == Reserved(T, IF MinRows > T.count + 1 THEN MinRows ELSE T.count + 1)
      r == FreshRow(R)
  IN  [Indexed(Chained(Placed(R, row), r), r) EXCEPT !.count = @ + 1]

\* Faulty variant of UnchainedRow: the end of the chain is forgotten.
UnchainedHead(T, r) ==
  LET s == Slot(T, T.rows[r].key)
      n == T.next[r]
      p == T.prev[r]
      H == IF p = 0 THEN [T EXCEPT !.heads[s] = n] ELSE [T EXCEPT !.next[p] = n]
  IN  IF n = 0 THEN H ELSE [H EXCEPT !.prev[n] = p]

UnchainedRow(T, r) ==
  LET s == Slot(T, T.rows[r].key)
      n == T.next[r]
      p == T.prev[r]
      H == IF p = 0 THEN [T EXCEPT !.heads[s] = n] ELSE [T EXCEPT !.next[p] = n]
      P == IF n = 0 THEN H ELSE [H EXCEPT !.prev[n] = p]
  IN  IF T.tails[s] = r THEN [P EXCEPT !.tails[s] = p] ELSE P

UnlinkedRow(T, r) ==
  LET U == UnchainedRow(Unindexed(T, r), r)
  IN  [U EXCEPT !.rows[r] = NoRow, !.next[r] = U.free, !.prev[r] = 0, !.free = r,
                !.count = @ - 1]

\* What a token remembers: a third table makes it forget, for good.
HeldAt(t, at) ==
  [holders EXCEPT ![t] = IF @ = Many THEN Many
                         ELSE IF Cardinality(@) < 2 THEN @ \cup {at} ELSE Many]

Unheld(h, t, at) == [h EXCEPT ![t] = IF @ = Many THEN Many ELSE @ \ {at}]

----------------------------------------------------------------------------
\* Outputs: a join is the two tables and the arena of links.

Joint == [left |-> left, right |-> right, links |-> links, free |-> freeLink]
Become(J) == /\ left' = J.left /\ right' = J.right
             /\ links' = J.links /\ freeLink' = J.free

FreeLink(head) == [leftRow |-> 0, rightRow |-> 0, leftNext |-> head, leftPrev |-> 0,
                   rightNext |-> 0, rightPrev |-> 0]

Linked(J, l, r) ==
  LET ref == IF J.free # 0 THEN J.free ELSE Len(J.links) + 1
      new == [leftRow |-> l, rightRow |-> r,
              leftNext |-> J.left.rows[l].head, leftPrev |-> 0,
              rightNext |-> J.right.rows[r].head, rightPrev |-> 0]
      old == IF J.free # 0 THEN [J.links EXCEPT ![ref] = new] ELSE Append(J.links, new)
      ln  == IF new.leftNext = 0 THEN old ELSE [old EXCEPT ![new.leftNext].leftPrev = ref]
      rn  == IF new.rightNext = 0 THEN ln ELSE [ln EXCEPT ![new.rightNext].rightPrev = ref]
  IN  [left  |-> [J.left EXCEPT !.rows[l].head = ref],
       right |-> [J.right EXCEPT !.rows[r].head = ref],
       links |-> rn,
       free  |-> IF J.free # 0 THEN J.links[ref].leftNext ELSE 0]

\* The links of a row, by the chain of its side.
LinksOf(J, side, head) ==
  Walk([i \in DOMAIN J.links |-> IF side = "left" THEN J.links[i].leftNext
                                                  ELSE J.links[i].rightNext], head)

UnlinkFromLeft(J, ref) ==
  LET k == J.links[ref]
      H == IF k.leftPrev = 0 THEN [J EXCEPT !.left.rows[k.leftRow].head = k.leftNext]
           ELSE [J EXCEPT !.links[k.leftPrev].leftNext = k.leftNext]
  IN  IF k.leftNext = 0 THEN H ELSE [H EXCEPT !.links[k.leftNext].leftPrev = k.leftPrev]

\* Faulty variant of UnlinkFromRight: the link behind keeps what was before it.
UnlinkFromRightHead(J, ref) ==
  LET k == J.links[ref]
  IN  IF k.rightPrev = 0 THEN [J EXCEPT !.right.rows[k.rightRow].head = k.rightNext]
      ELSE [J EXCEPT !.links[k.rightPrev].rightNext = k.rightNext]

UnlinkFromRight(J, ref) ==
  LET k == J.links[ref]
      H == IF k.rightPrev = 0 THEN [J EXCEPT !.right.rows[k.rightRow].head = k.rightNext]
           ELSE [J EXCEPT !.links[k.rightPrev].rightNext = k.rightNext]
  IN  IF k.rightNext = 0 THEN H ELSE [H EXCEPT !.links[k.rightNext].rightPrev = k.rightPrev]

FreedLink(J, ref) == [J EXCEPT !.links[ref] = FreeLink(J.free), !.free = ref]

\* removeAllForLeft and removeAllForRight: the chain of a row that goes is
\* drained, each link taken out of the chain of the row that stays.
Drained(J, side, head) ==
  FoldLeft(LAMBDA K, ref :
             FreedLink(IF side = "left" THEN UnlinkFromRight(K, ref) ELSE UnlinkFromLeft(K, ref), ref),
           J, LinksOf(J, side, head))

\* The rows of a key, in the order of its chain (forEachChainRow).
RowsOfKey(T, k) ==
  IF T.count = 0 THEN <<>>
  ELSE SelectSeq(Walk(T.next, T.heads[Slot(T, k)]), LAMBDA r : T.rows[r].key = k)

----------------------------------------------------------------------------
\* The operations of a join node.

InsertJoinLeft(t) ==
  LET T == InsertedRow(left, [token |-> t, key |-> JoinKey("left", t), head |-> 0])
      r == CHOOSE r \in Live(T) : TokenAt(T, r) = t
  IN  /\ \A s \in Live(left) : TokenAt(left, s) # t
      /\ Become(FoldLeft(LAMBDA J, o : Linked(J, r, o), [Joint EXCEPT !.left = T],
                         RowsOfKey(right, JoinKey("left", t))))
      /\ holders' = HeldAt(t, <<"left", r>>)
      /\ UNCHANGED elsewhere

InsertJoinRight(t) ==
  LET T == InsertedRow(right, [token |-> t, key |-> JoinKey("right", t), head |-> 0])
      r == CHOOSE r \in Live(T) : TokenAt(T, r) = t
  IN  /\ \A s \in Live(right) : TokenAt(right, s) # t
      /\ Become(FoldLeft(LAMBDA J, o : Linked(J, o, r), [Joint EXCEPT !.right = T],
                         RowsOfKey(left, JoinKey("right", t))))
      /\ holders' = HeldAt(t, <<"right", r>>)
      /\ UNCHANGED elsewhere

\* removeIdentityToken, with the token that was stored or with an equal one:
\* the first remembers its row, the other is looked up in the index.
RememberedRow(T, side, t) ==
  IF holders[t] = Many THEN {}
  ELSE {r \in Live(T) : <<side, r>> \in holders[t] /\ TokenAt(T, r) = t}

LookedUp(T, t) ==
  {r \in RefsIn(BucketOf(T, Identity(t))) \cap Live(T) : TokenAt(T, r) = t}

RemoveJoinToken(side, t, stored) ==
  LET at == IF stored THEN RememberedRow(Joint[side], side, t) ELSE {}
      J  == IF at = {} THEN [Joint EXCEPT ![side] = WithIndex(@)] ELSE Joint
      found == IF at = {} THEN LookedUp(J[side], t) ELSE at
  IN  IF found = {} THEN Become(J) /\ UNCHANGED <<holders, elsewhere>>
      ELSE LET r == CHOOSE r \in found : TRUE
           IN  /\ Become(Drained([J EXCEPT ![side] = UnlinkedRow(@, r)], side, J[side].rows[r].head))
               /\ holders' = Unheld(holders, t, <<side, r>>)
               /\ UNCHANGED elsewhere

\* removeMatching: every row that holds the fact, in the order of the arena,
\* each drained before its row is let go.
RemoveMatching(side, ts) ==
  LET T    == Joint[side]
      rows == SelectSeq(RowsOf(T), LAMBDA r : TokenAt(T, r) \in ts)
  IN  /\ Become(FoldLeft(LAMBDA J, r : LET D == Drained(J, side, J[side].rows[r].head)
                                       IN  [D EXCEPT ![side] = UnlinkedRow(@, r)],
                         Joint, rows))
      /\ holders' = FoldLeft(LAMBDA h, r : Unheld(h, TokenAt(T, r), <<side, r>>), holders, rows)
      /\ UNCHANGED elsewhere

\* clear: only the slots that were touched are emptied.  The tokens are new
\* from then on, and remember nothing.
ClearedTable(T) ==
  LET Emptied(f) == [s \in DOMAIN f |-> IF s \in T.touched THEN 0 ELSE f[s]]
  IN  [EmptyTable EXCEPT !.heads = Emptied(T.heads), !.tails = Emptied(T.tails)]

ClearTables ==
  /\ left' = ClearedTable(left) /\ right' = ClearedTable(right)
  /\ links' = <<>> /\ freeLink' = 0
  /\ holders' = [t \in JoinTokens |-> {}]
  /\ elsewhere' = {}

\* Another node's table takes the token, or lets it go.
StoreElsewhere(t) ==
  /\ t \notin elsewhere
  /\ elsewhere' = elsewhere \cup {t}
  /\ holders' = HeldAt(t, <<"elsewhere", 1>>)
  /\ UNCHANGED <<left, right, outputTable>>

DropElsewhere(t) ==
  /\ t \in elsewhere
  /\ elsewhere' = elsewhere \ {t}
  /\ holders' = Unheld(holders, t, <<"elsewhere", 1>>)
  /\ UNCHANGED <<left, right, outputTable>>

TokensOf(side) == IF side = "left" THEN LeftTokens ELSE RightTokens

InitTables ==
  /\ left = EmptyTable /\ right = EmptyTable
  /\ links = <<>> /\ freeLink = 0
  /\ holders = [t \in JoinTokens |-> {}]
  /\ elsewhere = {}

NextTables ==
  \/ \E t \in LeftTokens : InsertJoinLeft(t)
  \/ \E t \in RightTokens : InsertJoinRight(t)
  \/ \E side \in {"left", "right"} :
       \/ \E t \in TokensOf(side), stored \in BOOLEAN : RemoveJoinToken(side, t, stored)
       \/ \E ts \in Holding : RemoveMatching(side, ts)
  \/ ClearTables
  \/ \E t \in Spread : StoreElsewhere(t) \/ DropElsewhere(t)

SpecTables == InitTables /\ [][NextTables]_tableVars
=============================================================================
