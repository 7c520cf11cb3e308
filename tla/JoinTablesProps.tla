-------------------------- MODULE JoinTablesProps ----------------------------
(***************************************************************************)
(* The properties of JoinTables: its chains and indexes hold what they     *)
(* should, and a join kept in them is the join of JoinMemory.              *)
(***************************************************************************)
EXTENDS JoinTables

TokensIn(T) == {TokenAt(T, r) : r \in Live(T)}
LiveLinks   == {i \in DOMAIN links : links[i].leftRow # 0}

\* A chain from a head is the set of its references, and each link back is right.
IsChain(next, prev, head, refs) ==
  LET w == Walk(next, head)
  IN  /\ Range(w) = refs /\ Len(w) = Cardinality(refs)
      /\ \A i \in DOMAIN w : prev[w[i]] = IF i = 1 THEN 0 ELSE w[i - 1]

\* The chain of each slot holds the live rows of that slot and no other, from
\* its head to its tail and back, and the free list holds the other rows, each
\* once: after growth, after reuse and after a clear (chainRow, unlink, reserve).
ChainsExact ==
  \A T \in {left, right} :
    /\ \A s \in DOMAIN T.heads :
         LET refs == {r \in Live(T) : Slot(T, T.rows[r].key) = s}
             w    == Walk(T.next, T.heads[s])
         IN  /\ IsChain(T.next, T.prev, T.heads[s], refs)
             /\ T.tails[s] = IF refs = {} THEN 0 ELSE Last(w)
    /\ Range(Walk(T.next, T.free)) = DOMAIN T.rows \ Live(T)
    /\ T.count = Cardinality(Live(T))

\* A row is found, whichever way it is looked for: by the row its token
\* remembers, which is never another's; by the index, that holds each live row
\* under its hash and nothing else; and by its key (removeIdentityToken,
\* unindexIdentity, clearTokenHolder, forEachChainRow).
RowsFound ==
  \A side \in {"left", "right"} :
    LET T == Joint[side]
    IN  /\ \A t \in JoinTokens : holders[t] # Many =>
             \A at \in holders[t] : at[1] = side => at[2] \in Live(T) /\ TokenAt(T, at[2]) = t
        /\ T.indexed => \A h \in {Identity(t) : t \in JoinTokens} :
             RefsIn(BucketOf(T, h)) = {r \in Live(T) : HashAt(T, r) = h}
        /\ \A k \in {JoinKey(side, t) : t \in TokensOf(side)} :
             Range(RowsOfKey(T, k)) = {r \in Live(T) : T.rows[r].key = k}

\* Each live output is in the chain of its left row and in the chain of its
\* right row, both of which are live, and the other links are free, each once
\* (link, unlinkFromLeft, unlinkFromRight, free).
OutputsExact ==
  LET Field(f) == [i \in DOMAIN links |-> links[i][f]]
  IN  /\ \A r \in Live(left) : IsChain(Field("leftNext"), Field("leftPrev"), left.rows[r].head,
                                       {i \in LiveLinks : links[i].leftRow = r})
      /\ \A r \in Live(right) : IsChain(Field("rightNext"), Field("rightPrev"), right.rows[r].head,
                                        {i \in LiveLinks : links[i].rightRow = r})
      /\ \A i \in LiveLinks : links[i].leftRow \in Live(left) /\ links[i].rightRow \in Live(right)
      /\ Range(Walk(Field("leftNext"), freeLink)) = DOMAIN links \ LiveLinks

\* Both kinds of chain: those of the rows and those of their outputs.
LinksExact == ChainsExact /\ OutputsExact

\* The join that the tables keep.
Abstract == INSTANCE JoinMemory WITH
  Matching <- Partners, lefts <- TokensIn(left), rights <- TokensIn(right),
  outputs <- {<<TokenAt(left, links[i].leftRow), TokenAt(right, links[i].rightRow)>> : i \in LiveLinks}

\* Whatever the arenas, chains and indexes do, the network sees two sets of rows
\* and the outputs of the pairs that match: an insertion links every partner,
\* and a removal takes back every output of the row, and no other.
TablesJoin == Abstract!SpecMemory
=============================================================================
