---------------------------- MODULE DomSyncProofs ----------------------------
(***************************************************************************)
(* Proofs about the two halves of the mirror.  First the broker's, for any *)
(* set of nodes and any sequence of patches, from a well-behaved client or *)
(* not; then both, for any game of finitely many instances, any wire and   *)
(* any requests.                                                           *)
(***************************************************************************)
EXTENDS DomSync, SequenceTheorems, FiniteSetTheorems, TLAPS

\* Both sides of a queued move are mirrored, what the patch moves is mirrored.
QueuedIsMirrored ==
    /\ DOMAIN moves \subseteq DOMAIN mirror /\ (phase # "upsert" => moves = Empty)
    /\ DOMAIN pending \subseteq DOMAIN mirror
    /\ \A i \in DOMAIN pending : pending[i] \in DOMAIN mirror \cup {Root}

DomInv == DomTypeOK /\ Forest /\ QueuedIsMirrored /\ DeferredIsBlocked

(***************************************************************************)
(* Trees.                                                                  *)
(***************************************************************************)
\* A new leaf.
LEMMA ForestPut ==
    ASSUME NEW tree, IsForest(tree), DOMAIN tree \subseteq Nodes,
           NEW i \in Nodes, i \notin DOMAIN tree, NEW p \in DOMAIN tree \cup {Root}
    PROVE  IsForest(Put(tree, i, p))
<1>. DEFINE new == Put(tree, i, p)
<1>1. /\ DOMAIN new = DOMAIN tree \cup {i} /\ new[i] = p
      /\ \A j \in DOMAIN tree : new[j] = tree[j]
  BY DEF Put
<1>. HIDE DEF new
<1>2. i # p
  BY TreesAssumption
<1>3. \A j \in DOMAIN new : new[j] \in DOMAIN new \cup {Root}
  BY <1>1 DEF IsForest
<1>4. ASSUME NEW S \in SUBSET DOMAIN new, S # {}
      PROVE  \E j \in S : new[j] \notin S
  <2>1. CASE S \ {i} = {}
    BY <2>1, <1>1, <1>2, <1>4
  <2>2. CASE S \ {i} # {}
    <3>1. PICK j \in S \ {i} : tree[j] \notin S \ {i}
      BY <2>2, <1>1 DEF IsForest
    <3>2. tree[j] # i
      BY <3>1, <1>1, TreesAssumption DEF IsForest
    <3>. QED
      BY <3>1, <3>2, <1>1
  <2>. QED
    BY <2>1, <2>2
<1>. QED
  BY <1>3, <1>4 DEF IsForest, new

\* A move under a node from which the moved one is not reached on the way up: the way
\* up from the new parent is a closed set without the moved node, and a set holding all
\* its parents would meet it.
LEMMA ForestMove ==
    ASSUME NEW tree, IsForest(tree), DOMAIN tree \subseteq Nodes,
           NEW i \in DOMAIN tree, NEW p \in DOMAIN tree \cup {Root},
           p # Root => ~ Reaches(tree, p, i)
    PROVE  IsForest([tree EXCEPT ![i] = p])
<1>. DEFINE new == [tree EXCEPT ![i] = p]
<1>1. /\ DOMAIN new = DOMAIN tree
      /\ \A j \in DOMAIN tree : new[j] = IF j = i THEN p ELSE tree[j]
  <2>1. DOMAIN new = DOMAIN tree
    OBVIOUS
  <2>. QED
    BY <2>1
<1>. HIDE DEF new
<1>2. \A j \in DOMAIN new : new[j] \in DOMAIN new \cup {Root}
  BY <1>1 DEF IsForest
<1>3. ASSUME NEW S \in SUBSET DOMAIN new, S # {}, \A j \in S : new[j] \in S
      PROVE  FALSE
  <2>1. i \in S
    BY <1>1, <1>3 DEF IsForest
  <2>2. p \in S /\ p # Root
    BY <2>1, <1>1, <1>3, TreesAssumption
  <2>3. PICK C \in SUBSET Nodes : p \in C /\ Closed(tree, C) /\ i \notin C
    BY <2>2 DEF Reaches
  <2>4. S \cap C # {} /\ S \cap C \in SUBSET DOMAIN tree
    BY <2>2, <2>3, <1>1
  <2>5. PICK j \in S \cap C : tree[j] \notin S \cap C
    BY <2>4 DEF IsForest
  <2>6. tree[j] \in S
    BY <2>3, <2>5, <1>1, <1>3
  <2>7. tree[j] \in C \cup {Root}
    BY <2>3, <2>4, <2>5 DEF Closed
  <2>. QED
    BY <2>5, <2>6, <2>7, <1>1, TreesAssumption
<1>. QED
  BY <1>2, <1>3 DEF IsForest, new

\* Whatever hangs below a node of a subtree is in the subtree.
LEMMA SubtreeBelow ==
    ASSUME NEW tree, NEW r, NEW i \in DOMAIN tree, tree[i] \in Subtree(tree, r), tree[i] # Root
    PROVE  i \in Subtree(tree, r)
<1>. SUFFICES ASSUME NEW S \in SUBSET Nodes, i \in S, Closed(tree, S) PROVE r \in S
  BY DEF Subtree, Reaches
<1>1. tree[i] \in S
  BY DEF Closed
<1>. QED
  BY <1>1 DEF Subtree, Reaches

\* Taking whole subtrees away leaves a forest.
LEMMA ForestPrune ==
    ASSUME NEW tree, IsForest(tree), DOMAIN tree \subseteq Nodes, NEW R,
           NEW left, left = DOMAIN tree \ UNION {Subtree(tree, r) : r \in R}
    PROVE  IsForest(Restrict(tree, left))
<1>. DEFINE new == Restrict(tree, left)
<1>1. DOMAIN new = left /\ \A j \in left : new[j] = tree[j]
  BY DEF Restrict
<1>. HIDE DEF new
<1>2. ASSUME NEW j \in left PROVE new[j] \in left \cup {Root}
  <2>1. tree[j] \in DOMAIN tree \cup {Root}
    BY DEF IsForest
  <2>2. ASSUME NEW r \in R, tree[j] \in Subtree(tree, r), tree[j] # Root PROVE FALSE
    <3>1. j \in Subtree(tree, r)
      BY <2>2, SubtreeBelow
    <3>. QED
      BY <3>1
  <2>. QED
    BY <2>1, <2>2, <1>1
<1>3. \A S \in SUBSET left : S # {} => \E j \in S : new[j] \notin S
  <2>1. \A S \in SUBSET left : S \in SUBSET DOMAIN tree
    OBVIOUS
  <2>. QED
    BY <2>1, <1>1 DEF IsForest
<1>. QED
  BY <1>1, <1>2, <1>3 DEF IsForest, new

\* A node that stays keeps its way up.
LEMMA ReachesKept ==
    ASSUME NEW tree, DOMAIN tree \subseteq Nodes, NEW left \in SUBSET DOMAIN tree,
           \A j \in left : tree[j] \in left \cup {Root},
           NEW i \in left, NEW r, Reaches(tree, i, r)
    PROVE  Reaches(Restrict(tree, left), i, r)
<1>. DEFINE new == Restrict(tree, left)
<1>1. DOMAIN new = left /\ \A j \in left : new[j] = tree[j]
  BY DEF Restrict
<1>. HIDE DEF new
<1>. SUFFICES ASSUME NEW S \in SUBSET Nodes, i \in S, Closed(new, S) PROVE r \in S
  BY DEF Reaches, new
<1>2. Closed(tree, S \cap left)
  BY <1>1 DEF Closed
<1>3. S \cap left \in SUBSET Nodes /\ i \in S \cap left
  OBVIOUS
<1>. QED
  BY <1>2, <1>3 DEF Reaches

(***************************************************************************)
(* The steps.                                                              *)
(***************************************************************************)
LEMMA DomInitInv == DomInit => DomInv
<1>. SUFFICES ASSUME DomInit PROVE DomInv
  OBVIOUS
<1>1. DomTypeOK
  BY DEF DomInit, DomTypeOK, Partial, Empty
<1>. QED
  BY <1>1 DEF DomInit, DomInv, Forest, IsForest, QueuedIsMirrored, DeferredIsBlocked, Empty

LEMMA UpsertStep == DomInv /\ Upsert => DomInv'
<1>. SUFFICES ASSUME DomInv, Upsert PROVE DomInv'
  OBVIOUS
<1>. DEFINE u == Head(upserts)
<1>1. u \in Upserts /\ Tail(upserts) \in Seq(Upserts)
  BY HeadTailProperties DEF Upsert, DomInv, DomTypeOK
<1>2. u.id \in Nodes /\ u.parent \in Places
  BY <1>1 DEF Upserts
<1>3. phase = "upsert" /\ upserts' = Tail(upserts) /\ UNCHANGED <<pending, phase, removals>>
  BY DEF Upsert
<1>4. CASE u.id \in DOMAIN mirror /\ moves' = Put(moves, u.id, u.parent) /\ mirror' = mirror
  <2>1. Partial(moves') /\ DOMAIN moves' = DOMAIN moves \cup {u.id}
    BY <1>2, <1>4 DEF DomInv, DomTypeOK, Partial, Put
  <2>2. DomTypeOK'
    BY <2>1, <1>1, <1>3, <1>4 DEF DomInv, DomTypeOK, Partial
  <2>. QED
    BY <2>1, <2>2, <1>3, <1>4 DEF DomInv, Forest, QueuedIsMirrored, DeferredIsBlocked
<1>5. CASE /\ u.id \notin DOMAIN mirror
           /\ mirror' = Put(mirror, u.id, IF u.parent \in DOMAIN mirror THEN u.parent ELSE Root)
           /\ moves' \in {moves, Put(moves, u.id, u.parent)}
  <2>1. IsForest(mirror')
    BY <1>2, <1>5, ForestPut DEF Forest, DomInv, DomTypeOK, Partial
  <2>2. Partial(mirror') /\ DOMAIN mirror' = DOMAIN mirror \cup {u.id}
    BY <1>2, <1>5 DEF DomInv, DomTypeOK, Partial, Put, Places
  <2>3. Partial(moves') /\ DOMAIN moves' \subseteq DOMAIN moves \cup {u.id}
    BY <1>2, <1>5 DEF DomInv, DomTypeOK, Partial, Put
  <2>4. DomTypeOK'
    BY <2>2, <2>3, <1>1, <1>3 DEF DomInv, DomTypeOK, Partial
  <2>5. Forest'
    BY <2>1 DEF Forest, IsForest
  <2>. QED
    BY <2>2, <2>3, <2>4, <2>5, <1>3 DEF DomInv, QueuedIsMirrored, DeferredIsBlocked
<1>. QED
  BY <1>4, <1>5 DEF Upsert

LEMMA QueueStep == DomInv /\ Queue => DomInv'
<1>. SUFFICES ASSUME DomInv, Queue PROVE DomInv'
  OBVIOUS
<1>1. /\ phase' = "reparent" /\ moves' = Empty
      /\ UNCHANGED <<mirror, upserts, removals>>
      /\ DOMAIN pending' = DOMAIN pending \cup DOMAIN moves
      /\ \A i \in DOMAIN pending' :
            pending'[i] = IF i \in DOMAIN moves THEN Resolved(i) ELSE pending[i]
  BY DEF Queue
<1>2. \A i \in DOMAIN pending' : pending'[i] \in DOMAIN mirror \cup {Root}
  BY <1>1 DEF DomInv, QueuedIsMirrored, Resolved
<1>3. Partial(pending')
  <2>1. pending' = [i \in DOMAIN pending' |-> pending'[i]]
    BY DEF Queue
  <2>. QED
    BY <2>1, <1>1, <1>2 DEF Partial, DomInv, QueuedIsMirrored, DomTypeOK, Places
<1>4. DomTypeOK'
  BY <1>1, <1>3 DEF DomInv, DomTypeOK, Partial, Empty
<1>. QED
  BY <1>1, <1>2, <1>4 DEF DomInv, Forest, QueuedIsMirrored, DeferredIsBlocked, Empty

LEMMA ReparentStep == ASSUME DomInv, NEW i \in Nodes, Reparent(i) PROVE DomInv'
<1>1. /\ i \in DOMAIN pending /\ i \in DOMAIN mirror /\ ~ Blocked(i)
      /\ mirror' = IF pending[i] \in {i, mirror[i]} THEN mirror ELSE [mirror EXCEPT ![i] = pending[i]]
      /\ phase = "reparent" /\ UNCHANGED <<phase, upserts, moves, removals>>
      /\ pending[i] \in DOMAIN mirror \cup {Root}
  BY DEF Reparent, DomInv, QueuedIsMirrored
<1>2. /\ DOMAIN pending' = DOMAIN pending \ {i} /\ Partial(pending')
      /\ \A j \in DOMAIN pending' : pending'[j] = pending[j]
  BY DEF Reparent, Discard, Restrict, DomInv, DomTypeOK, Partial
<1>3. DOMAIN mirror' = DOMAIN mirror /\ Partial(mirror')
  BY <1>1 DEF DomInv, DomTypeOK, Partial
<1>4. IsForest(mirror')
  <2>1. CASE pending[i] \in {i, mirror[i]}
    BY <2>1, <1>1 DEF Forest, DomInv
  <2>2. CASE pending[i] \notin {i, mirror[i]}
    <3>1. pending[i] # Root => ~ Reaches(mirror, pending[i], i)
      BY <2>2, <1>1 DEF Blocked
    <3>2. mirror' = [mirror EXCEPT ![i] = pending[i]]
      BY <2>2, <1>1
    <3>3. IsForest(mirror) /\ DOMAIN mirror \subseteq Nodes
      BY DEF Forest, DomInv, DomTypeOK, Partial
    <3>4. i \in DOMAIN mirror /\ pending[i] \in DOMAIN mirror \cup {Root}
      BY <1>1
    <3>5. IsForest([mirror EXCEPT ![i] = pending[i]])
      BY <3>1, <3>3, <3>4, ForestMove
    <3>. QED
      BY <3>2, <3>5
  <2>. QED
    BY <2>1, <2>2
<1>5. Forest'
  BY <1>4 DEF Forest, IsForest
<1>6. DomTypeOK'
  BY <1>1, <1>2, <1>3 DEF DomInv, DomTypeOK, Partial
<1>. QED
  BY <1>1, <1>2, <1>3, <1>5, <1>6 DEF DomInv, QueuedIsMirrored, DeferredIsBlocked

LEMMA FinishStep == DomInv /\ Finish => DomInv'
<1>. SUFFICES ASSUME DomInv, Finish PROVE DomInv'
  OBVIOUS
<1>. DEFINE R == removals \cap DOMAIN mirror
            left == DOMAIN mirror \ UNION {Subtree(mirror, r) : r \in R}
            D == {i \in DOMAIN pending \cap left : pending[i] \in left \cup {Root}}
<1>1. /\ \A i \in DOMAIN pending : Blocked(i)
      /\ mirror' = Restrict(mirror, left) /\ pending' = Restrict(pending, D)
      /\ phase' = "idle" /\ removals' = {} /\ UNCHANGED <<upserts, moves>>
      /\ phase = "reparent"
  BY DEF Finish
<1>2. DOMAIN mirror \subseteq Nodes /\ IsForest(mirror)
  BY DEF Forest, DomInv, DomTypeOK, Partial
<1>3. IsForest(mirror')
  BY <1>1, <1>2, ForestPrune
<1>. HIDE DEF left, D
<1>4. /\ left \subseteq DOMAIN mirror /\ D \subseteq DOMAIN pending \cap left
      /\ \A i \in D : pending[i] \in left \cup {Root}
  BY DEF left, D
<1>5. /\ DOMAIN mirror' = left /\ \A i \in left : mirror'[i] = mirror[i]
      /\ DOMAIN pending' = D /\ \A i \in D : pending'[i] = pending[i]
  BY <1>1 DEF Restrict
<1>6. Partial(mirror') /\ Partial(pending')
  BY <1>1, <1>4 DEF Restrict, DomInv, DomTypeOK, Partial
<1>7. ASSUME NEW i \in D PROVE Blocked(i)'
  <2>1. pending[i] \notin {i, mirror[i], Root} /\ Reaches(mirror, pending[i], i)
    BY <1>1, <1>4 DEF Blocked
  <2>2. pending[i] \in left /\ \A j \in left : mirror[j] \in left \cup {Root}
    BY <2>1, <1>3, <1>4, <1>5 DEF IsForest
  <2>3. Reaches(mirror', pending[i], i)
    BY <2>1, <2>2, <1>1, <1>2, <1>4, ReachesKept
  <2>. QED
    BY <2>1, <2>3, <1>4, <1>5 DEF Blocked
<1>8. DomTypeOK'
  BY <1>1, <1>6 DEF DomInv, DomTypeOK, Partial
<1>9. moves' = Empty /\ DOMAIN Empty = {}
  BY <1>1 DEF DomInv, QueuedIsMirrored, Empty
<1>10. Forest' /\ QueuedIsMirrored'
  BY <1>3, <1>4, <1>5, <1>9 DEF Forest, IsForest, QueuedIsMirrored
<1>11. DeferredIsBlocked'
  BY <1>1, <1>4, <1>5, <1>7 DEF DeferredIsBlocked
<1>. QED
  BY <1>8, <1>10, <1>11 DEF DomInv

LEMMA DomStep == DomInv /\ [AnyPatch \/ ApplyStep]_domVars => DomInv'
<1>. SUFFICES ASSUME DomInv, [AnyPatch \/ ApplyStep]_domVars PROVE DomInv'
  OBVIOUS
<1>1. CASE AnyPatch
  <2>1. DomTypeOK'
    BY <1>1 DEF AnyPatch, DomInv, DomTypeOK, Partial, Empty
  <2>. QED
    BY <2>1, <1>1 DEF AnyPatch, DomInv, Forest, QueuedIsMirrored, DeferredIsBlocked, Empty
<1>2. CASE UNCHANGED domVars
  <2>1. DomTypeOK'
    BY <1>2 DEF domVars, DomInv, DomTypeOK, Partial
  <2>. QED
    BY <2>1, <1>2 DEF domVars, DomInv, Forest, QueuedIsMirrored, DeferredIsBlocked, Blocked
<1>. QED
  BY <1>1, <1>2, UpsertStep, QueueStep, ReparentStep, FinishStep DEF ApplyStep

LEMMA DomInvariant == DomSpec => []DomInv
BY DomInitInv, DomStep, PTL DEF DomSpec

\* The variables keep their types, whatever is received.
THEOREM TypeCorrect == DomSpec => []DomTypeOK
<1>1. DomInv => DomTypeOK
  BY DEF DomInv
<1>. QED
  BY <1>1, DomInvariant, PTL

\* No patch, and no order in which its moves are made, ever detaches a subtree.
THEOREM ForestCorrect == DomSpec => []Forest
<1>1. DomInv => Forest
  BY DEF DomInv
<1>. QED
  BY <1>1, DomInvariant, PTL

\* Only moves that the tree forbids are left for a later patch.
THEOREM DeferredCorrect == DomSpec => []DeferredIsBlocked
<1>1. DomInv => DeferredIsBlocked
  BY DEF DomInv
<1>. QED
  BY <1>1, DomInvariant, PTL

(***************************************************************************)
(* Removals.                                                               *)
(***************************************************************************)
Remover == INSTANCE RecursionFacts WITH Op <- RemoveNext

Rooted(K) == \A i \in DOMAIN K : K[i] \in DOMAIN K \cup {Root}

\* What is left of K when R and what is under it is removed.
Minus(K, R) == Restrict(K, DOMAIN K \ UNION {Subtree(K, r) : r \in R \cap DOMAIN K})

LEMMA PartialRestrict ==
    ASSUME NEW K, Partial(K), NEW S \in SUBSET DOMAIN K
    PROVE  /\ Partial(Restrict(K, S)) /\ DOMAIN Restrict(K, S) = S
           /\ \A i \in S : Restrict(K, S)[i] = K[i]
BY DEF Partial, Restrict

\* Two partial functions with the same entries are one.
LEMMA PartialExt ==
    ASSUME NEW K, NEW L, Partial(K), Partial(L), DOMAIN K = DOMAIN L,
           \A i \in DOMAIN K : K[i] = L[i]
    PROVE  K = L
BY DEF Partial

LEMMA MinusFacts ==
    ASSUME NEW K, Partial(K), Rooted(K), NEW R
    PROVE  /\ Partial(Minus(K, R)) /\ Rooted(Minus(K, R))
           /\ DOMAIN Minus(K, R) = DOMAIN K \ UNION {Subtree(K, r) : r \in R \cap DOMAIN K}
           /\ \A i \in DOMAIN Minus(K, R) : Minus(K, R)[i] = K[i]
<1>. DEFINE left == DOMAIN K \ UNION {Subtree(K, r) : r \in R \cap DOMAIN K}
<1>1. /\ Partial(Minus(K, R)) /\ DOMAIN Minus(K, R) = left
      /\ \A i \in left : Minus(K, R)[i] = K[i]
  <2>1. left \in SUBSET DOMAIN K
    OBVIOUS
  <2>. HIDE DEF left
  <2>2. /\ Partial(Restrict(K, left)) /\ DOMAIN Restrict(K, left) = left
        /\ \A i \in left : Restrict(K, left)[i] = K[i]
    BY <2>1, PartialRestrict
  <2>. QED
    BY <2>2 DEF Minus, left
<1>2. ASSUME NEW i \in left PROVE K[i] \in left \cup {Root}
  <2>1. K[i] \in DOMAIN K \cup {Root}
    BY DEF Rooted
  <2>2. ASSUME NEW r \in R \cap DOMAIN K, K[i] \in Subtree(K, r), K[i] # Root PROVE FALSE
    <3>1. i \in Subtree(K, r)
      BY <2>2, SubtreeBelow
    <3>. QED
      BY <3>1
  <2>. QED
    BY <2>1, <2>2
<1>3. Rooted(Minus(K, R))
  <2>. HIDE DEF left
  <2>. QED
    BY <1>1, <1>2 DEF Rooted
<1>. QED
  BY <1>1, <1>3

LEMMA MinusNone ==
    ASSUME NEW K, Partial(K)
    PROVE  Minus(K, {}) = K
BY DEF Minus, Restrict, Partial

\* In what is left, the subtrees are those of the whole.
LEMMA SubtreeOfRest ==
    ASSUME NEW K, Partial(K), NEW L, Partial(L), Rooted(L), DOMAIN L \subseteq DOMAIN K,
           \A i \in DOMAIN L : L[i] = K[i],
           NEW r
    PROVE  Subtree(L, r) = Subtree(K, r) \cap DOMAIN L
<1>1. ASSUME NEW j \in DOMAIN L, Reaches(K, j, r) PROVE Reaches(L, j, r)
  <2>. SUFFICES ASSUME NEW S \in SUBSET Nodes, j \in S, Closed(L, S) PROVE r \in S
    BY DEF Reaches
  <2>1. Closed(K, S \cap DOMAIN L)
    BY DEF Closed, Rooted
  <2>2. S \cap DOMAIN L \in SUBSET Nodes /\ j \in S \cap DOMAIN L
    OBVIOUS
  <2>. QED
    BY <1>1, <2>1, <2>2 DEF Reaches
<1>2. ASSUME NEW j \in DOMAIN L, Reaches(L, j, r) PROVE Reaches(K, j, r)
  <2>. SUFFICES ASSUME NEW S \in SUBSET Nodes, j \in S, Closed(K, S) PROVE r \in S
    BY DEF Reaches
  <2>1. Closed(L, S)
    BY DEF Closed
  <2>. QED
    BY <1>2, <2>1 DEF Reaches
<1>. QED
  BY <1>1, <1>2 DEF Subtree

\* A node reaches itself: RemoveNode drops a subtree.
LEMMA DropsSubtree ==
    ASSUME NEW K, NEW i \in DOMAIN K
    PROVE  RemoveNode(K, i) = Subtree(K, i) /\ i \in Subtree(K, i)
BY DEF RemoveNode, Subtree, Reaches

\* One more Remove.
LEMMA MinusMore ==
    ASSUME NEW K, Partial(K), Rooted(K), NEW R, NEW i \in DOMAIN Minus(K, R),
           NEW L, L = Minus(K, R)
    PROVE  Restrict(L, DOMAIN L \ RemoveNode(L, i)) = Minus(K, R \cup {i})
<1>1. /\ Partial(L) /\ Rooted(L)
      /\ DOMAIN L = DOMAIN K \ UNION {Subtree(K, r) : r \in R \cap DOMAIN K}
      /\ \A j \in DOMAIN L : L[j] = K[j]
  BY MinusFacts
<1>2. RemoveNode(L, i) = Subtree(K, i) \cap DOMAIN L
  BY <1>1, DropsSubtree, SubtreeOfRest
<1>. DEFINE left == DOMAIN L \ RemoveNode(L, i)
            gone == UNION {Subtree(K, r) : r \in (R \cup {i}) \cap DOMAIN K}
<1>3. i \in DOMAIN K
  BY <1>1
<1>4. left = DOMAIN K \ gone
  <2>1. (R \cup {i}) \cap DOMAIN K = (R \cap DOMAIN K) \cup {i}
    BY <1>3
  <2>2. gone = (UNION {Subtree(K, r) : r \in R \cap DOMAIN K}) \cup Subtree(K, i)
    BY <2>1
  <2>. QED
    BY <1>1, <1>2, <2>2
<1>5. left \in SUBSET DOMAIN L
  OBVIOUS
<1>6. Minus(K, R \cup {i}) = Restrict(K, left)
  BY <1>4 DEF Minus
<1>. HIDE DEF left
<1>7. Restrict(L, left) = Restrict(K, left)
  BY <1>1, <1>5 DEF Restrict
<1>. QED
  BY <1>6, <1>7 DEF left

LEMMA ToSetAppend ==
    ASSUME NEW S, NEW s \in Seq(S), NEW e \in S
    PROVE  Append(s, e) \in Seq(S) /\ ToSet(Append(s, e)) = ToSet(s) \cup {e}
<1>. DEFINE t == Append(s, e)
<1>1. /\ t \in Seq(S) /\ DOMAIN s = 1..Len(s) /\ DOMAIN t = 1..(Len(s) + 1)
      /\ t[Len(s) + 1] = e /\ Len(s) \in Nat
      /\ \A k \in 1..Len(s) : t[k] = s[k]
  BY AppendProperties
<1>. HIDE DEF t
<1>2. \A k \in DOMAIN t : k \in DOMAIN s \/ k = Len(s) + 1
  BY <1>1
<1>3. DOMAIN s \subseteq DOMAIN t /\ Len(s) + 1 \in DOMAIN t
  BY <1>1
<1>4. ToSet(t) = ToSet(s) \cup {e}
  BY <1>1, <1>2, <1>3 DEF ToSet
<1>. QED
  BY <1>1, <1>4 DEF t

LEMMA RemoveEachFolds ==
    ASSUME NEW K, NEW list
    PROVE  RemoveEach(K, list) = Remover!Fold([known |-> K, ids |-> <<>>], list)
BY DEF RemoveEach, Remover!Fold, FoldLeft, Remover!FoldLeft, MapThenFoldSet, Remover!MapThenFoldSet,
       Max, Remover!Max

\* After k Removes.
Removed(K, list, k, ids, known) ==
    /\ ids \in Seq(Nodes) /\ ToSet(ids) \subseteq ToSet(list)
    /\ known = Minus(K, ToSet(ids))
    /\ \A j \in 1..k : list[j] \notin DOMAIN known

LEMMA RemovedNone ==
    ASSUME NEW K, Partial(K), NEW list, NEW ids, ids = <<>>
    PROVE  Removed(K, list, 0, ids, K)
<1>1. ToSet(ids) = {} /\ ids \in Seq(Nodes)
  BY DEF ToSet
<1>2. K = Minus(K, ToSet(ids))
  BY <1>1, MinusNone
<1>3. \A j \in 1..0 : list[j] \notin DOMAIN K
  OBVIOUS
<1>. QED
  BY <1>1, <1>2, <1>3 DEF Removed

LEMMA RemovedMore ==
    ASSUME NEW K, Partial(K), Rooted(K), NEW list, NEW k \in Nat \ {0},
           NEW i \in Nodes, i = list[k], i \in ToSet(list),
           NEW ids, NEW known, Removed(K, list, k - 1, ids, known),
           NEW y, y = RemoveNext([known |-> known, ids |-> ids], i)
    PROVE  Removed(K, list, k, y.ids, y.known)
<1>1. /\ ids \in Seq(Nodes) /\ ToSet(ids) \subseteq ToSet(list)
      /\ known = Minus(K, ToSet(ids))
      /\ \A j \in 1..(k-1) : list[j] \notin DOMAIN known
  BY DEF Removed
<1>2. Partial(known) /\ Rooted(known)
  BY <1>1, MinusFacts
<1>3. y = [known |-> Restrict(known, DOMAIN known \ RemoveNode(known, i)),
           ids |-> IF RemoveNode(known, i) = {} THEN ids ELSE Append(ids, i)]
  BY DEF RemoveNext
<1>4. \A j \in 1..k : j \in 1..(k-1) \/ j = k
  OBVIOUS
<1>5. CASE i \notin DOMAIN known
  <2>1. RemoveNode(known, i) = {}
    BY <1>5 DEF RemoveNode
  <2>2. y.ids = ids /\ y.known = Restrict(known, DOMAIN known)
    BY <1>3, <2>1
  <2>3. y.known = known
    BY <1>2, <2>2 DEF Restrict, Partial
  <2>. QED
    BY <1>1, <1>4, <1>5, <2>2, <2>3 DEF Removed
<1>6. CASE i \in DOMAIN known
  <2>1. RemoveNode(known, i) = Subtree(known, i) /\ i \in Subtree(known, i)
    BY <1>6, DropsSubtree
  <2>2. y.ids = Append(ids, i) /\ y.known = Restrict(known, DOMAIN known \ RemoveNode(known, i))
    BY <1>3, <2>1
  <2>3. y.known = Minus(K, ToSet(ids) \cup {i})
    <3>. DEFINE R == ToSet(ids)
    <3>1. known = Minus(K, R) /\ i \in DOMAIN Minus(K, R)
      BY <1>1, <1>6
    <3>. HIDE DEF R
    <3>2. Restrict(known, DOMAIN known \ RemoveNode(known, i)) = Minus(K, R \cup {i})
      BY <3>1, MinusMore
    <3>. QED
      BY <2>2, <3>2 DEF R
  <2>4. Append(ids, i) \in Seq(Nodes) /\ ToSet(Append(ids, i)) = ToSet(ids) \cup {i}
    BY <1>1, ToSetAppend
  <2>5. DOMAIN y.known = DOMAIN known \ Subtree(known, i)
    BY <2>1, <2>2 DEF Restrict
  <2>6. \A j \in 1..k : list[j] \notin DOMAIN y.known
    BY <1>1, <1>4, <2>1, <2>5
  <2>7. y.known = Minus(K, ToSet(y.ids)) /\ y.ids \in Seq(Nodes) /\ ToSet(y.ids) \subseteq ToSet(list)
    BY <1>1, <2>2, <2>3, <2>4
  <2>. QED
    BY <2>6, <2>7 DEF Removed
<1>. QED
  BY <1>5, <1>6

\* What RemoveEach computes, one Remove after the other.
LEMMA RemoveEachSteps ==
    ASSUME NEW K, NEW list \in Seq(Nodes)
    PROVE  \E v, w : /\ v[0] = <<>> /\ w[0] = K
                     /\ \A k \in 1..Len(list) :
                           [known |-> w[k], ids |-> v[k]]
                              = RemoveNext([known |-> w[k-1], ids |-> v[k-1]], list[k])
                     /\ RemoveEach(K, list) = [known |-> w[Len(list)], ids |-> v[Len(list)]]
<1>. DEFINE n == Len(list)
            base == [known |-> K, ids |-> <<>>]
<1>0. \E v : /\ v[0] = base
             /\ \A k \in 1..Len(list) : v[k] = RemoveNext(v[k-1], list[k])
             /\ Remover!Fold(base, list) = v[Len(list)]
  <2>. HIDE DEF base
  <2>. QED
    BY Remover!FoldSteps
<1>1. PICK f : /\ f[0] = base /\ \A k \in 1..n : f[k] = RemoveNext(f[k-1], list[k])
               /\ Remover!Fold(base, list) = f[n]
  BY <1>0
<1>2. RemoveEach(K, list) = f[n]
  BY <1>1, RemoveEachFolds
<1>. DEFINE v == [k \in 0..n |-> f[k].ids]
            w == [k \in 0..n |-> f[k].known]
<1>3. n \in Nat
  OBVIOUS
<1>. HIDE DEF n
<1>4. \A k \in 0..n : f[k] = [known |-> w[k], ids |-> v[k]]
  <2>. SUFFICES ASSUME NEW k \in 0..n PROVE f[k] = [known |-> f[k].known, ids |-> f[k].ids]
    OBVIOUS
  <2>1. CASE k = 0
    BY <1>1, <2>1
  <2>2. CASE k # 0
    <3>1. k \in 1..n
      BY <1>3, <2>2
    <3>2. f[k] = RemoveNext(f[k-1], list[k])
      BY <1>1, <3>1
    <3>. QED
      BY <3>2 DEF RemoveNext
  <2>. QED
    BY <2>1, <2>2
<1>5. v[0] = <<>> /\ w[0] = K
  BY <1>1, <1>3
<1>. HIDE DEF v, w
<1>6. \A k \in 1..n : k \in 0..n /\ k - 1 \in 0..n
  BY <1>3
<1>7. n \in 0..n
  BY <1>3
<1>8. \A k \in 1..n : [known |-> w[k], ids |-> v[k]]
                        = RemoveNext([known |-> w[k-1], ids |-> v[k-1]], list[k])
  BY <1>1, <1>4, <1>6
<1>9. RemoveEach(K, list) = [known |-> w[n], ids |-> v[n]]
  BY <1>2, <1>4, <1>7
<1>. QED
  BY <1>5, <1>8, <1>9 DEF n

\* Removes, one after the other, take away what they would take away together.
LEMMA RemovesTogether ==
    ASSUME NEW K, Partial(K), Rooted(K), NEW list \in Seq(Nodes),
           NEW a, a = RemoveEach(K, list)
    PROVE  /\ a.ids \in Seq(Nodes) /\ ToSet(a.ids) \subseteq ToSet(list)
           /\ a.known = Minus(K, ToSet(a.ids))
           /\ DOMAIN a.known \cap ToSet(list) = {}
<1>. DEFINE n == Len(list)
<1>1. PICK v, w : /\ v[0] = <<>> /\ w[0] = K
                  /\ \A k \in 1..n : [known |-> w[k], ids |-> v[k]]
                        = RemoveNext([known |-> w[k-1], ids |-> v[k-1]], list[k])
                  /\ a = [known |-> w[n], ids |-> v[n]]
  BY RemoveEachSteps
<1>2. n \in Nat /\ \A k \in 1..n : list[k] \in Nodes /\ list[k] \in ToSet(list)
  BY DEF ToSet
<1>3. \A x \in ToSet(list) : \E j \in 1..n : x = list[j]
  BY DEF ToSet
<1>. HIDE DEF n
<1>. DEFINE I == {k \in 0..n : Removed(K, list, k, v[k], w[k])}
<1>4. 0 \in I
  BY <1>1, <1>2, RemovedNone
<1>5. ASSUME NEW k \in 1..n, k - 1 \in I PROVE k \in I
  <2>1. k \in Nat \ {0} /\ k \in 0..n
    BY <1>2
  <2>2. Removed(K, list, k - 1, v[k-1], w[k-1])
    BY <1>5
  <2>. DEFINE y == [known |-> w[k], ids |-> v[k]]
  <2>3. y = RemoveNext([known |-> w[k-1], ids |-> v[k-1]], list[k])
    BY <1>1
  <2>4. y.ids = v[k] /\ y.known = w[k]
    OBVIOUS
  <2>. HIDE DEF y
  <2>5. Removed(K, list, k, y.ids, y.known)
    BY <1>2, <2>1, <2>2, <2>3, RemovedMore
  <2>. QED
    BY <2>1, <2>4, <2>5
<1>6. 0..n \subseteq I
  <2>. HIDE DEF I
  <2>. QED
    BY <1>2, <1>4, <1>5, Remover!UpTo
<1>7. Removed(K, list, n, v[n], w[n])
  BY <1>2, <1>6
<1>8. a.ids = v[n] /\ a.known = w[n]
  BY <1>1
<1>. QED
  BY <1>3, <1>7, <1>8 DEF Removed

(***************************************************************************)
(* The wire: each patch, merged into what the mirror will be by then.      *)
(***************************************************************************)
\* A state of the game.
OfGame(T) == IsForest(T) /\ Partial(T)

\* The nodes in S told of, as they are in T, over what was known.
Told(T, S, K) == Over([i \in S |-> At(T, i)], K)

Ids(ups) == {ups[k].id : k \in DOMAIN ups}

\* Upserts tell of T, ancestors first.
Fits(T, known, ups) ==
    \A k \in DOMAIN ups :
       /\ ups[k].parent = At(T, ups[k].id)
       /\ ups[k].parent \in known \cup {Root} \cup {ups[j].id : j \in 1..(k-1)}

\* Every node is where T has it, or still at the root.
Behind(K, T) == \A i \in DOMAIN K : K[i] \in {At(T, i), Root}

\* Where instances move no patch removes any; elsewhere no node is out of place.
Tame(rules, T, K, gone) == IF "move" \in rules THEN gone = {} ELSE Behind(K, T)

Merges(rules, patch, K, L) ==
    \E T : /\ OfGame(T) /\ Fits(T, DOMAIN K, patch.upserts)
           /\ Tame(rules, T, K, patch.removals)
           /\ L = Minus(Told(T, Ids(patch.upserts), K), patch.removals)

\* The patches of w take the mirror from K to L.
Chain(rules, w, K, L) ==
    \E h : /\ h[1] = K /\ h[Len(w) + 1] = L
           /\ \A k \in 1..Len(w) : Merges(rules, w[k], h[k], h[k+1])

Patches == [upserts : Seq(Upserts), removals : SUBSET Nodes]

LEMMA ChainNone ==
    ASSUME NEW rules, NEW w, w = <<>>, NEW K
    PROVE  /\ Chain(rules, w, K, K)
           /\ \A L : Chain(rules, w, K, L) => K = L
<1>1. Len(w) = 0
  OBVIOUS
<1>2. Chain(rules, w, K, K)
  <2>. DEFINE h == [k \in {1} |-> K]
  <2>1. h[1] = K /\ h[Len(w) + 1] = K /\ 1..Len(w) = {}
    BY <1>1
  <2>. HIDE DEF h
  <2>. QED
    BY <2>1 DEF Chain
<1>3. ASSUME NEW L, Chain(rules, w, K, L) PROVE K = L
  BY <1>1, <1>3 DEF Chain
<1>. QED
  BY <1>2, <1>3

LEMMA ChainAppend ==
    ASSUME NEW rules, NEW w \in Seq(Patches), NEW patch \in Patches,
           NEW K, NEW L, NEW M, Chain(rules, w, K, L), Merges(rules, patch, L, M)
    PROVE  Chain(rules, Append(w, patch), K, M)
<1>. DEFINE n == Len(w)
            x == Append(w, patch)
<1>1. PICK h : /\ h[1] = K /\ h[n + 1] = L
               /\ \A k \in 1..n : Merges(rules, w[k], h[k], h[k+1])
  BY DEF Chain
<1>2. n \in Nat /\ Len(x) = n + 1 /\ x[n+1] = patch /\ \A k \in 1..n : x[k] = w[k]
  BY AppendProperties
<1>. DEFINE g == [k \in 1..(n+2) |-> IF k = n + 2 THEN M ELSE h[k]]
<1>3. g[1] = K /\ g[n+1] = L /\ g[n+2] = M /\ \A k \in 1..n : g[k] = h[k] /\ g[k+1] = h[k+1]
  <2>. HIDE DEF n
  <2>. QED
    BY <1>1, <1>2
<1>. HIDE DEF g, x, n
<1>4. \A k \in 1..(n+1) : Merges(rules, x[k], g[k], g[k+1])
  <2>. SUFFICES ASSUME NEW k \in 1..(n+1) PROVE Merges(rules, x[k], g[k], g[k+1])
    OBVIOUS
  <2>1. CASE k \in 1..n
    BY <1>1, <1>2, <1>3, <2>1
  <2>2. CASE k \notin 1..n
    <3>1. k = n + 1 /\ k + 1 = n + 2
      BY <1>2, <2>2
    <3>2. x[k] = patch /\ g[k] = L /\ g[k+1] = M
      BY <1>2, <1>3, <3>1
    <3>. QED
      BY <3>2
  <2>. QED
    BY <2>1, <2>2
<1>5. Len(x) + 1 = n + 2
  BY <1>2
<1>6. Chain(rules, x, K, M)
  BY <1>2, <1>3, <1>4, <1>5 DEF Chain
<1>. QED
  BY <1>6 DEF x

LEMMA ChainTail ==
    ASSUME NEW rules, NEW w \in Seq(Patches), w # <<>>, NEW K, NEW L, Chain(rules, w, K, L)
    PROVE  \E M : Merges(rules, Head(w), K, M) /\ Chain(rules, Tail(w), M, L)
<1>. DEFINE n == Len(w)
            x == Tail(w)
<1>1. PICK h : /\ h[1] = K /\ h[n + 1] = L
               /\ \A k \in 1..n : Merges(rules, w[k], h[k], h[k+1])
  BY DEF Chain
<1>2. n \in Nat /\ n >= 1 /\ Len(x) = n - 1 /\ Head(w) = w[1] /\ \A k \in 1..(n-1) : x[k] = w[k+1]
  BY HeadTailProperties
<1>. HIDE DEF x, n
<1>. DEFINE g == [k \in 1..n |-> h[k+1]]
<1>3. g[1] = h[2] /\ g[n] = L /\ \A k \in 1..(n-1) : g[k] = h[k+1] /\ g[k+1] = h[k+2]
  BY <1>1, <1>2
<1>. HIDE DEF g
<1>4. Merges(rules, Head(w), K, h[2])
  <2>1. 1 \in 1..n /\ 1 + 1 = 2
    BY <1>2
  <2>. QED
    BY <1>1, <1>2, <2>1
<1>5. \A k \in 1..(n-1) : Merges(rules, x[k], g[k], g[k+1])
  <2>. SUFFICES ASSUME NEW k \in 1..(n-1) PROVE Merges(rules, x[k], g[k], g[k+1])
    OBVIOUS
  <2>1. k + 1 \in 1..n /\ (k + 1) + 1 = k + 2
    BY <1>2
  <2>2. Merges(rules, w[k+1], h[k+1], h[k+2])
    BY <1>1, <2>1
  <2>. QED
    BY <1>2, <1>3, <2>2
<1>6. Len(x) + 1 = n
  BY <1>2
<1>7. Chain(rules, x, h[2], L)
  BY <1>2, <1>3, <1>5, <1>6 DEF Chain
<1>. QED
  BY <1>4, <1>7 DEF x

\* Nothing told changes nothing.
LEMMA ToldNone ==
    ASSUME NEW T, NEW K, Partial(K)
    PROVE  Told(T, {}, K) = K
BY DEF Told, Over, Partial

LEMMA ToldFacts ==
    ASSUME NEW T, Partial(T), NEW S \in SUBSET Nodes, NEW K, Partial(K)
    PROVE  /\ Partial(Told(T, S, K)) /\ DOMAIN Told(T, S, K) = S \cup DOMAIN K
           /\ \A i \in S : Told(T, S, K)[i] = At(T, i)
           /\ \A i \in DOMAIN K \ S : Told(T, S, K)[i] = K[i]
<1>1. \A i \in Nodes : At(T, i) \in Places
  BY DEF At, Partial, Places
<1>. QED
  BY <1>1 DEF Told, Over, Partial

\* One patch for each id, with its removal.
Drop(i) == Patch(<<>>, {i})
Drops(w, ids) == w \o [k \in DOMAIN ids |-> Drop(ids[k])]

LEMMA DropTyped == ASSUME NEW i \in Nodes PROVE Drop(i) \in Patches
BY DEF Drop, Patch, Patches

LEMMA DropsTyped ==
    ASSUME NEW w \in Seq(Patches), NEW ids \in Seq(Nodes)
    PROVE  Drops(w, ids) \in Seq(Patches)
<1>. DEFINE x == [k \in DOMAIN ids |-> Drop(ids[k])]
<1>1. \A k \in DOMAIN ids : Drop(ids[k]) \in Patches
  BY DropTyped
<1>2. DOMAIN ids = 1..Len(ids) /\ Len(ids) \in Nat
  OBVIOUS
<1>3. x \in Seq(Patches)
  BY <1>1, <1>2
<1>. QED
  BY <1>3 DEF Drops

LEMMA DropsNone ==
    ASSUME NEW w \in Seq(Patches), NEW ids, ids = <<>>
    PROVE  Drops(w, ids) = w
<1>1. [k \in DOMAIN ids |-> Drop(ids[k])] = <<>>
  OBVIOUS
<1>. QED
  BY <1>1, ConcatEmptySeq DEF Drops

LEMMA DropsMore ==
    ASSUME NEW w \in Seq(Patches), NEW ids \in Seq(Nodes), NEW i \in Nodes
    PROVE  Drops(w, Append(ids, i)) = Append(Drops(w, ids), Drop(i))
<1>. DEFINE n == Len(ids)
            t == Append(ids, i)
            x == [k \in DOMAIN ids |-> Drop(ids[k])]
            y == [k \in DOMAIN t |-> Drop(t[k])]
<1>1. /\ n \in Nat /\ DOMAIN ids = 1..n /\ DOMAIN t = 1..(n+1)
      /\ t[n+1] = i /\ (\A k \in 1..n : t[k] = ids[k])
      /\ \A k \in 1..n : ids[k] \in Nodes
  BY AppendProperties
<1>. HIDE DEF t, n
<1>2. x \in Seq(Patches)
  <2>1. \A k \in 1..n : Drop(ids[k]) \in Patches
    BY <1>1, DropTyped
  <2>. QED
    BY <1>1, <2>1
<1>3. Len(x) = n /\ DOMAIN x = 1..n /\ \A k \in 1..n : x[k] = Drop(ids[k])
  BY <1>1
<1>4. y = [k \in 1..(n+1) |-> Drop(t[k])]
  BY <1>1
<1>5. Drop(i) \in Patches
  BY DropTyped
<1>6. y = Append(x, Drop(i))
  <2>. DEFINE z == Append(x, Drop(i))
  <2>1. DOMAIN z = 1..(n+1) /\ z[n+1] = Drop(i) /\ \A k \in 1..n : z[k] = Drop(ids[k])
    <3>. HIDE DEF x
    <3>. QED
      BY <1>1, <1>2, <1>3, <1>5, AppendProperties
  <2>2. z = [k \in 1..(n+1) |-> z[k]]
    <3>1. z \in Seq(Patches) /\ DOMAIN z = 1..(n+1)
      <4>. HIDE DEF x
      <4>. QED
        BY <1>2, <1>5, <2>1
    <3>. HIDE DEF z
    <3>. QED
      BY <3>1
  <2>. HIDE DEF z
  <2>3. ASSUME NEW k \in 1..(n+1) PROVE z[k] = Drop(t[k])
    <3>1. CASE k \in 1..n
      BY <1>1, <2>1, <3>1
    <3>2. CASE k \notin 1..n
      <4>1. k = n + 1
        BY <1>1, <3>2
      <4>. QED
        BY <1>1, <2>1, <4>1
    <3>. QED
      BY <3>1, <3>2
  <2>4. y = z
    BY <1>4, <2>2, <2>3
  <2>. QED
    BY <2>4 DEF z
<1>. HIDE DEF x, y
<1>7. w \o Append(x, Drop(i)) = Append(w \o x, Drop(i))
  BY <1>2, <1>5
<1>. QED
  BY <1>6, <1>7 DEF Drops, x, y, t

\* A patch that removes one node.
LEMMA MergesDrop ==
    ASSUME NEW rules, "move" \notin rules,
           NEW T, OfGame(T), NEW K, Partial(K), Behind(K, T), NEW i \in DOMAIN K
    PROVE  /\ Merges(rules, Patch(<<>>, {i}), K, Minus(K, {i}))
           /\ Restrict(K, DOMAIN K \ RemoveNode(K, i)) = Minus(K, {i})
<1>. DEFINE patch == Patch(<<>>, {i})
<1>1. patch.upserts = <<>> /\ patch.removals = {i}
  BY DEF Patch
<1>. HIDE DEF patch
<1>2. Ids(patch.upserts) = {} /\ Fits(T, DOMAIN K, patch.upserts)
  BY <1>1 DEF Ids, Fits
<1>3. Told(T, Ids(patch.upserts), K) = K
  BY <1>2, ToldNone
<1>4. Minus(K, {i}) = Minus(Told(T, Ids(patch.upserts), K), patch.removals)
  BY <1>1, <1>3
<1>5. Merges(rules, patch, K, Minus(K, {i}))
  BY <1>1, <1>2, <1>4 DEF Merges, Tame
<1>6. RemoveNode(K, i) = Subtree(K, i)
  BY DropsSubtree
<1>7. {i} \cap DOMAIN K = {i} /\ UNION {Subtree(K, r) : r \in {i}} = Subtree(K, i)
  OBVIOUS
<1>. QED
  BY <1>5, <1>6, <1>7 DEF Minus, patch

LEMMA BehindMinus ==
    ASSUME NEW T, NEW K, Partial(K), Rooted(K), Behind(K, T), NEW R
    PROVE  Behind(Minus(K, R), T)
<1>1. /\ DOMAIN Minus(K, R) \subseteq DOMAIN K
      /\ \A i \in DOMAIN Minus(K, R) : Minus(K, R)[i] = K[i]
  BY MinusFacts
<1>. QED
  BY <1>1 DEF Behind

\* What is known and what is on the wire after some Removes.
DropsTo(rules, T, w, K, ids, known) ==
    /\ ids \in Seq(Nodes) /\ Chain(rules, Drops(w, ids), K, known)
    /\ Partial(known) /\ Rooted(known) /\ Behind(known, T)

LEMMA DropsToMore ==
    ASSUME NEW rules, "move" \notin rules, NEW T, OfGame(T), NEW w \in Seq(Patches), NEW K,
           NEW ids, NEW known, DropsTo(rules, T, w, K, ids, known), NEW i \in Nodes,
           NEW y, y = RemoveNext([known |-> known, ids |-> ids], i)
    PROVE  DropsTo(rules, T, w, K, y.ids, y.known)
<1>1. /\ ids \in Seq(Nodes) /\ Chain(rules, Drops(w, ids), K, known)
      /\ Partial(known) /\ Rooted(known) /\ Behind(known, T)
  BY DEF DropsTo
<1>2. y = [known |-> Restrict(known, DOMAIN known \ RemoveNode(known, i)),
           ids |-> IF RemoveNode(known, i) = {} THEN ids ELSE Append(ids, i)]
  BY DEF RemoveNext
<1>3. CASE i \notin DOMAIN known
  <2>1. RemoveNode(known, i) = {}
    BY <1>3 DEF RemoveNode
  <2>2. y.ids = ids /\ y.known = Restrict(known, DOMAIN known)
    BY <1>2, <2>1
  <2>3. y.known = known
    BY <1>1, <2>2 DEF Restrict, Partial
  <2>. QED
    BY <2>2, <2>3
<1>4. CASE i \in DOMAIN known
  <2>1. RemoveNode(known, i) # {}
    BY <1>4, DropsSubtree
  <2>2. y.ids = Append(ids, i) /\ y.known = Restrict(known, DOMAIN known \ RemoveNode(known, i))
    BY <1>2, <2>1
  <2>. DEFINE L == Minus(known, {i})
  <2>3. Merges(rules, Drop(i), known, L) /\ y.known = L
    BY <1>1, <1>4, <2>2, MergesDrop DEF Drop
  <2>4. Partial(L) /\ Rooted(L) /\ Behind(L, T)
    BY <1>1, MinusFacts, BehindMinus
  <2>. HIDE DEF L
  <2>5. Drop(i) \in Patches /\ Drops(w, ids) \in Seq(Patches)
    BY <1>1, DropTyped, DropsTyped
  <2>6. Chain(rules, Append(Drops(w, ids), Drop(i)), K, L)
    BY <1>1, <2>3, <2>5, ChainAppend
  <2>7. Drops(w, Append(ids, i)) = Append(Drops(w, ids), Drop(i))
    BY <1>1, DropsMore
  <2>8. Append(ids, i) \in Seq(Nodes)
    BY <1>1
  <2>. QED
    BY <2>2, <2>3, <2>4, <2>6, <2>7, <2>8 DEF DropsTo
<1>. QED
  BY <1>3, <1>4

LEMMA DropsChain ==
    ASSUME NEW rules, "move" \notin rules,
           NEW T, OfGame(T), NEW K, NEW L, Partial(L), Rooted(L), Behind(L, T),
           NEW w \in Seq(Patches), Chain(rules, w, K, L), NEW list \in Seq(Nodes),
           NEW a, a = RemoveEach(L, list)
    PROVE  /\ Drops(w, a.ids) \in Seq(Patches)
           /\ Chain(rules, Drops(w, a.ids), K, a.known)
           /\ Partial(a.known) /\ Rooted(a.known) /\ Behind(a.known, T)
<1>. DEFINE n == Len(list)
<1>1. PICK v, u : /\ v[0] = <<>> /\ u[0] = L
                  /\ \A k \in 1..n : [known |-> u[k], ids |-> v[k]]
                        = RemoveNext([known |-> u[k-1], ids |-> v[k-1]], list[k])
                  /\ a = [known |-> u[n], ids |-> v[n]]
  BY RemoveEachSteps
<1>2. n \in Nat /\ \A k \in 1..n : list[k] \in Nodes
  OBVIOUS
<1>. HIDE DEF n
<1>. DEFINE I == {k \in 0..n : DropsTo(rules, T, w, K, v[k], u[k])}
<1>3. 0 \in I
  <2>1. Drops(w, v[0]) = w /\ v[0] \in Seq(Nodes) /\ u[0] = L
    BY <1>1, DropsNone
  <2>2. DropsTo(rules, T, w, K, v[0], u[0])
    BY <2>1 DEF DropsTo
  <2>. QED
    BY <1>2, <2>2
<1>4. ASSUME NEW k \in 1..n, k - 1 \in I PROVE k \in I
  <2>. DEFINE y == [known |-> u[k], ids |-> v[k]]
  <2>1. y = RemoveNext([known |-> u[k-1], ids |-> v[k-1]], list[k])
    BY <1>1
  <2>2. y.ids = v[k] /\ y.known = u[k] /\ k \in 0..n
    BY <1>2
  <2>3. DropsTo(rules, T, w, K, v[k-1], u[k-1])
    BY <1>4
  <2>. HIDE DEF y
  <2>4. DropsTo(rules, T, w, K, y.ids, y.known)
    BY <1>2, <2>1, <2>3, DropsToMore
  <2>. QED
    BY <2>2, <2>4
<1>5. 0..n \subseteq I
  <2>. HIDE DEF I
  <2>. QED
    BY <1>2, <1>3, <1>4, Remover!UpTo
<1>6. DropsTo(rules, T, w, K, v[n], u[n])
  BY <1>2, <1>5
<1>7. a.ids = v[n] /\ a.known = u[n]
  BY <1>1
<1>8. DropsTo(rules, T, w, K, a.ids, a.known)
  BY <1>6, <1>7
<1>. QED
  BY <1>8, DropsTyped DEF DropsTo

(***************************************************************************)
(* What the client sends.                                                  *)
(***************************************************************************)
Further(sent, i) == Append(sent, i)
Climber == INSTANCE RecursionFacts WITH Op <- Further
Mirrorer == INSTANCE RecursionFacts WITH Op <- MirrorNext

\* Instances of S, each after its parent unless that is known.
Sendable(S, tree, known, sent) ==
    /\ sent \in Seq(S)
    /\ \A k \in DOMAIN sent :
          At(tree, sent[k]) \in known \cup {Root} \cup {sent[j] : j \in 1..(k-1)}

LEMMA SendableOne ==
    ASSUME NEW S, NEW tree, NEW known, NEW i \in S, At(tree, i) \in known \cup {Root}
    PROVE  Sendable(S, tree, known, <<i>>)
BY DEF Sendable

LEMMA SendableAppend ==
    ASSUME NEW S, NEW tree, NEW known, NEW s, Sendable(S, tree, known, s),
           NEW i \in S, At(tree, i) \in known \cup {Root} \cup ToSet(s)
    PROVE  Sendable(S, tree, known, Append(s, i))
<1>. DEFINE t == Append(s, i)
            n == Len(s)
<1>1. s \in Seq(S)
  BY DEF Sendable
<1>2. /\ t \in Seq(S) /\ DOMAIN t = 1..(n+1) /\ t[n+1] = i /\ n \in Nat
      /\ DOMAIN s = 1..n /\ \A k \in 1..n : t[k] = s[k]
  BY <1>1, AppendProperties
<1>. HIDE DEF t, n
<1>3. ASSUME NEW k \in 1..(n+1)
      PROVE  At(tree, t[k]) \in known \cup {Root} \cup {t[j] : j \in 1..(k-1)}
  <2>1. CASE k \in 1..n
    <3>1. At(tree, s[k]) \in known \cup {Root} \cup {s[j] : j \in 1..(k-1)}
      BY <1>2, <2>1 DEF Sendable
    <3>2. \A j \in 1..(k-1) : j \in 1..n
      BY <1>2, <2>1
    <3>3. {s[j] : j \in 1..(k-1)} \subseteq {t[j] : j \in 1..(k-1)}
      BY <1>2, <3>2
    <3>. QED
      BY <1>2, <2>1, <3>1, <3>3
  <2>2. CASE k \notin 1..n
    <3>1. k = n + 1 /\ k - 1 = n
      BY <1>2, <2>2
    <3>2. ToSet(s) \subseteq {t[j] : j \in 1..n}
      BY <1>2 DEF ToSet
    <3>. QED
      BY <1>2, <3>1, <3>2
  <2>. QED
    BY <2>1, <2>2
<1>4. Sendable(S, tree, known, t)
  BY <1>2, <1>3 DEF Sendable
<1>. QED
  BY <1>4 DEF t

LEMMA SendableConcat ==
    ASSUME NEW S, NEW tree, NEW known, NEW s, Sendable(S, tree, known, s),
           NEW t, Sendable(S, tree, known \cup ToSet(s), t)
    PROVE  Sendable(S, tree, known, s \o t)
<1>. DEFINE u == s \o t
            n == Len(s)
            m == Len(t)
<1>1. s \in Seq(S) /\ t \in Seq(S)
  BY DEF Sendable
<1>2. /\ u \in Seq(S) /\ DOMAIN u = 1..(n+m) /\ n \in Nat /\ m \in Nat
      /\ DOMAIN s = 1..n /\ DOMAIN t = 1..m
      /\ (\A k \in 1..n : u[k] = s[k]) /\ (\A k \in 1..m : u[n+k] = t[k])
  BY <1>1, ConcatProperties
<1>. HIDE DEF u, n, m
<1>3. ASSUME NEW k \in 1..(n+m)
      PROVE  At(tree, u[k]) \in known \cup {Root} \cup {u[j] : j \in 1..(k-1)}
  <2>1. CASE k \in 1..n
    <3>1. At(tree, s[k]) \in known \cup {Root} \cup {s[j] : j \in 1..(k-1)}
      BY <1>2, <2>1 DEF Sendable
    <3>2. \A j \in 1..(k-1) : j \in 1..n
      BY <1>2, <2>1
    <3>3. {s[j] : j \in 1..(k-1)} \subseteq {u[j] : j \in 1..(k-1)}
      BY <1>2, <3>2
    <3>. QED
      BY <1>2, <2>1, <3>1, <3>3
  <2>2. CASE k \notin 1..n
    <3>1. PICK l \in 1..m : k = n + l
      <4>1. k - n \in 1..m /\ k = n + (k - n)
        BY <1>2, <2>2
      <4>. QED
        BY <4>1
    <3>2. At(tree, t[l]) \in known \cup ToSet(s) \cup {Root} \cup {t[j] : j \in 1..(l-1)}
      BY <1>2 DEF Sendable
    <3>3. \A j \in 1..n : j \in 1..(k-1)
      BY <1>2, <3>1
    <3>4. ToSet(s) \subseteq {u[j] : j \in 1..(k-1)}
      BY <1>2, <3>3 DEF ToSet
    <3>5. \A j \in 1..(l-1) : j \in 1..m /\ n + j \in 1..(k-1)
      BY <1>2, <3>1
    <3>6. {t[j] : j \in 1..(l-1)} \subseteq {u[j] : j \in 1..(k-1)}
      BY <1>2, <3>5
    <3>. QED
      BY <1>2, <3>1, <3>2, <3>4, <3>6
  <2>. QED
    BY <2>1, <2>2
<1>4. Sendable(S, tree, known, u)
  BY <1>2, <1>3 DEF Sendable
<1>. QED
  BY <1>4 DEF u

\* The definition in Mirrored has a solution, the climb to what is known.
LEMMA MirroredChain ==
    ASSUME NEW tree, OfGame(tree), NEW known, NEW i \in Nodes
    PROVE  \E chain : /\ Mirrored(tree, known, i) = chain[i]
                      /\ \A j \in Nodes :
                            chain[j] = IF At(tree, j) \in known \cup {Root} THEN <<j>>
                                       ELSE Append(chain[At(tree, j)], j)
<1>. DEFINE Body(c) == [j \in Nodes |-> IF At(tree, j) \in known \cup {Root} THEN <<j>>
                                        ELSE Append(c[At(tree, j)], j)]
            ends == {j \in Nodes : At(tree, j) \in known \cup {Root}}
            up == [j \in Nodes |-> At(tree, j)]
            base == [j \in Nodes |-> <<j>>]
<1>1. \A j \in Nodes \ ends : j \in DOMAIN tree /\ up[j] = tree[j] /\ up[j] \in Nodes
  BY DEF At, OfGame, Partial, Places
<1>2. Climber!Grounded(Nodes, ends, up)
  <2>1. ASSUME NEW U \in SUBSET (Nodes \ ends), U # {} PROVE \E j \in U : up[j] \notin U
    <3>1. U \in SUBSET DOMAIN tree
      BY <1>1
    <3>2. \E j \in U : tree[j] \notin U
      BY <2>1, <3>1 DEF OfGame, IsForest
    <3>. HIDE DEF ends, up
    <3>. QED
      BY <1>1, <3>2
  <2>. HIDE DEF ends, up
  <2>. QED
    BY <1>1, <2>1 DEF Climber!Grounded
<1>3. \E g : Climber!Climbs(g, Nodes, ends, up, base)
  <2>. HIDE DEF ends, up, base
  <2>. QED
    BY <1>2, Climber!ClimbExists
<1>4. PICK g : Climber!Climbs(g, Nodes, ends, up, base)
  BY <1>3
<1>5. g = Body(g)
  <2>1. g = [j \in Nodes |-> IF j \in ends THEN base[j] ELSE Append(g[up[j]], j)]
    BY <1>4 DEF Climber!Climbs, Further
  <2>2. \A j \in Nodes : (IF j \in ends THEN base[j] ELSE Append(g[up[j]], j))
                          = IF At(tree, j) \in known \cup {Root} THEN <<j>>
                            ELSE Append(g[At(tree, j)], j)
    OBVIOUS
  <2>. HIDE DEF ends, up, base
  <2>. QED
    BY <2>1, <2>2
<1>. DEFINE chain == CHOOSE c : c = Body(c)
<1>6. chain = Body(chain)
  <2>. HIDE DEF Body
  <2>. QED
    BY <1>5
<1>7. Mirrored(tree, known, i) = chain[i]
  BY DEF Mirrored
<1>. HIDE DEF chain
<1>8. \A j \in Nodes : chain[j] = IF At(tree, j) \in known \cup {Root} THEN <<j>>
                                  ELSE Append(chain[At(tree, j)], j)
  BY <1>6
<1>. QED
  BY <1>7, <1>8

LEMMA MirroredSendable ==
    ASSUME NEW S \in SUBSET Nodes, NEW tree, OfGame(tree), DOMAIN tree \subseteq S,
           NEW known, NEW i \in S
    PROVE  Sendable(S, tree, known, Mirrored(tree, known, i))
<1>1. PICK chain : /\ Mirrored(tree, known, i) = chain[i]
                   /\ \A j \in Nodes :
                         chain[j] = IF At(tree, j) \in known \cup {Root} THEN <<j>>
                                    ELSE Append(chain[At(tree, j)], j)
  BY MirroredChain
<1>. DEFINE Good(j) == Sendable(S, tree, known, chain[j]) /\ j \in ToSet(chain[j])
            Bad == {j \in S : ~ Good(j)}
<1>2. SUFFICES ASSUME Bad # {} PROVE FALSE
  BY <1>1
<1>3. ASSUME NEW j \in S, At(tree, j) \in known \cup {Root} PROVE Good(j)
  <2>1. chain[j] = <<j>>
    BY <1>1, <1>3
  <2>2. j \in ToSet(<<j>>)
    BY DEF ToSet
  <2>. QED
    BY <1>3, <2>1, <2>2, SendableOne
<1>4. \A j \in Bad : j \in DOMAIN tree /\ At(tree, j) = tree[j]
  BY <1>3 DEF At
<1>5. \E j \in Bad : tree[j] \notin Bad
  <2>1. Bad \in SUBSET DOMAIN tree
    BY <1>4
  <2>. HIDE DEF Bad
  <2>. QED
    BY <1>2, <2>1 DEF OfGame, IsForest
<1>6. PICK j \in S : ~ Good(j) /\ tree[j] \notin Bad /\ j \in DOMAIN tree /\ At(tree, j) = tree[j]
  BY <1>4, <1>5
<1>7. At(tree, j) \notin known \cup {Root}
  BY <1>3, <1>6
<1>8. tree[j] \in S
  BY <1>6, <1>7 DEF OfGame, IsForest
<1>9. Sendable(S, tree, known, chain[tree[j]]) /\ tree[j] \in ToSet(chain[tree[j]])
  BY <1>6, <1>8
<1>10. chain[j] = Append(chain[tree[j]], j)
  BY <1>1, <1>6, <1>7
<1>11. Sendable(S, tree, known, chain[j])
  BY <1>6, <1>9, <1>10, SendableAppend
<1>12. j \in ToSet(chain[j])
  <2>1. chain[tree[j]] \in Seq(S)
    BY <1>9 DEF Sendable
  <2>. QED
    BY <1>10, <2>1, ToSetAppend
<1>. QED
  BY <1>6, <1>11, <1>12

LEMMA MirrorListFolds == ASSUME NEW list PROVE MirrorList(list) = Mirrorer!Fold(<<>>, list)
BY DEF MirrorList, Mirrorer!Fold, FoldLeft, Mirrorer!FoldLeft, MapThenFoldSet,
       Mirrorer!MapThenFoldSet, Max, Mirrorer!Max

LEMMA MirrorListSendable ==
    ASSUME NEW S \in SUBSET Nodes, OfGame(live), DOMAIN live \subseteq S, NEW list \in Seq(S)
    PROVE  Sendable(S, live, DOMAIN parents, MirrorList(list))
<1>. DEFINE n == Len(list)
<1>1. \E v : /\ v[0] = <<>>
             /\ \A k \in 1..Len(list) : v[k] = MirrorNext(v[k-1], list[k])
             /\ Mirrorer!Fold(<<>>, list) = v[Len(list)]
  BY Mirrorer!FoldSteps
<1>2. PICK v : /\ v[0] = <<>>
               /\ \A k \in 1..n : v[k] = MirrorNext(v[k-1], list[k])
               /\ MirrorList(list) = v[n]
  BY <1>1, MirrorListFolds
<1>3. n \in Nat /\ \A k \in 1..n : list[k] \in S
  OBVIOUS
<1>. HIDE DEF n
<1>. DEFINE I == {k \in 0..n : Sendable(S, live, DOMAIN parents, v[k])}
<1>4. 0 \in I
  <2>1. \A sent : sent = <<>> => Sendable(S, live, DOMAIN parents, sent)
    BY DEF Sendable
  <2>2. Sendable(S, live, DOMAIN parents, v[0]) /\ 0 \in 0..n
    BY <1>2, <1>3, <2>1
  <2>. QED
    BY <2>2
<1>5. ASSUME NEW k \in 1..n, k - 1 \in I PROVE k \in I
  <2>. DEFINE s == v[k-1]
              t == Mirrored(live, DOMAIN parents \cup ToSet(s), list[k])
  <2>1. Sendable(S, live, DOMAIN parents, s)
    BY <1>5
  <2>2. v[k] = s \o t
    BY <1>2 DEF MirrorNext
  <2>. HIDE DEF s
  <2>3. Sendable(S, live, DOMAIN parents \cup ToSet(s), t)
    BY <1>3, MirroredSendable
  <2>. HIDE DEF t
  <2>4. Sendable(S, live, DOMAIN parents, v[k])
    BY <2>1, <2>2, <2>3, SendableConcat
  <2>5. k \in 0..n
    BY <1>3
  <2>. QED
    BY <2>4, <2>5
<1>6. 0..n \subseteq I
  <2>. HIDE DEF I
  <2>. QED
    BY <1>3, <1>4, <1>5, Mirrorer!UpTo
<1>. QED
  BY <1>2, <1>3, <1>6

\* What is sent is a patch that tells of the tree.
LEMMA RecordsFit ==
    ASSUME NEW S \in SUBSET Nodes, NEW tree, Partial(tree), NEW known,
           NEW sent, Sendable(S, tree, known, sent)
    PROVE  /\ Records(tree, sent) \in Seq(Upserts) /\ Ids(Records(tree, sent)) = ToSet(sent)
           /\ Fits(tree, known, Records(tree, sent))
           /\ ToSet(sent) \subseteq S
           /\ \A i \in ToSet(sent) : At(tree, i) \in known \cup {Root} \cup ToSet(sent)
<1>. DEFINE ups == Records(tree, sent)
            n == Len(sent)
<1>1. sent \in Seq(S) /\ n \in Nat /\ DOMAIN sent = 1..n /\ \A k \in 1..n : sent[k] \in S
  BY DEF Sendable
<1>2. \A j \in Nodes : At(tree, j) \in Places
  BY DEF At, Partial, Places
<1>. HIDE DEF n
<1>3. ups = [k \in 1..n |-> [id |-> sent[k], parent |-> At(tree, sent[k])]]
  BY <1>1 DEF Records
<1>. HIDE DEF ups
<1>4. \A k \in 1..n : ups[k].id = sent[k] /\ ups[k].parent = At(tree, sent[k]) /\ ups[k] \in Upserts
  BY <1>1, <1>2, <1>3 DEF Upserts
<1>5. ups \in Seq(Upserts) /\ DOMAIN ups = 1..n
  BY <1>1, <1>3, <1>4
<1>6. Ids(ups) = ToSet(sent)
  BY <1>1, <1>4, <1>5 DEF Ids, ToSet
<1>7. ASSUME NEW k \in 1..n
      PROVE  At(tree, sent[k]) \in known \cup {Root} \cup {ups[j].id : j \in 1..(k-1)}
  <2>1. At(tree, sent[k]) \in known \cup {Root} \cup {sent[j] : j \in 1..(k-1)}
    BY <1>1 DEF Sendable
  <2>2. \A j \in 1..(k-1) : j \in 1..n
    BY <1>1
  <2>3. {sent[j] : j \in 1..(k-1)} \subseteq {ups[j].id : j \in 1..(k-1)}
    BY <1>4, <2>2
  <2>. QED
    BY <2>1, <2>3
<1>8. Fits(tree, known, ups)
  BY <1>4, <1>5, <1>7 DEF Fits
<1>9. ToSet(sent) \subseteq S
  BY <1>1 DEF ToSet
<1>10. ASSUME NEW k \in 1..n PROVE At(tree, sent[k]) \in known \cup {Root} \cup ToSet(sent)
  <2>1. At(tree, sent[k]) \in known \cup {Root} \cup {sent[j] : j \in 1..(k-1)}
    BY <1>1 DEF Sendable
  <2>2. \A j \in 1..(k-1) : j \in 1..n
    BY <1>1
  <2>3. {sent[j] : j \in 1..(k-1)} \subseteq ToSet(sent)
    BY <1>1, <2>2 DEF ToSet
  <2>. QED
    BY <2>1, <2>3
<1>11. \A i \in ToSet(sent) : \E k \in 1..n : i = sent[k]
  BY <1>1 DEF ToSet
<1>. QED
  BY <1>5, <1>6, <1>8, <1>9, <1>10, <1>11 DEF ups

\* What the client remembers of what it sends.
LEMMA SendFacts ==
    ASSUME NEW S \in SUBSET Nodes, NEW tree, OfGame(tree), Partial(parents), Rooted(parents),
           NEW sent, Sendable(S, tree, DOMAIN parents, sent),
           NEW K, K = Remembered(tree, sent)
    PROVE  /\ Partial(K) /\ Rooted(K) /\ DOMAIN K = ToSet(sent) \cup DOMAIN parents
           /\ ToSet(sent) \subseteq S /\ K = Told(tree, ToSet(sent), parents)
           /\ Behind(parents, tree) => Behind(K, tree)
<1>1. /\ ToSet(sent) \subseteq S
      /\ \A i \in ToSet(sent) : At(tree, i) \in DOMAIN parents \cup {Root} \cup ToSet(sent)
  BY RecordsFit DEF OfGame
<1>2. K = Told(tree, ToSet(sent), parents)
  BY DEF Remembered, Told
<1>3. /\ Partial(K) /\ DOMAIN K = ToSet(sent) \cup DOMAIN parents
      /\ \A i \in ToSet(sent) : K[i] = At(tree, i)
      /\ \A i \in DOMAIN parents \ ToSet(sent) : K[i] = parents[i]
  <2>. DEFINE R == ToSet(sent)
  <2>1. R \in SUBSET Nodes /\ Partial(tree) /\ K = Told(tree, R, parents)
    BY <1>1, <1>2 DEF OfGame
  <2>. HIDE DEF R
  <2>2. \A i \in Nodes : At(tree, i) \in Places
    BY <2>1 DEF At, Partial, Places
  <2>3. /\ Partial(K) /\ DOMAIN K = R \cup DOMAIN parents
        /\ \A i \in R : K[i] = At(tree, i)
        /\ \A i \in DOMAIN parents \ R : K[i] = parents[i]
    BY <2>1, <2>2 DEF Told, Over, Partial
  <2>. QED
    BY <2>3 DEF R
<1>4. Rooted(K)
  BY <1>1, <1>3 DEF Rooted
<1>5. Behind(parents, tree) => Behind(K, tree)
  BY <1>3 DEF Behind
<1>. QED
  BY <1>1, <1>2, <1>3, <1>4, <1>5

\* What the client remembers is what the mirror will be.
LEMMA SendMerges ==
    ASSUME NEW rules, NEW S \in SUBSET Nodes, NEW tree, OfGame(tree),
           Partial(parents), Rooted(parents), "move" \in rules \/ Behind(parents, tree),
           NEW sent, Sendable(S, tree, DOMAIN parents, sent),
           NEW patch, patch = Patch(Records(tree, sent), {})
    PROVE  patch \in Patches /\ Merges(rules, patch, parents, Remembered(tree, sent))
<1>. DEFINE K == Remembered(tree, sent)
<1>1. /\ Records(tree, sent) \in Seq(Upserts) /\ Ids(Records(tree, sent)) = ToSet(sent)
      /\ Fits(tree, DOMAIN parents, Records(tree, sent))
  BY RecordsFit DEF OfGame
<1>2. Partial(K) /\ K = Told(tree, ToSet(sent), parents)
  <2>1. K = Remembered(tree, sent)
    OBVIOUS
  <2>. HIDE DEF K
  <2>. QED
    BY <2>1, SendFacts
<1>. HIDE DEF K
<1>3. patch.upserts = Records(tree, sent) /\ patch.removals = {} /\ patch \in Patches
  BY <1>1 DEF Patch, Patches
<1>4. Minus(Told(tree, Ids(patch.upserts), parents), patch.removals) = K
  <2>1. Minus(K, {}) = K
    BY <1>2, MinusNone
  <2>. QED
    BY <1>1, <1>2, <1>3, <2>1
<1>5. Tame(rules, tree, parents, patch.removals)
  BY <1>3 DEF Tame
<1>6. Merges(rules, patch, parents, K)
  BY <1>1, <1>3, <1>4, <1>5 DEF Merges
<1>. QED
  BY <1>3, <1>6 DEF K

(***************************************************************************)
(* Merging, where no node is ever inside its new parent.                   *)
(***************************************************************************)
\* In a forest no node is under its own child.
LEMMA ForestNoRound ==
    ASSUME NEW T, OfGame(T), NEW i \in Nodes, At(T, i) # Root
    PROVE  ~ Reaches(T, At(T, i), i)
<1>1. i \in DOMAIN T /\ At(T, i) = T[i] /\ T[i] \in DOMAIN T
  BY DEF At, OfGame, IsForest
<1>. DEFINE W == {j \in DOMAIN T : Reaches(T, j, i) /\ Reaches(T, T[i], j)}
<1>2. SUFFICES ASSUME Reaches(T, T[i], i) PROVE FALSE
  BY <1>1
<1>3. T[i] \in W /\ W \in SUBSET DOMAIN T
  BY <1>1, <1>2 DEF Reaches
<1>4. \E j \in W : T[j] \notin W
  <2>. HIDE DEF W
  <2>. QED
    BY <1>3 DEF OfGame, IsForest
<1>5. PICK j \in DOMAIN T : Reaches(T, j, i) /\ Reaches(T, T[i], j) /\ T[j] \notin W
  BY <1>4
<1>6. j # i
  BY <1>3, <1>5
<1>7. T[j] # Root
  <2>1. SUFFICES ASSUME T[j] = Root PROVE FALSE
    OBVIOUS
  <2>2. Closed(T, {j}) /\ {j} \in SUBSET Nodes
    BY <2>1 DEF Closed, OfGame, Partial
  <2>. QED
    BY <1>5, <1>6, <2>2 DEF Reaches
<1>8. Reaches(T, T[j], i)
  <2>. SUFFICES ASSUME NEW C \in SUBSET Nodes, T[j] \in C, Closed(T, C) PROVE i \in C
    BY DEF Reaches
  <2>1. Closed(T, C \cup {j}) /\ C \cup {j} \in SUBSET Nodes
    BY DEF Closed, OfGame, Partial
  <2>. QED
    BY <1>5, <1>6, <2>1 DEF Reaches
<1>9. Reaches(T, T[i], T[j])
  <2>. SUFFICES ASSUME NEW C \in SUBSET Nodes, T[i] \in C, Closed(T, C) PROVE T[j] \in C
    BY DEF Reaches
  <2>1. j \in C
    BY <1>5 DEF Reaches
  <2>. QED
    BY <1>7, <2>1 DEF Closed
<1>10. T[j] \in DOMAIN T
  BY <1>7 DEF OfGame, IsForest
<1>. QED
  BY <1>5, <1>8, <1>9, <1>10

\* A way up in K is one in T.
LEMMA BehindReaches ==
    ASSUME NEW T, NEW K, Behind(K, T), NEW i, NEW r, Reaches(K, i, r)
    PROVE  Reaches(T, i, r)
<1>. SUFFICES ASSUME NEW C \in SUBSET Nodes, i \in C, Closed(T, C) PROVE r \in C
  BY DEF Reaches
<1>1. Closed(K, C)
  BY DEF Closed, Behind, At
<1>. QED
  BY <1>1 DEF Reaches

\* In a forest no node is its own parent.
LEMMA ForestNoSelf ==
    ASSUME NEW T, OfGame(T), NEW i \in Nodes
    PROVE  At(T, i) # i
<1>1. CASE i \in DOMAIN T
  <2>1. {i} \in SUBSET DOMAIN T /\ {i} # {}
    BY <1>1
  <2>2. \E j \in {i} : T[j] \notin {i}
    BY <2>1 DEF OfGame, IsForest
  <2>. QED
    BY <1>1, <2>2 DEF At
<1>2. CASE i \notin DOMAIN T
  BY <1>2, TreesAssumption DEF At
<1>. QED
  BY <1>1, <1>2

(***************************************************************************)
(* The two halves.  Behind the wire, the mirror will be what the client    *)
(* remembers.                                                              *)
(***************************************************************************)
\* Where instances move, none leaves the game and none outside it is mirrored.
Calm(rules) == "move" \in rules => rules \cap {"leave", "refer"} = {}

ClientInv ==
    /\ Calm(world) /\ OfGame(live) /\ Partial(parents) /\ Rooted(parents)
    /\ IF "move" \in world THEN DOMAIN parents \subseteq DOMAIN live ELSE Behind(parents, live)
    /\ wire \in Seq(Patches)

QueueInv ==
    /\ \A i \in DOMAIN moves : moves[i] # i /\ moves[i] \in DOMAIN mirror \cup {Root}
    /\ \A i \in DOMAIN pending : pending[i] # i
    /\ phase # "upsert" => upserts = <<>>
    /\ phase = "idle" => ("move" \in world \/ pending = Empty)

\* The mirror with every move made that is asked for.
Planned == Over(moves, Over(pending, mirror))

\* The rest of a patch that tells of T.
Merging(T) ==
    /\ OfGame(T) /\ Fits(T, DOMAIN mirror, upserts)
    /\ IF "move" \in world THEN removals = {}
       ELSE Behind(mirror, T) /\ Behind(moves, T) /\ Behind(pending, T)

\* The mirror once the patch is merged.
Due(T) == Minus(Told(T, Ids(upserts), Planned), removals)

\* The wire takes the mirror from K to what the client remembers.
Leads(K) == Chain(world, wire, K, parents)

Promise ==
    IF phase = "idle" THEN \E K : K = Planned /\ Leads(K)
    ELSE \E T, K : Merging(T) /\ K = Due(T) /\ Leads(K)

HalvesInv == DomInv /\ ClientInv /\ QueueInv /\ Promise

LEMMA PlanFacts ==
    ASSUME NEW mv, NEW pd, NEW mr, Partial(mv), Partial(pd), Partial(mr),
           DOMAIN mv \subseteq DOMAIN mr, DOMAIN pd \subseteq DOMAIN mr,
           NEW plan, plan = Over(mv, Over(pd, mr))
    PROVE  /\ Partial(plan) /\ DOMAIN plan = DOMAIN mr
           /\ \A i \in DOMAIN mr :
                 plan[i] = IF i \in DOMAIN mv THEN mv[i]
                           ELSE IF i \in DOMAIN pd THEN pd[i] ELSE mr[i]
BY DEF Over, Partial

LEMMA PlannedFacts ==
    /\ DomInv => /\ Partial(Planned) /\ DOMAIN Planned = DOMAIN mirror
                 /\ \A i \in DOMAIN mirror :
                       Planned[i] = IF i \in DOMAIN moves THEN moves[i]
                                    ELSE IF i \in DOMAIN pending THEN pending[i] ELSE mirror[i]
    /\ DomInv' => /\ Partial(Planned)' /\ DOMAIN Planned' = DOMAIN mirror'
                  /\ \A i \in DOMAIN mirror' :
                        Planned'[i] = IF i \in DOMAIN moves' THEN moves'[i]
                                      ELSE IF i \in DOMAIN pending' THEN pending'[i] ELSE mirror'[i]
<1>1. Planned = Over(moves, Over(pending, mirror))
  BY DEF Planned
<1>2. Planned' = Over(moves', Over(pending', mirror'))
  BY DEF Planned
<1>3. ASSUME DomInv
      PROVE  /\ Partial(Planned) /\ DOMAIN Planned = DOMAIN mirror
             /\ \A i \in DOMAIN mirror :
                   Planned[i] = IF i \in DOMAIN moves THEN moves[i]
                                ELSE IF i \in DOMAIN pending THEN pending[i] ELSE mirror[i]
  <2>1. /\ Partial(moves) /\ Partial(pending) /\ Partial(mirror)
        /\ DOMAIN moves \subseteq DOMAIN mirror /\ DOMAIN pending \subseteq DOMAIN mirror
    BY <1>3 DEF DomInv, DomTypeOK, QueuedIsMirrored
  <2>. QED
    BY <1>1, <2>1, PlanFacts
<1>4. ASSUME DomInv'
      PROVE  /\ Partial(Planned)' /\ DOMAIN Planned' = DOMAIN mirror'
             /\ \A i \in DOMAIN mirror' :
                   Planned'[i] = IF i \in DOMAIN moves' THEN moves'[i]
                                 ELSE IF i \in DOMAIN pending' THEN pending'[i] ELSE mirror'[i]
  <2>1. /\ Partial(moves') /\ Partial(pending') /\ Partial(mirror')
        /\ DOMAIN moves' \subseteq DOMAIN mirror' /\ DOMAIN pending' \subseteq DOMAIN mirror'
    BY <1>4 DEF DomInv, DomTypeOK, QueuedIsMirrored, Partial
  <2>2. Partial(Planned') => Partial(Planned)'
    BY DEF Partial
  <2>. QED
    BY <1>2, <2>1, <2>2, PlanFacts
<1>. QED
  BY <1>3, <1>4

\* Two plans with the same entries are one.
LEMMA SamePlan ==
    ASSUME DomInv, DomInv', DOMAIN mirror' = DOMAIN mirror,
           \A i \in DOMAIN mirror : Planned'[i] = Planned[i]
    PROVE  Planned' = Planned
<1>1. Partial(Planned) /\ DOMAIN Planned = DOMAIN mirror
  BY PlannedFacts
<1>2. Partial(Planned') /\ DOMAIN Planned' = DOMAIN mirror'
  BY PlannedFacts DEF Partial
<1>. QED
  BY <1>1, <1>2, PartialExt

\* The promise outlasts a step that keeps the plan and the rest of the patch.
LEMMA UpsertKeepsPromise ==
    ASSUME DomInv, DomInv', QueueInv, NEW T, Merging(T), Upsert, UNCHANGED world
    PROVE  QueueInv' /\ Merging(T)' /\ Due(T)' = Due(T)
<1>. DEFINE u == Head(upserts)
            rest == Tail(upserts)
            n == Len(upserts)
<1>1. /\ phase = "upsert" /\ upserts \in Seq(Upserts) /\ upserts # <<>>
      /\ upserts' = rest /\ UNCHANGED <<pending, phase, removals>>
  BY DEF Upsert, DomInv, DomTypeOK
<1>2. /\ n \in Nat /\ n >= 1 /\ DOMAIN upserts = 1..n /\ DOMAIN rest = 1..(n-1)
      /\ u = upserts[1] /\ u \in Upserts /\ \A k \in 1..(n-1) : rest[k] = upserts[k+1]
  BY <1>1, HeadTailProperties
<1>3. u.id \in Nodes /\ u.parent \in Places
  BY <1>2 DEF Upserts
<1>. HIDE DEF u, rest, n
<1>4. u.parent = At(T, u.id) /\ u.parent \in DOMAIN mirror \cup {Root} /\ u.parent # u.id
  <2>1. 1 \in DOMAIN upserts /\ 1..(1-1) = {}
    BY <1>2
  <2>2. /\ u.parent = At(T, u.id)
        /\ u.parent \in DOMAIN mirror \cup {Root} \cup {upserts[j].id : j \in 1..(1-1)}
    BY <1>2, <2>1 DEF Merging, Fits
  <2>3. At(T, u.id) # u.id
    BY <1>3, ForestNoSelf DEF Merging
  <2>. QED
    BY <2>1, <2>2, <2>3
<1>5. \/ u.id \in DOMAIN mirror /\ moves' = Put(moves, u.id, u.parent) /\ mirror' = mirror
      \/ u.id \notin DOMAIN mirror /\ moves' = moves /\ mirror' = Put(mirror, u.id, u.parent)
  BY <1>4 DEF Upsert, u
<1>6. /\ DOMAIN mirror' = DOMAIN mirror \cup {u.id}
      /\ \A i \in DOMAIN mirror' : mirror'[i] = IF i \in DOMAIN mirror THEN mirror[i] ELSE u.parent
  BY <1>5 DEF Put
<1>7. /\ DOMAIN moves' \subseteq DOMAIN moves \cup {u.id}
      /\ DOMAIN moves \subseteq DOMAIN moves'
      /\ \A i \in DOMAIN moves' : moves'[i] = IF i = u.id THEN u.parent ELSE moves[i]
  <2>1. u.id \notin DOMAIN mirror => u.id \notin DOMAIN moves
    BY DEF DomInv, QueuedIsMirrored
  <2>. QED
    BY <1>5, <2>1 DEF Put
<1>8. QueueInv'
  BY <1>1, <1>4, <1>6, <1>7 DEF QueueInv
<1>9. \A k \in DOMAIN rest : k + 1 \in DOMAIN upserts /\ rest[k] = upserts[k+1]
  BY <1>2
<1>10. ASSUME NEW k \in DOMAIN rest
       PROVE  /\ rest[k].parent = At(T, rest[k].id)
              /\ rest[k].parent \in DOMAIN mirror' \cup {Root} \cup {rest[j].id : j \in 1..(k-1)}
  <2>1. /\ rest[k].parent = At(T, rest[k].id)
        /\ rest[k].parent \in DOMAIN mirror \cup {Root} \cup {upserts[j].id : j \in 1..((k+1)-1)}
    BY <1>9 DEF Merging, Fits
  <2>2. ASSUME NEW j \in 1..((k+1)-1)
        PROVE  upserts[j].id \in DOMAIN mirror' \cup {rest[l].id : l \in 1..(k-1)}
    <3>1. CASE j = 1
      BY <1>2, <1>6, <3>1
    <3>2. CASE j # 1
      <4>1. j - 1 \in 1..(k-1) /\ j - 1 \in DOMAIN rest /\ (j - 1) + 1 = j
        BY <1>2, <3>2
      <4>2. rest[j-1] = upserts[j]
        BY <1>9, <4>1
      <4>. QED
        BY <4>1, <4>2
    <3>. QED
      BY <3>1, <3>2
  <2>. QED
    BY <1>6, <2>1, <2>2
<1>11. Fits(T, DOMAIN mirror', rest)
  BY <1>10 DEF Fits
<1>12. Merging(T)'
  <2>1. OfGame(T) /\ Fits(T, DOMAIN mirror', upserts')
    BY <1>1, <1>11 DEF Merging
  <2>2. "move" \in world => removals' = {}
    BY <1>1 DEF Merging
  <2>3. CASE "move" \notin world
    <3>1. Behind(mirror, T) /\ Behind(moves, T) /\ Behind(pending, T)
      BY <2>3 DEF Merging
    <3>2. \A i \in DOMAIN mirror' : mirror'[i] \in {At(T, i), Root}
      BY <1>4, <1>6, <3>1 DEF Behind
    <3>3. \A i \in DOMAIN moves' : moves'[i] \in {At(T, i), Root}
      BY <1>4, <1>7, <3>1 DEF Behind
    <3>. QED
      BY <1>1, <2>1, <2>3, <3>1, <3>2, <3>3 DEF Merging, Behind, Fits, At
  <2>. QED
    BY <2>1, <2>2, <2>3 DEF Merging, Fits, At
<1>13. Ids(upserts) = Ids(rest) \cup {u.id} /\ Ids(upserts) \subseteq Nodes
  <2>1. \A k \in DOMAIN upserts : k = 1 \/ k - 1 \in DOMAIN rest
    BY <1>2
  <2>2. \A k \in DOMAIN upserts : k # 1 => rest[k-1] = upserts[k]
    BY <1>2
  <2>3. \A k \in DOMAIN upserts : upserts[k].id \in Nodes
    <3>1. \A k \in DOMAIN upserts : upserts[k] \in Upserts
      BY <1>1
    <3>. QED
      BY <3>1 DEF Upserts
  <2>4. 1 \in DOMAIN upserts
    BY <1>2
  <2>. QED
    BY <1>2, <1>9, <2>1, <2>2, <2>3, <2>4 DEF Ids
<1>14. Told(T, Ids(rest), Planned') = Told(T, Ids(upserts), Planned)
  <2>1. /\ Partial(Planned) /\ DOMAIN Planned = DOMAIN mirror
        /\ \A i \in DOMAIN mirror :
              Planned[i] = IF i \in DOMAIN moves THEN moves[i]
                           ELSE IF i \in DOMAIN pending THEN pending[i] ELSE mirror[i]
    BY PlannedFacts
  <2>2. /\ Partial(Planned') /\ DOMAIN Planned' = DOMAIN mirror'
        /\ \A i \in DOMAIN mirror' :
              Planned'[i] = IF i \in DOMAIN moves' THEN moves'[i]
                            ELSE IF i \in DOMAIN pending' THEN pending'[i] ELSE mirror'[i]
    <3>1. Partial(Planned)' => Partial(Planned')
      BY DEF Partial
    <3>. QED
      BY <3>1, PlannedFacts
  <2>3. /\ u.id \in DOMAIN Planned' /\ Planned'[u.id] = At(T, u.id)
        /\ DOMAIN Planned' = DOMAIN Planned \cup {u.id}
        /\ \A i \in DOMAIN Planned \ {u.id} : Planned'[i] = Planned[i]
    <3>1. CASE u.id \in DOMAIN mirror /\ moves' = Put(moves, u.id, u.parent) /\ mirror' = mirror
      <4>1. u.id \in DOMAIN moves' /\ \A i \in DOMAIN mirror \ {u.id} : i \in DOMAIN moves' <=> i \in DOMAIN moves
        BY <3>1 DEF Put
      <4>2. /\ u.id \in DOMAIN Planned' /\ Planned'[u.id] = At(T, u.id)
            /\ DOMAIN Planned' = DOMAIN Planned \cup {u.id}
        BY <1>4, <1>7, <2>1, <2>2, <3>1, <4>1
      <4>3. ASSUME NEW i \in DOMAIN mirror \ {u.id} PROVE Planned'[i] = Planned[i]
        <5>1. i \in DOMAIN moves => moves'[i] = moves[i]
          BY <1>7, <4>1
        <5>. QED
          BY <1>1, <2>1, <2>2, <3>1, <4>1, <5>1
      <4>. QED
        BY <2>1, <4>2, <4>3
    <3>2. CASE u.id \notin DOMAIN mirror /\ moves' = moves /\ mirror' = Put(mirror, u.id, u.parent)
      <4>1. u.id \notin DOMAIN moves /\ u.id \notin DOMAIN pending
        BY <3>2 DEF DomInv, QueuedIsMirrored
      <4>. QED
        BY <1>1, <1>4, <1>6, <2>1, <2>2, <3>2, <4>1
    <3>. QED
      BY <1>5, <3>1, <3>2
  <2>. DEFINE R == Ids(rest)
              P == Planned
              Q == Planned'
  <2>4. R \in SUBSET Nodes /\ Ids(upserts) = R \cup {u.id}
    BY <1>13
  <2>5. /\ Partial(P) /\ Partial(Q) /\ DOMAIN Q = DOMAIN P \cup {u.id}
        /\ Q[u.id] = At(T, u.id) /\ \A i \in DOMAIN P \ {u.id} : Q[i] = P[i]
    BY <2>1, <2>2, <2>3
  <2>. HIDE DEF R, P, Q
  <2>6. Over([i \in R |-> At(T, i)], Q) = Over([i \in R \cup {u.id} |-> At(T, i)], P)
    <3>1. \A i \in (R \cup DOMAIN Q) \ R : Q[i] = IF i = u.id THEN At(T, i) ELSE P[i]
      BY <2>5
    <3>2. R \cup DOMAIN Q = (R \cup {u.id}) \cup DOMAIN P
      BY <2>5
    <3>. QED
      BY <3>1, <3>2 DEF Over
  <2>. QED
    BY <2>4, <2>6 DEF Told, R, P, Q
<1>15. Due(T)' = Due(T)
  <2>1. Due(T)' = Minus(Told(T, Ids(upserts'), Planned'), removals')
    BY DEF Due, Minus, Told, Ids, At, Over, Restrict, Subtree, Reaches, Closed
  <2>. QED
    BY <1>1, <1>14, <2>1 DEF Due
<1>. QED
  BY <1>8, <1>12, <1>15

LEMMA DuePrimed ==
    ASSUME NEW T
    PROVE  Due(T)' = Minus(Told(T, Ids(upserts'), Planned'), removals')
BY DEF Due, Minus, Told, Ids, At, Over, Restrict, Subtree, Reaches, Closed

LEMMA MergingPrimed ==
    ASSUME NEW T, OfGame(T), Fits(T, DOMAIN mirror', upserts'),
           IF "move" \in world' THEN removals' = {}
           ELSE Behind(mirror', T) /\ Behind(moves', T) /\ Behind(pending', T)
    PROVE  Merging(T)'
BY DEF Merging, Fits, At, Behind

LEMMA PlannedPrimed ==
    ASSUME DomInv'
    PROVE  /\ Partial(Planned') /\ DOMAIN Planned' = DOMAIN mirror'
           /\ \A i \in DOMAIN mirror' :
                 Planned'[i] = IF i \in DOMAIN moves' THEN moves'[i]
                               ELSE IF i \in DOMAIN pending' THEN pending'[i] ELSE mirror'[i]
<1>1. Partial(Planned)' => Partial(Planned')
  BY DEF Partial
<1>. QED
  BY <1>1, PlannedFacts

LEMMA QueueKeepsPromise ==
    ASSUME DomInv, DomInv', QueueInv, NEW T, Merging(T), Queue, UNCHANGED world
    PROVE  QueueInv' /\ Merging(T)' /\ Due(T)' = Due(T)
<1>1. /\ phase = "upsert" /\ upserts = <<>> /\ phase' = "reparent" /\ moves' = Empty
      /\ UNCHANGED <<mirror, upserts, removals>>
      /\ DOMAIN pending' = DOMAIN pending \cup DOMAIN moves
      /\ \A i \in DOMAIN pending' : pending'[i] = IF i \in DOMAIN moves THEN moves[i] ELSE pending[i]
  BY DEF Queue, Resolved, QueueInv
<1>2. DOMAIN moves' = {}
  BY <1>1 DEF Empty
<1>3. QueueInv'
  BY <1>1, <1>2 DEF QueueInv
<1>4. Merging(T)'
  <2>1. OfGame(T) /\ Fits(T, DOMAIN mirror', upserts')
    BY <1>1 DEF Merging, Fits
  <2>2. "move" \notin world => Behind(mirror', T) /\ Behind(moves', T) /\ Behind(pending', T)
    BY <1>1, <1>2 DEF Merging, Behind
  <2>3. "move" \in world => removals' = {}
    BY <1>1 DEF Merging
  <2>. QED
    BY <2>1, <2>2, <2>3, MergingPrimed
<1>5. Planned' = Planned
  <2>1. ASSUME NEW i \in DOMAIN mirror PROVE Planned'[i] = Planned[i]
    BY <1>1, <1>2, PlannedFacts, PlannedPrimed
  <2>. QED
    BY <1>1, <2>1, SamePlan
<1>6. Due(T)' = Due(T)
  BY <1>1, <1>5, DuePrimed DEF Due
<1>. QED
  BY <1>3, <1>4, <1>6

LEMMA ReparentKeepsPromise ==
    ASSUME DomInv, DomInv', QueueInv, NEW T, Merging(T), NEW i \in Nodes, Reparent(i),
           UNCHANGED world
    PROVE  QueueInv' /\ Merging(T)' /\ Due(T)' = Due(T)
<1>1. /\ phase = "reparent" /\ UNCHANGED <<phase, upserts, moves, removals>>
      /\ i \in DOMAIN pending /\ i \in DOMAIN mirror
      /\ mirror' = IF pending[i] \in {i, mirror[i]} THEN mirror ELSE [mirror EXCEPT ![i] = pending[i]]
  BY DEF Reparent, DomInv, QueuedIsMirrored
<1>2. /\ DOMAIN pending' = DOMAIN pending \ {i}
      /\ \A j \in DOMAIN pending' : pending'[j] = pending[j]
  BY DEF Reparent, Discard, Restrict
<1>3. pending[i] # i /\ moves = Empty /\ DOMAIN moves = {}
  BY <1>1 DEF QueueInv, DomInv, QueuedIsMirrored, Empty
<1>4. /\ DOMAIN mirror' = DOMAIN mirror
      /\ mirror'[i] = pending[i] /\ \A j \in DOMAIN mirror \ {i} : mirror'[j] = mirror[j]
  BY <1>1, <1>3
<1>5. QueueInv'
  BY <1>1, <1>2, <1>3 DEF QueueInv
<1>6. Merging(T)'
  <2>1. OfGame(T) /\ Fits(T, DOMAIN mirror', upserts')
    BY <1>1, <1>4 DEF Merging, Fits
  <2>2. "move" \notin world => Behind(mirror', T) /\ Behind(moves', T) /\ Behind(pending', T)
    <3>. SUFFICES ASSUME "move" \notin world
                  PROVE  Behind(mirror', T) /\ Behind(moves', T) /\ Behind(pending', T)
      OBVIOUS
    <3>1. Behind(mirror, T) /\ Behind(moves, T) /\ Behind(pending, T)
      BY DEF Merging
    <3>. QED
      BY <1>1, <1>2, <1>4, <3>1 DEF Behind
  <2>3. "move" \in world => removals' = {}
    BY <1>1 DEF Merging
  <2>. QED
    BY <2>1, <2>2, <2>3, MergingPrimed
<1>7. Planned' = Planned
  <2>1. ASSUME NEW j \in DOMAIN mirror PROVE Planned'[j] = Planned[j]
    <3>1. Planned[j] = IF j \in DOMAIN pending THEN pending[j] ELSE mirror[j]
      BY <1>3, PlannedFacts
    <3>2. Planned'[j] = IF j \in DOMAIN pending' THEN pending'[j] ELSE mirror'[j]
      BY <1>1, <1>3, <1>4, PlannedPrimed
    <3>3. CASE j = i
      BY <1>1, <1>2, <1>4, <3>1, <3>2, <3>3
    <3>4. CASE j # i
      BY <1>2, <1>4, <3>1, <3>2, <3>4
    <3>. QED
      BY <3>3, <3>4
  <2>. QED
    BY <1>4, <2>1, SamePlan
<1>8. Due(T)' = Due(T)
  BY <1>1, <1>7, DuePrimed DEF Due
<1>. QED
  BY <1>5, <1>6, <1>8

\* Where no node is inside its new parent, every move is made.
LEMMA NothingBlocked ==
    ASSUME DomInv, NEW T, Merging(T), "move" \notin world, NEW i \in DOMAIN pending, Blocked(i)
    PROVE  FALSE
<1>1. /\ Behind(mirror, T) /\ Behind(pending, T) /\ OfGame(T)
      /\ pending[i] \notin {i, mirror[i], Root} /\ Reaches(mirror, pending[i], i)
      /\ i \in Nodes
  BY DEF Merging, Blocked, DomInv, DomTypeOK, Partial
<1>2. pending[i] = At(T, i) /\ At(T, i) # Root
  BY <1>1 DEF Behind
<1>3. Reaches(T, At(T, i), i)
  BY <1>1, <1>2, BehindReaches
<1>. QED
  BY <1>1, <1>2, <1>3, ForestNoRound

LEMMA FinishKeepsPromise ==
    ASSUME DomInv, DomInv', QueueInv, NEW T, Merging(T), Finish, UNCHANGED world
    PROVE  QueueInv' /\ Planned' = Due(T)
<1>. DEFINE gone == UNION {Subtree(mirror, r) : r \in removals \cap DOMAIN mirror}
            left == DOMAIN mirror \ gone
            D == {i \in DOMAIN pending \cap left : pending[i] \in left \cup {Root}}
<1>1. /\ phase = "reparent" /\ \A i \in DOMAIN pending : Blocked(i)
      /\ mirror' = Restrict(mirror, left) /\ pending' = Restrict(pending, D)
      /\ phase' = "idle" /\ removals' = {} /\ UNCHANGED <<upserts, moves>>
  BY DEF Finish
<1>2. mirror' = Minus(mirror, removals)
  BY <1>1 DEF Minus
<1>3. upserts = <<>> /\ Ids(upserts) = {} /\ DOMAIN moves = {} /\ moves = Empty
  BY <1>1 DEF QueueInv, Ids, DomInv, QueuedIsMirrored, Empty
<1>4. Partial(Planned) /\ Due(T) = Minus(Planned, removals)
  BY <1>3, PlannedFacts, ToldNone DEF Due
<1>5. DOMAIN pending' \subseteq DOMAIN pending /\ \A i \in DOMAIN pending' : pending'[i] = pending[i]
  BY <1>1 DEF Restrict
<1>6. CASE "move" \in world
  <2>1. removals = {} /\ gone = {}
    BY <1>6 DEF Merging
  <2>2. left = DOMAIN mirror
    BY <2>1
  <2>3. D = DOMAIN pending
    BY <2>2 DEF DomInv, QueuedIsMirrored
  <2>4. mirror' = mirror /\ pending' = pending
    <3>1. mirror' = Restrict(mirror, DOMAIN mirror) /\ pending' = Restrict(pending, DOMAIN pending)
      BY <1>1, <2>2, <2>3
    <3>. QED
      BY <3>1 DEF Restrict, DomInv, DomTypeOK, Partial
  <2>5. Planned' = Planned
    BY <1>1, <2>4 DEF Planned
  <2>6. Due(T) = Planned
    BY <1>4, <2>1, MinusNone
  <2>7. QueueInv'
    BY <1>1, <1>3, <1>5, <1>6, <2>4 DEF QueueInv
  <2>. QED
    BY <2>5, <2>6, <2>7
<1>7. CASE "move" \notin world
  <2>1. DOMAIN pending = {}
    BY <1>1, <1>7, NothingBlocked
  <2>2. Planned = mirror
    <3>1. Partial(mirror) /\ DOMAIN Planned = DOMAIN mirror
      BY PlannedFacts DEF DomInv, DomTypeOK
    <3>2. \A i \in DOMAIN mirror : Planned[i] = mirror[i]
      BY <1>3, <2>1, PlannedFacts
    <3>. QED
      BY <1>4, <3>1, <3>2, PartialExt
  <2>3. DOMAIN pending' = {} /\ DOMAIN moves' = {}
    BY <1>1, <1>3, <1>5, <2>1
  <2>4. Planned' = mirror'
    <3>1. Partial(mirror') /\ Partial(Planned') /\ DOMAIN Planned' = DOMAIN mirror'
      BY PlannedPrimed DEF DomInv, DomTypeOK, Partial
    <3>2. \A i \in DOMAIN mirror' : Planned'[i] = mirror'[i]
      BY <2>3, PlannedPrimed
    <3>. QED
      BY <3>1, <3>2, PartialExt
  <2>5. pending' = Empty
    BY <2>3 DEF DomInv, DomTypeOK, Partial, Empty
  <2>6. QueueInv'
    BY <1>1, <1>3, <2>3, <2>5 DEF QueueInv
  <2>. QED
    BY <1>2, <1>4, <2>2, <2>4, <2>6
<1>. QED
  BY <1>6, <1>7

(***************************************************************************)
(* The steps of the two halves.                                            *)
(***************************************************************************)
LEMMA LeadsPrimed ==
    ASSUME NEW K, Chain(world', wire', K, parents')
    PROVE  Leads(K)'
BY DEF Leads, Chain, Merges, OfGame, IsForest, Partial, Fits, Tame, Behind, At,
       Told, Ids, Minus, Over, Restrict, Subtree, Reaches, Closed

LEMMA ClientInvKept == ClientInv /\ UNCHANGED syncVars => ClientInv'
BY DEF ClientInv, syncVars, Calm, OfGame, IsForest, Partial, Rooted, Behind, At

LEMMA ApplyHalves == HalvesInv /\ ApplyStep /\ UNCHANGED syncVars => HalvesInv'
<1>. SUFFICES ASSUME HalvesInv, ApplyStep, UNCHANGED syncVars PROVE HalvesInv'
  OBVIOUS
<1>1. DomInv /\ ClientInv /\ QueueInv /\ Promise
  BY DEF HalvesInv
<1>2. DomInv' /\ ClientInv'
  BY <1>1, DomStep, ClientInvKept
<1>3. UNCHANGED <<world, wire, parents>>
  BY DEF syncVars
<1>4. phase # "idle"
  BY DEF ApplyStep, Upsert, Queue, Reparent, Finish
<1>5. PICK T, K : Merging(T) /\ K = Due(T) /\ Chain(world, wire, K, parents)
  BY <1>1, <1>4 DEF Promise, Leads
<1>6. CASE Finish
  <2>1. QueueInv' /\ Planned' = Due(T) /\ phase' = "idle"
    BY <1>1, <1>2, <1>3, <1>5, <1>6, FinishKeepsPromise DEF Finish
  <2>2. Leads(K)'
    BY <1>3, <1>5, LeadsPrimed
  <2>3. Promise'
    BY <1>5, <2>1, <2>2 DEF Promise
  <2>. QED
    BY <1>2, <2>1, <2>3 DEF HalvesInv
<1>7. CASE Upsert \/ Queue \/ \E i \in Nodes : Reparent(i)
  <2>1. QueueInv' /\ Merging(T)' /\ Due(T)' = Due(T)
    BY <1>1, <1>2, <1>3, <1>5, <1>7, UpsertKeepsPromise, QueueKeepsPromise, ReparentKeepsPromise
  <2>2. phase' # "idle"
    BY <1>7 DEF Upsert, Queue, Reparent
  <2>3. Leads(K)'
    BY <1>3, <1>5, LeadsPrimed
  <2>4. Promise'
    BY <1>5, <2>1, <2>2, <2>3 DEF Promise
  <2>. QED
    BY <1>2, <2>1, <2>4 DEF HalvesInv
<1>. QED
  BY <1>6, <1>7 DEF ApplyStep

\* What is on the wire may be given to the broker's mirror.
LEMMA ReceiveIsAny == ClientInv /\ Receive => AnyPatch
<1>. SUFFICES ASSUME ClientInv, Receive PROVE AnyPatch
  OBVIOUS
<1>1. wire \in Seq(Patches) /\ wire # <<>>
  BY DEF ClientInv, Receive
<1>2. Head(wire) \in Patches
  BY <1>1, HeadTailProperties
<1>. QED
  BY <1>2 DEF Receive, Begin, AnyPatch, Patches

LEMMA ReceiveHalves == HalvesInv /\ Receive => HalvesInv'
<1>. SUFFICES ASSUME HalvesInv, Receive PROVE HalvesInv'
  OBVIOUS
<1>. DEFINE patch == Head(wire)
<1>1. DomInv /\ ClientInv /\ QueueInv /\ Promise
  BY DEF HalvesInv
<1>2. DomInv'
  BY <1>1, ReceiveIsAny, DomStep
<1>3. /\ wire \in Seq(Patches) /\ wire # <<>> /\ wire' = Tail(wire)
      /\ phase = "idle" /\ phase' = "upsert"
      /\ upserts' = patch.upserts /\ removals' = patch.removals /\ moves' = Empty
      /\ UNCHANGED <<mirror, pending, world, live, parents>>
  BY <1>1 DEF ClientInv, Receive, Begin
<1>. HIDE DEF patch
<1>4. ClientInv'
  <2>1. wire' \in Seq(Patches)
    BY <1>3, HeadTailProperties
  <2>. QED
    BY <1>1, <1>3, <2>1 DEF ClientInv, Calm, OfGame, IsForest, Partial, Rooted, Behind, At
<1>5. moves = Empty /\ DOMAIN moves = {} /\ DOMAIN moves' = {}
  BY <1>1, <1>3 DEF DomInv, QueuedIsMirrored, Empty
<1>6. QueueInv'
  BY <1>1, <1>3, <1>5 DEF QueueInv
<1>7. Planned' = Planned
  BY <1>3, <1>5 DEF Planned
<1>8. Chain(world, wire, Planned, parents)
  BY <1>1, <1>3 DEF Promise, Leads
<1>9. PICK L : Merges(world, patch, Planned, L) /\ Chain(world, Tail(wire), L, parents)
  BY <1>3, <1>8, ChainTail DEF patch
<1>10. PICK T : /\ OfGame(T) /\ Fits(T, DOMAIN Planned, patch.upserts)
                /\ Tame(world, T, Planned, patch.removals)
                /\ L = Minus(Told(T, Ids(patch.upserts), Planned), patch.removals)
  BY <1>9 DEF Merges
<1>11. DOMAIN Planned = DOMAIN mirror
  BY <1>1, PlannedFacts
<1>12. Merging(T)'
  <2>1. Fits(T, DOMAIN mirror', upserts')
    BY <1>3, <1>10, <1>11
  <2>2. "move" \in world => removals' = {}
    BY <1>3, <1>10 DEF Tame
  <2>3. "move" \notin world => Behind(mirror', T) /\ Behind(moves', T) /\ Behind(pending', T)
    <3>. SUFFICES ASSUME "move" \notin world
                  PROVE  Behind(mirror', T) /\ Behind(moves', T) /\ Behind(pending', T)
      OBVIOUS
    <3>1. pending = Empty /\ DOMAIN pending = {}
      BY <1>1, <1>3 DEF QueueInv, Empty
    <3>2. \A i \in DOMAIN mirror : Planned[i] = mirror[i]
      BY <1>1, <1>5, <3>1, PlannedFacts
    <3>3. Behind(Planned, T)
      BY <1>10 DEF Tame
    <3>. QED
      BY <1>3, <1>5, <1>11, <3>1, <3>2, <3>3 DEF Behind
  <2>. QED
    BY <1>3, <1>10, <2>1, <2>2, <2>3, MergingPrimed
<1>13. Due(T)' = L
  BY <1>3, <1>7, <1>10, DuePrimed
<1>14. Leads(L)'
  BY <1>3, <1>9, LeadsPrimed
<1>15. Promise'
  BY <1>3, <1>12, <1>13, <1>14 DEF Promise
<1>. QED
  BY <1>2, <1>4, <1>6, <1>15 DEF HalvesInv

\* The promise is kept by whatever is sent and remembered together.
LEMMA PromiseSent ==
    ASSUME HalvesInv, UNCHANGED <<domVars, world>>, ClientInv',
           \A K : Chain(world, wire, K, parents) => Chain(world, wire', K, parents')
    PROVE  HalvesInv'
<1>1. DomInv /\ ClientInv /\ QueueInv /\ Promise
  BY DEF HalvesInv
<1>2. DomInv'
  BY <1>1, DomStep
<1>3. QueueInv'
  BY <1>1 DEF QueueInv, domVars
<1>4. Planned' = Planned
  BY DEF Planned, domVars
<1>5. UNCHANGED <<mirror, pending, phase, upserts, moves, removals, world>>
  BY DEF domVars
<1>6. \A K : Leads(K) => Leads(K)'
  <2>. TAKE K
  <2>. HAVE Leads(K)
  <2>1. Chain(world', wire', K, parents')
    BY <1>5 DEF Leads
  <2>. QED
    BY <2>1, LeadsPrimed
<1>7. Promise'
  <2>1. CASE phase = "idle"
    BY <1>1, <1>4, <1>5, <1>6, <2>1 DEF Promise
  <2>2. CASE phase # "idle"
    <3>1. PICK T, K : Merging(T) /\ K = Due(T) /\ Leads(K)
      BY <1>1, <2>2 DEF Promise
    <3>2. Due(T)' = Due(T)
      BY <1>4, <1>5, DuePrimed DEF Due
    <3>3. Merging(T)'
      BY <1>5, <3>1, MergingPrimed DEF Merging
    <3>. QED
      BY <1>5, <1>6, <2>2, <3>1, <3>2, <3>3 DEF Promise
  <2>. QED
    BY <2>1, <2>2
<1>. QED
  BY <1>2, <1>3, <1>7 DEF HalvesInv

\* Every order of a set names all of it.
LEMMA OrderOf ==
    ASSUME NEW S \in SUBSET Nodes, NEW list \in SetToSeqs(S)
    PROVE  list \in Seq(S) /\ ToSet(list) = S
<1>. DEFINE n == Cardinality(S)
            D == 1..n
<1>1. IsFiniteSet(S)
  BY NodesAssumption, FS_Subset
<1>2. n \in Nat
  BY <1>1, FS_CardinalityType
<1>3. list \in [D -> S] /\ \A i, j \in D : i # j => list[i] # list[j]
  BY DEF SetToSeqs
<1>. HIDE DEF n
<1>4. list \in Seq(S) /\ DOMAIN list = D
  BY <1>2, <1>3
<1>5. ASSUME NEW x \in S, x \notin ToSet(list) PROVE FALSE
  <2>. DEFINE U == S \ {x}
  <2>1. IsFiniteSet(U) /\ Cardinality(U) = n - 1
    BY <1>1, FS_RemoveElement DEF n
  <2>2. IsFiniteSet(D) /\ Cardinality(D) = n
    <3>1. 1 \in Int /\ n \in Int
      BY <1>2
    <3>2. IsFiniteSet(1..n) /\ Cardinality(1..n) = IF 1 > n THEN 0 ELSE n - 1 + 1
      BY <3>1, FS_Interval
    <3>. QED
      BY <1>2, <3>2
  <2>3. list \in [D -> U]
    BY <1>3, <1>5 DEF ToSet
  <2>. HIDE DEF U, D
  <2>4. Cardinality(U) < Cardinality(D)
    BY <1>2, <2>1, <2>2
  <2>5. \E i, j \in D : i # j /\ list[i] = list[j]
    BY <2>1, <2>2, <2>3, <2>4, FS_PigeonHole
  <2>. QED
    BY <1>3, <2>5
<1>6. ToSet(list) \subseteq S
  BY <1>3, <1>4 DEF ToSet
<1>. QED
  BY <1>4, <1>5, <1>6

\* A patch that tells of the game, from there on or from a step before.
LEMMA SendHalves ==
    ASSUME HalvesInv, NEW tree, OfGame(tree), NEW S \in SUBSET Nodes,
           "move" \in world => S \subseteq DOMAIN tree /\ DOMAIN parents \subseteq DOMAIN tree,
           "move" \notin world => Behind(parents, tree),
           NEW sent, Sendable(S, tree, DOMAIN parents, sent), Send(tree, sent),
           live' = tree, UNCHANGED <<world, domVars>>
    PROVE  HalvesInv'
<1>. DEFINE patch == Patch(Records(tree, sent), {})
            K == Remembered(tree, sent)
<1>1. ClientInv /\ Calm(world) /\ Partial(parents) /\ Rooted(parents) /\ wire \in Seq(Patches)
  BY DEF HalvesInv, ClientInv
<1>2. parents' = K /\ wire' = Append(wire, patch)
  BY DEF Send
<1>3. "move" \in world \/ Behind(parents, tree)
  OBVIOUS
<1>. HIDE DEF patch, K
<1>4. /\ patch \in Patches /\ Merges(world, patch, parents, K)
      /\ Partial(K) /\ Rooted(K) /\ DOMAIN K = ToSet(sent) \cup DOMAIN parents
      /\ ToSet(sent) \subseteq S
      /\ Behind(parents, tree) => Behind(K, tree)
  <2>1. K = Remembered(tree, sent) /\ patch = Patch(Records(tree, sent), {})
    BY DEF K, patch
  <2>. QED
    BY <1>1, <1>3, <2>1, SendFacts, SendMerges
<1>5. ClientInv'
  <2>1. wire' \in Seq(Patches)
    BY <1>1, <1>2, <1>4
  <2>2. IF "move" \in world THEN DOMAIN K \subseteq DOMAIN tree ELSE Behind(K, tree)
    BY <1>4
  <2>3. /\ Calm(world') /\ OfGame(live') /\ Partial(parents') /\ Rooted(parents')
        /\ IF "move" \in world' THEN DOMAIN parents' \subseteq DOMAIN live' ELSE Behind(parents', live')
    BY <1>1, <1>2, <1>4, <2>2
  <2>. QED
    BY <2>1, <2>3 DEF ClientInv, Calm, OfGame, IsForest, Partial, Rooted, Behind, At
<1>6. ASSUME NEW L, Chain(world, wire, L, parents) PROVE Chain(world, wire', L, parents')
  BY <1>1, <1>2, <1>4, <1>6, ChainAppend
<1>. QED
  BY <1>5, <1>6, PromiseSent

LEMMA EnterHalves ==
    ASSUME HalvesInv, NEW i \in Nodes, NEW p \in Places, Enter(i, p) \/ EnterWatched(i, p)
    PROVE  HalvesInv'
<1>. DEFINE new == Put(live, i, p)
<1>1. /\ ClientInv /\ Calm(world) /\ OfGame(live) /\ Partial(parents) /\ Rooted(parents)
      /\ IF "move" \in world THEN DOMAIN parents \subseteq DOMAIN live ELSE Behind(parents, live)
      /\ wire \in Seq(Patches)
  BY DEF HalvesInv, ClientInv
<1>2. /\ i \notin DOMAIN live /\ p \in DOMAIN live \cup {Root} /\ live' = new
      /\ UNCHANGED <<world, domVars>>
  BY DEF Enter, EnterWatched, Inside
<1>3. /\ DOMAIN new = DOMAIN live \cup {i} /\ \A j \in DOMAIN live : new[j] = live[j]
      /\ Partial(new)
  BY <1>1, <1>2 DEF Put, OfGame, Partial
<1>4. OfGame(new)
  <2>1. IsForest(new)
    BY <1>1, <1>2, ForestPut DEF OfGame, Partial
  <2>. QED
    BY <1>3, <2>1 DEF OfGame
<1>. HIDE DEF new
<1>5. /\ "move" \in world => DOMAIN parents \subseteq DOMAIN new
      /\ "move" \notin world => Behind(parents, new)
  <2>1. ASSUME "move" \notin world PROVE Behind(parents, new)
    <3>1. \A j \in DOMAIN parents : parents[j] \in {At(live, j), Root}
      BY <1>1, <2>1 DEF Behind
    <3>2. \A j \in DOMAIN parents : At(live, j) \in {At(new, j), Root}
      BY <1>2, <1>3 DEF At
    <3>. QED
      BY <3>1, <3>2 DEF Behind
  <2>. QED
    BY <1>1, <1>3, <2>1
<1>6. CASE Enter(i, p)
  <2>1. UNCHANGED <<parents, wire>>
    BY <1>6 DEF Enter
  <2>2. ClientInv'
    <3>1. /\ Calm(world') /\ OfGame(live') /\ Partial(parents') /\ Rooted(parents')
          /\ IF "move" \in world' THEN DOMAIN parents' \subseteq DOMAIN live' ELSE Behind(parents', live')
          /\ wire' \in Seq(Patches)
      BY <1>1, <1>2, <1>4, <1>5, <2>1
    <3>. QED
      BY <3>1 DEF ClientInv, Calm, OfGame, IsForest, Partial, Rooted, Behind, At
  <2>3. \A K : Chain(world, wire, K, parents) => Chain(world, wire', K, parents')
    BY <2>1
  <2>. QED
    BY <1>2, <2>2, <2>3, PromiseSent
<1>7. CASE EnterWatched(i, p)
  <2>. DEFINE sent == Mirrored(new, DOMAIN parents, i)
              S == DOMAIN new
  <2>1. Send(new, sent)
    <3>1. Send(live', Mirrored(live', DOMAIN parents, i))
      BY <1>7 DEF EnterWatched
    <3>. QED
      BY <1>2, <3>1
  <2>2. S \in SUBSET Nodes /\ i \in S /\ DOMAIN new \subseteq S
    BY <1>3, <1>4 DEF OfGame, Partial
  <2>3. Sendable(S, new, DOMAIN parents, sent)
    <3>. HIDE DEF S
    <3>. QED
      BY <1>4, <2>2, MirroredSendable
  <2>. HIDE DEF sent
  <2>4. "move" \in world => S \subseteq DOMAIN new /\ DOMAIN parents \subseteq DOMAIN new
    BY <1>5
  <2>. HIDE DEF S
  <2>. QED
    BY <1>2, <1>4, <1>5, <2>1, <2>2, <2>3, <2>4, SendHalves
<1>. QED
  BY <1>6, <1>7

LEMMA MoveHalves ==
    ASSUME HalvesInv, NEW i \in Nodes, NEW p \in Places, Move(i, p)
    PROVE  HalvesInv'
<1>1. /\ ClientInv /\ Calm(world) /\ OfGame(live) /\ Partial(parents) /\ Rooted(parents)
      /\ "move" \in world /\ DOMAIN parents \subseteq DOMAIN live
      /\ wire \in Seq(Patches)
  BY DEF HalvesInv, ClientInv, Move
<1>2. /\ i \in DOMAIN live /\ p \in DOMAIN live \cup {Root} /\ p \notin Subtree(live, i)
      /\ live' = [live EXCEPT ![i] = p] /\ UNCHANGED <<world, parents, wire, domVars>>
  BY DEF Move, Inside
<1>3. p # Root => ~ Reaches(live, p, i)
  BY <1>2 DEF Subtree
<1>4. IsForest([live EXCEPT ![i] = p])
  BY <1>1, <1>2, <1>3, ForestMove DEF OfGame, Partial
<1>5. Partial([live EXCEPT ![i] = p]) /\ DOMAIN [live EXCEPT ![i] = p] = DOMAIN live
  BY <1>1, <1>2 DEF OfGame, Partial
<1>6. OfGame(live') /\ DOMAIN live' = DOMAIN live
  BY <1>2, <1>4, <1>5 DEF OfGame
<1>7. ClientInv'
  <2>1. /\ Calm(world') /\ OfGame(live') /\ Partial(parents') /\ Rooted(parents')
        /\ "move" \in world' /\ DOMAIN parents' \subseteq DOMAIN live' /\ wire' \in Seq(Patches)
    BY <1>1, <1>2, <1>6
  <2>. QED
    BY <2>1 DEF ClientInv, Calm, OfGame, IsForest, Partial, Rooted, Behind, At
<1>. QED
  BY <1>2, <1>7, PromiseSent

\* A list of instances of the game, or, where none moves, of any.
LEMMA ListHalves ==
    ASSUME HalvesInv, NEW S \in SUBSET Nodes, DOMAIN live \subseteq S,
           "move" \in world => S \subseteq DOMAIN live,
           NEW list \in Seq(S), Send(live, MirrorList(list)),
           UNCHANGED <<world, live, domVars>>
    PROVE  HalvesInv'
<1>1. /\ OfGame(live)
      /\ IF "move" \in world THEN DOMAIN parents \subseteq DOMAIN live ELSE Behind(parents, live)
  BY DEF HalvesInv, ClientInv
<1>. DEFINE sent == MirrorList(list)
<1>2. Sendable(S, live, DOMAIN parents, sent)
  BY <1>1, MirrorListSendable
<1>3. Send(live, sent) /\ live' = live
  OBVIOUS
<1>. HIDE DEF sent
<1>. QED
  BY <1>1, <1>2, <1>3, SendHalves

LEMMA SyncHalves ==
    ASSUME HalvesInv,
           \/ \E S \in SUBSET Nodes : SyncNodes(S)
           \/ \E i \in Nodes : SyncRef(i)
           \/ \E p \in Places : SyncChildren(p)
    PROVE  HalvesInv'
<1>1. DOMAIN live \in SUBSET Nodes /\ Calm(world)
  BY DEF HalvesInv, ClientInv, OfGame, Partial
<1>2. ASSUME NEW S \in SUBSET Nodes, SyncNodes(S) PROVE HalvesInv'
  <2>1. PICK list \in SetToSeqs(S) : Send(live, MirrorList(list))
    BY <1>2 DEF SyncNodes
  <2>2. S \subseteq DOMAIN live /\ UNCHANGED <<world, live, domVars>>
    BY <1>2 DEF SyncNodes
  <2>3. list \in Seq(S)
    BY OrderOf
  <2>4. list \in Seq(DOMAIN live)
    BY <2>2, <2>3
  <2>. QED
    BY <1>1, <2>1, <2>2, <2>4, ListHalves
<1>3. ASSUME NEW i \in Nodes, SyncRef(i) PROVE HalvesInv'
  <2>1. "move" \notin world
    BY <1>1, <1>3 DEF SyncRef, Calm
  <2>. DEFINE list == <<i>>
  <2>2. Send(live, MirrorList(list)) /\ UNCHANGED <<world, live, domVars>>
    BY <1>3 DEF SyncRef
  <2>3. list \in Seq(Nodes)
    OBVIOUS
  <2>. HIDE DEF list
  <2>. QED
    BY <1>1, <2>1, <2>2, <2>3, ListHalves
<1>4. ASSUME NEW p \in Places, SyncChildren(p) PROVE HalvesInv'
  <2>. DEFINE under == {i \in DOMAIN live : live[i] = p}
  <2>1. PICK children \in SetToSeqs(under) :
          Send(live, MirrorList((IF p = Root THEN <<>> ELSE <<p>>) \o children))
    BY <1>4 DEF SyncChildren
  <2>2. p \in DOMAIN live \cup {Root} /\ UNCHANGED <<world, live, domVars>>
    BY <1>4 DEF SyncChildren
  <2>3. under \in SUBSET Nodes /\ under \subseteq DOMAIN live
    BY <1>1
  <2>4. children \in Seq(under)
    <3>. HIDE DEF under
    <3>. QED
      BY <2>3, OrderOf
  <2>5. children \in Seq(DOMAIN live)
    <3>. HIDE DEF under
    <3>. QED
      BY <2>3, <2>4
  <2>. DEFINE first == IF p = Root THEN <<>> ELSE <<p>>
              list == first \o children
  <2>6. first \in Seq(DOMAIN live)
    <3>1. CASE p = Root
      BY <3>1
    <3>2. CASE p # Root
      <4>1. p \in DOMAIN live
        BY <2>2, <3>2
      <4>2. <<p>> \in Seq(DOMAIN live)
        BY <4>1
      <4>. QED
        BY <3>2, <4>2
    <3>. QED
      BY <3>1, <3>2
  <2>. HIDE DEF first
  <2>7. list \in Seq(DOMAIN live)
    BY <2>5, <2>6
  <2>8. Send(live, MirrorList(list))
    BY <2>1 DEF first
  <2>. HIDE DEF list
  <2>. QED
    BY <1>1, <2>2, <2>7, <2>8, ListHalves
<1>. QED
  BY <1>2, <1>3, <1>4

LEMMA SnapshotHalves == HalvesInv /\ SyncSnapshot => HalvesInv'
<1>. SUFFICES ASSUME HalvesInv, SyncSnapshot PROVE HalvesInv'
  OBVIOUS
<1>1. /\ ClientInv /\ Calm(world) /\ OfGame(live) /\ Partial(parents) /\ Rooted(parents)
      /\ IF "move" \in world THEN DOMAIN parents \subseteq DOMAIN live ELSE Behind(parents, live)
      /\ wire \in Seq(Patches) /\ DOMAIN live \in SUBSET Nodes /\ DOMAIN parents \subseteq Nodes
  BY DEF HalvesInv, ClientInv, OfGame, Partial
<1>. DEFINE gone == DOMAIN parents \ DOMAIN live
<1>2. PICK list \in TopDown(DOMAIN live), stale \in SetToSeqs(gone) :
        LET sent  == MirrorList(list)
            after == RemoveEach(Remembered(live, sent), stale)
        IN  /\ parents' = after.known
            /\ wire' = Append(wire, Patch(Records(live, sent), ToSet(after.ids)))
  BY DEF SyncSnapshot
<1>3. UNCHANGED <<world, live, domVars>>
  BY DEF SyncSnapshot
<1>4. list \in Seq(DOMAIN live)
  BY <1>1, OrderOf DEF TopDown
<1>5. stale \in Seq(Nodes) /\ ToSet(stale) = gone
  <2>1. gone \in SUBSET Nodes
    BY <1>1
  <2>. HIDE DEF gone
  <2>2. stale \in Seq(gone) /\ ToSet(stale) = gone
    BY <2>1, OrderOf
  <2>. QED
    BY <2>1, <2>2
<1>. DEFINE sent == MirrorList(list)
            K == Remembered(live, sent)
            after == RemoveEach(K, stale)
            R == ToSet(after.ids)
            patch == Patch(Records(live, sent), R)
<1>6. parents' = after.known /\ wire' = Append(wire, patch)
  BY <1>2
<1>7. Sendable(DOMAIN live, live, DOMAIN parents, sent)
  BY <1>1, <1>4, MirrorListSendable
<1>. HIDE DEF sent
<1>8. /\ Partial(K) /\ Rooted(K) /\ DOMAIN K = ToSet(sent) \cup DOMAIN parents
      /\ ToSet(sent) \subseteq DOMAIN live /\ K = Told(live, ToSet(sent), parents)
      /\ Behind(parents, live) => Behind(K, live)
  <2>. DEFINE S == DOMAIN live
  <2>1. K = Remembered(live, sent)
    OBVIOUS
  <2>2. S \in SUBSET Nodes /\ Sendable(S, live, DOMAIN parents, sent)
    BY <1>1, <1>7
  <2>3. OfGame(live) /\ Partial(parents) /\ Rooted(parents)
    BY <1>1
  <2>. HIDE DEF K, S, gone, after
  <2>4. /\ Partial(K) /\ Rooted(K) /\ DOMAIN K = ToSet(sent) \cup DOMAIN parents
        /\ ToSet(sent) \subseteq S /\ K = Told(live, ToSet(sent), parents)
        /\ Behind(parents, live) => Behind(K, live)
    BY <2>1, <2>2, <2>3, SendFacts
  <2>. QED
    BY <2>4 DEF S
<1>. HIDE DEF K
<1>9. /\ Records(live, sent) \in Seq(Upserts) /\ Ids(Records(live, sent)) = ToSet(sent)
      /\ Fits(live, DOMAIN parents, Records(live, sent))
  <2>. DEFINE S == DOMAIN live
              known == DOMAIN parents
  <2>1. S \in SUBSET Nodes /\ Partial(live) /\ Sendable(S, live, known, sent)
    BY <1>1, <1>7 DEF OfGame
  <2>. HIDE DEF S, known
  <2>2. /\ Records(live, sent) \in Seq(Upserts) /\ Ids(Records(live, sent)) = ToSet(sent)
        /\ Fits(live, known, Records(live, sent))
    BY <2>1, RecordsFit
  <2>. QED
    BY <2>2 DEF known
<1>10. /\ after.ids \in Seq(Nodes) /\ R \subseteq gone
       /\ after.known = Minus(K, R)
  <2>1. after = RemoveEach(K, stale)
    OBVIOUS
  <2>. HIDE DEF after, gone
  <2>. QED
    BY <1>5, <1>8, <2>1, RemovesTogether
<1>. HIDE DEF after
<1>11. R \in SUBSET Nodes
  BY <1>1, <1>10
<1>. HIDE DEF R
<1>12. patch.upserts = Records(live, sent) /\ patch.removals = R /\ patch \in Patches
  BY <1>9, <1>11 DEF Patch, Patches
<1>. HIDE DEF patch
<1>13. Tame(world, live, parents, R)
  BY <1>1, <1>10 DEF Tame
<1>14. Merges(world, patch, parents, after.known)
  <2>1. after.known = Minus(Told(live, Ids(patch.upserts), parents), patch.removals)
    BY <1>8, <1>9, <1>10, <1>12
  <2>. QED
    BY <1>1, <1>9, <1>12, <1>13, <2>1 DEF Merges
<1>15. /\ Partial(after.known) /\ Rooted(after.known) /\ DOMAIN after.known \subseteq DOMAIN K
       /\ Behind(K, live) => Behind(after.known, live)
  <2>. DEFINE L == Minus(K, R)
  <2>1. Partial(L) /\ Rooted(L) /\ DOMAIN L \subseteq DOMAIN K
    BY <1>8, MinusFacts
  <2>2. Behind(K, live) => Behind(L, live)
    BY <1>8, BehindMinus
  <2>. QED
    BY <1>10, <2>1, <2>2
<1>16. ClientInv'
  <2>1. wire' \in Seq(Patches)
    BY <1>1, <1>6, <1>12
  <2>2. /\ Calm(world') /\ OfGame(live') /\ Partial(parents') /\ Rooted(parents')
        /\ IF "move" \in world' THEN DOMAIN parents' \subseteq DOMAIN live' ELSE Behind(parents', live')
    BY <1>1, <1>3, <1>6, <1>8, <1>15
  <2>. QED
    BY <2>1, <2>2 DEF ClientInv, Calm, OfGame, IsForest, Partial, Rooted, Behind, At
<1>17. ASSUME NEW L, Chain(world, wire, L, parents) PROVE Chain(world, wire', L, parents')
  BY <1>1, <1>6, <1>12, <1>14, <1>17, ChainAppend
<1>. QED
  BY <1>3, <1>16, <1>17, PromiseSent

LEMMA LeaveHalves == ASSUME HalvesInv, NEW i \in Nodes, Leave(i) PROVE HalvesInv'
<1>1. /\ ClientInv /\ Calm(world) /\ OfGame(live) /\ Partial(parents) /\ Rooted(parents)
      /\ "move" \notin world /\ Behind(parents, live)
      /\ wire \in Seq(Patches) /\ DOMAIN live \in SUBSET Nodes
  BY DEF HalvesInv, ClientInv, OfGame, Partial, Leave, Calm
<1>. DEFINE out == Subtree(live, i)
            left == DOMAIN live \ out
<1>2. PICK list \in TopDown(out) :
        LET after == RemoveEach(parents, list)
        IN  /\ parents' = after.known
            /\ wire' = wire \o [k \in DOMAIN after.ids |-> Patch(<<>>, {after.ids[k]})]
  BY DEF Leave
<1>3. live' = Restrict(live, left) /\ UNCHANGED <<world, domVars>>
  BY DEF Leave
<1>4. list \in Seq(Nodes) /\ ToSet(list) = out
  <2>1. out \in SUBSET Nodes
    BY <1>1 DEF Subtree
  <2>. HIDE DEF out
  <2>2. list \in Seq(out) /\ ToSet(list) = out
    BY <2>1, OrderOf DEF TopDown
  <2>. QED
    BY <2>1, <2>2
<1>. DEFINE after == RemoveEach(parents, list)
<1>5. parents' = after.known /\ wire' = Drops(wire, after.ids)
  BY <1>2 DEF Drops, Drop
<1>6. after = RemoveEach(parents, list)
  OBVIOUS
<1>. HIDE DEF after, out
<1>7. /\ Drops(wire, after.ids) \in Seq(Patches)
      /\ Partial(after.known) /\ Rooted(after.known) /\ Behind(after.known, live)
      /\ \A K : Chain(world, wire, K, parents) => Chain(world, Drops(wire, after.ids), K, after.known)
  <2>1. \A K : Chain(world, wire, K, parents) => Chain(world, Drops(wire, after.ids), K, after.known)
    BY <1>1, <1>4, <1>6, DropsChain
  <2>3. Partial(after.known) /\ Rooted(after.known) /\ Behind(after.known, live)
    <3>. DEFINE L == Minus(parents, ToSet(after.ids))
    <3>1. after.known = L
      BY <1>1, <1>4, <1>6, RemovesTogether
    <3>2. Partial(L) /\ Rooted(L)
      BY <1>1, MinusFacts
    <3>3. Behind(L, live)
      BY <1>1, BehindMinus
    <3>. HIDE DEF L
    <3>. QED
      BY <3>1, <3>2, <3>3
  <2>4. Drops(wire, after.ids) \in Seq(Patches)
    <3>1. after.ids \in Seq(Nodes)
      BY <1>1, <1>4, <1>6, RemovesTogether
    <3>. QED
      BY <1>1, <3>1, DropsTyped
  <2>. QED
    BY <2>1, <2>3, <2>4
<1>8. DOMAIN after.known \cap out = {}
  BY <1>1, <1>4, <1>6, RemovesTogether
<1>9. OfGame(live') /\ DOMAIN live' = left /\ \A j \in left : live'[j] = live[j]
  <2>1. left = DOMAIN live \ UNION {Subtree(live, r) : r \in {i}}
    BY DEF out
  <2>2. IsForest(Restrict(live, left))
    <3>. HIDE DEF left
    <3>. QED
      BY <1>1, <2>1, ForestPrune DEF OfGame, Partial
  <2>3. Partial(Restrict(live, left)) /\ DOMAIN Restrict(live, left) = left
        /\ \A j \in left : Restrict(live, left)[j] = live[j]
    BY <1>1, PartialRestrict DEF OfGame
  <2>. QED
    BY <1>3, <2>2, <2>3 DEF OfGame
<1>10. Behind(after.known, live')
  <2>1. \A j \in DOMAIN after.known : after.known[j] \in {At(live, j), Root}
    BY <1>7 DEF Behind
  <2>2. \A j \in DOMAIN after.known : At(live', j) = At(live, j)
    BY <1>8, <1>9 DEF At
  <2>. QED
    BY <2>1, <2>2 DEF Behind
<1>11. ClientInv'
  <2>1. /\ Calm(world') /\ OfGame(live') /\ Partial(parents') /\ Rooted(parents')
        /\ "move" \notin world' /\ Behind(parents', live') /\ wire' \in Seq(Patches)
    BY <1>1, <1>3, <1>5, <1>7, <1>9, <1>10
  <2>. QED
    BY <2>1 DEF ClientInv, Calm, OfGame, IsForest, Partial, Rooted, Behind, At
<1>12. \A K : Chain(world, wire, K, parents) => Chain(world, wire', K, parents')
  BY <1>5, <1>7
<1>. QED
  BY <1>3, <1>11, <1>12, PromiseSent

(***************************************************************************)
(* What the two halves agree on.                                           *)
(***************************************************************************)
LEMMA HalvesInit == ASSUME \A w \in Worlds : Calm(w), Init PROVE HalvesInv
<1>1. /\ DomInit /\ world \in Worlds /\ live = Empty /\ parents = Empty /\ wire = <<>>
      /\ mirror = Empty /\ pending = Empty /\ moves = Empty /\ phase = "idle" /\ upserts = <<>>
  BY DEF Init, DomInit
<1>2. DomInv
  BY <1>1, DomInitInv
<1>3. DOMAIN Empty = {}
  BY DEF Empty
<1>4. OfGame(live) /\ Partial(parents) /\ Rooted(parents) /\ Behind(parents, live)
  BY <1>1, <1>3 DEF OfGame, IsForest, Partial, Rooted, Behind
<1>5. ClientInv
  BY <1>1, <1>3, <1>4 DEF ClientInv
<1>6. QueueInv
  BY <1>1, <1>3 DEF QueueInv
<1>7. Planned = parents
  BY <1>1, <1>3 DEF Planned, Over, Empty
<1>8. Promise
  <2>1. Chain(world, wire, Planned, parents)
    BY <1>1, <1>7, ChainNone
  <2>. QED
    BY <1>1, <2>1 DEF Promise, Leads
<1>. QED
  BY <1>2, <1>5, <1>6, <1>8 DEF HalvesInv

LEMMA HalvesStep == HalvesInv /\ [Next]_vars => HalvesInv'
<1>. SUFFICES ASSUME HalvesInv, [Next]_vars PROVE HalvesInv'
  OBVIOUS
<1>1. CASE Game
  BY <1>1, EnterHalves, MoveHalves, LeaveHalves DEF Game
<1>2. CASE Client
  BY <1>2, SyncHalves, SnapshotHalves DEF Client
<1>3. CASE Receive
  BY <1>3, ReceiveHalves
<1>4. CASE Apply
  BY <1>4, ApplyHalves DEF Apply
<1>5. CASE UNCHANGED vars
  <2>1. UNCHANGED <<domVars, syncVars>> /\ UNCHANGED <<domVars, world, wire, parents>>
    BY <1>5 DEF vars, syncVars
  <2>2. ClientInv'
    BY <2>1, ClientInvKept DEF HalvesInv
  <2>3. \A K : Chain(world, wire, K, parents) => Chain(world, wire', K, parents')
    BY <2>1
  <2>. QED
    BY <2>1, <2>2, <2>3, PromiseSent
<1>. QED
  BY <1>1, <1>2, <1>3, <1>4, <1>5 DEF Next

LEMMA HalvesInvariant == (\A w \in Worlds : Calm(w)) /\ Spec => []HalvesInv
<1>1. (\A w \in Worlds : Calm(w)) /\ Init => HalvesInv
  BY HalvesInit
<1>. QED
  BY <1>1, HalvesStep, PTL DEF Spec

\* With nothing on its way, what is planned is what the client remembers.
LEMMA DrainedPlan ==
    ASSUME HalvesInv, Drained
    PROVE  /\ DOMAIN mirror = DOMAIN parents
           /\ \A i \in DOMAIN parents :
                 parents[i] = IF i \in DOMAIN pending THEN pending[i] ELSE mirror[i]
<1>1. DomInv /\ wire = <<>> /\ phase = "idle"
  BY DEF HalvesInv, Drained
<1>2. Planned = parents
  <2>1. Chain(world, wire, Planned, parents)
    BY <1>1 DEF HalvesInv, Promise, Leads
  <2>. QED
    BY <1>1, <2>1, ChainNone
<1>3. DOMAIN moves = {}
  BY <1>1 DEF DomInv, QueuedIsMirrored, Empty
<1>. QED
  BY <1>1, <1>2, <1>3, PlannedFacts

\* Moves wait for one another only where what they ask for is no tree.
LEMMA NoneWaits ==
    ASSUME NEW T, OfGame(T), NEW P, Partial(P), Rooted(P),
           DOMAIN P \subseteq DOMAIN T, \A i \in DOMAIN P : P[i] = T[i],
           NEW m, DOMAIN m = DOMAIN P, NEW q, DOMAIN q \subseteq DOMAIN P,
           \A i \in DOMAIN P : P[i] = IF i \in DOMAIN q THEN q[i] ELSE m[i],
           \A i \in DOMAIN q : q[i] # Root /\ Reaches(m, q[i], i)
    PROVE  DOMAIN q = {}
<1>. SUFFICES ASSUME DOMAIN q # {} PROVE FALSE
  OBVIOUS
<1>. DEFINE W == {j \in DOMAIN P : \E k \in DOMAIN q : Reaches(P, j, k)}
            C == DOMAIN P \ W
<1>1. DOMAIN P \subseteq Nodes
  BY DEF Partial
<1>2. DOMAIN q \subseteq W
  BY DEF Reaches
<1>3. \A j \in DOMAIN P : P[j] \in W => j \in W
  <2>. SUFFICES ASSUME NEW j \in DOMAIN P, P[j] \in W PROVE j \in W
    OBVIOUS
  <2>1. PICK k \in DOMAIN q : Reaches(P, P[j], k)
    OBVIOUS
  <2>2. P[j] # Root
    BY <1>1, TreesAssumption
  <2>3. Reaches(P, j, k)
    BY <2>1, <2>2 DEF Reaches, Closed
  <2>. QED
    BY <2>3
<1>4. PICK j \in W : T[j] \notin W
  <2>1. W \in SUBSET DOMAIN T /\ W # {}
    BY <1>2
  <2>. HIDE DEF W
  <2>. QED
    BY <2>1 DEF OfGame, IsForest
<1>5. j \in DOMAIN P /\ P[j] \notin W
  BY <1>4
<1>6. j \in DOMAIN q
  <2>. SUFFICES ASSUME j \notin DOMAIN q PROVE FALSE
    OBVIOUS
  <2>1. PICK k \in DOMAIN q : Reaches(P, j, k)
    BY <1>4
  <2>2. k # j
    OBVIOUS
  <2>3. P[j] # Root
    <3>1. SUFFICES ASSUME P[j] = Root PROVE FALSE
      OBVIOUS
    <3>2. Closed(P, {j}) /\ {j} \in SUBSET Nodes
      BY <1>1, <1>5, <3>1 DEF Closed
    <3>. QED
      BY <2>1, <2>2, <3>2 DEF Reaches
  <2>4. Reaches(P, P[j], k)
    <3>. SUFFICES ASSUME NEW S \in SUBSET Nodes, P[j] \in S, Closed(P, S) PROVE k \in S
      BY DEF Reaches
    <3>1. Closed(P, S \cup {j}) /\ S \cup {j} \in SUBSET Nodes
      BY <1>1, <1>5 DEF Closed
    <3>. QED
      BY <2>1, <2>2, <3>1 DEF Reaches
  <2>5. P[j] \in DOMAIN P
    BY <1>5, <2>3 DEF Rooted
  <2>. QED
    BY <1>5, <2>4, <2>5
<1>7. Closed(m, C)
  <2>. SUFFICES ASSUME NEW i \in C PROVE m[i] \in C \cup {Root}
    BY DEF Closed
  <2>1. i \in DOMAIN P /\ i \notin W /\ m[i] = P[i]
    BY <1>2
  <2>2. P[i] \notin W
    BY <1>3, <2>1
  <2>. QED
    BY <2>1, <2>2 DEF Rooted
<1>8. q[j] \in C /\ C \in SUBSET Nodes /\ j \notin C
  <2>1. q[j] = P[j] /\ q[j] # Root
    BY <1>5, <1>6
  <2>2. P[j] \in DOMAIN P
    BY <1>5, <2>1 DEF Rooted
  <2>. QED
    BY <1>1, <1>4, <1>5, <2>1, <2>2
<1>. HIDE DEF C
<1>. QED
  BY <1>6, <1>7, <1>8 DEF Reaches

\* Between patches, once nothing is on its way, the broker mirrors what the client
\* believes it mirrors, where the client said it is or with the move there queued: in any
\* game in which instances only come and move, or only come, leave and are referred to,
\* whatever is asked for, in whatever order it is mirrored and its moves are made.
THEOREM HalvesAgreeCorrect == (\A w \in Worlds : Calm(w)) /\ Spec => []HalvesAgree
<1>1. HalvesInv => HalvesAgree
  BY DrainedPlan DEF HalvesAgree
<1>. QED
  BY <1>1, HalvesInvariant, PTL

\* In these games, when what the client remembers is up to date, the mirror is exact and
\* no move waits: deferred moves that ask for a tree always come out.
THEOREM FreshIsExactCorrect == (\A w \in Worlds : Calm(w)) /\ Spec => []FreshIsExact
<1>1. HalvesInv => FreshIsExact
  <2>. SUFFICES ASSUME HalvesInv, Drained, DOMAIN parents \subseteq DOMAIN live,
                       \A i \in DOMAIN parents : parents[i] = live[i]
                PROVE  mirror = parents /\ pending = Empty
    BY DEF FreshIsExact
  <2>1. /\ DOMAIN mirror = DOMAIN parents
        /\ \A i \in DOMAIN parents :
              parents[i] = IF i \in DOMAIN pending THEN pending[i] ELSE mirror[i]
    BY DrainedPlan
  <2>2. /\ OfGame(live) /\ Partial(parents) /\ Rooted(parents)
        /\ Partial(mirror) /\ Partial(pending) /\ DOMAIN pending \subseteq DOMAIN mirror
    BY DEF HalvesInv, ClientInv, DomInv, DomTypeOK, QueuedIsMirrored
  <2>3. \A i \in DOMAIN pending : pending[i] # Root /\ Reaches(mirror, pending[i], i)
    BY DEF HalvesInv, DomInv, DeferredIsBlocked, Blocked, Drained
  <2>4. DOMAIN pending = {}
    BY <2>1, <2>2, <2>3, NoneWaits
  <2>5. pending = Empty
    BY <2>2, <2>4 DEF Partial, Empty
  <2>6. mirror = parents
    BY <2>1, <2>2, <2>4, PartialExt
  <2>. QED
    BY <2>5, <2>6
<1>. QED
  BY <1>1, HalvesInvariant, PTL

(***************************************************************************)
(* In any game, the client is one of those the broker's mirror is safe     *)
(* with.                                                                   *)
(***************************************************************************)
\* Everything the client sends is a patch.
WireInv == OfGame(live) /\ Partial(parents) /\ Rooted(parents) /\ wire \in Seq(Patches)

LEMMA WirePrimed ==
    ASSUME OfGame(live'), Partial(parents'), Rooted(parents'), wire' \in Seq(Patches)
    PROVE  WireInv'
BY DEF WireInv, OfGame, IsForest, Partial, Rooted

LEMMA SendWire ==
    ASSUME WireInv, NEW tree, OfGame(tree), live' = tree,
           NEW sent, Sendable(Nodes, tree, DOMAIN parents, sent), Send(tree, sent)
    PROVE  WireInv'
<1>. DEFINE patch == Patch(Records(tree, sent), {})
            K == Remembered(tree, sent)
            S == Nodes
            rules == {"move"}
<1>1. /\ Partial(parents) /\ Rooted(parents) /\ wire \in Seq(Patches)
      /\ parents' = K /\ wire' = Append(wire, patch)
  BY DEF WireInv, Send
<1>2. /\ S \in SUBSET Nodes /\ Sendable(S, tree, DOMAIN parents, sent) /\ "move" \in rules
      /\ patch = Patch(Records(tree, sent), {}) /\ K = Remembered(tree, sent)
  OBVIOUS
<1>. HIDE DEF patch, K, S, rules
<1>3. Partial(K) /\ Rooted(K)
  BY <1>1, <1>2, SendFacts
<1>4. patch \in Patches /\ Merges(rules, patch, parents, Remembered(tree, sent))
  BY <1>1, <1>2, SendMerges
<1>5. wire' \in Seq(Patches)
  BY <1>1, <1>4
<1>. QED
  BY <1>1, <1>3, <1>5, WirePrimed

LEMMA ListWire ==
    ASSUME WireInv, NEW list \in Seq(Nodes), Send(live, MirrorList(list)), UNCHANGED live
    PROVE  WireInv'
<1>. DEFINE S == Nodes
            sent == MirrorList(list)
<1>1. S \in SUBSET Nodes /\ OfGame(live) /\ DOMAIN live \subseteq S /\ list \in Seq(S)
  BY DEF WireInv, OfGame, Partial
<1>2. Sendable(S, live, DOMAIN parents, sent)
  <2>. HIDE DEF S
  <2>. QED
    BY <1>1, MirrorListSendable
<1>3. Sendable(Nodes, live, DOMAIN parents, sent) /\ Send(live, sent) /\ live' = live
  BY <1>2
<1>. HIDE DEF S, sent
<1>. QED
  BY <1>1, <1>3, SendWire

LEMMA EnterWire ==
    ASSUME WireInv, NEW i \in Nodes, NEW p \in Places, Enter(i, p) \/ EnterWatched(i, p)
    PROVE  WireInv'
<1>. DEFINE new == Put(live, i, p)
<1>1. /\ OfGame(live) /\ Partial(parents) /\ Rooted(parents) /\ wire \in Seq(Patches)
      /\ i \notin DOMAIN live /\ p \in DOMAIN live \cup {Root} /\ live' = new
  BY DEF WireInv, Enter, EnterWatched, Inside
<1>2. Partial(new)
  BY <1>1 DEF Put, OfGame, Partial
<1>3. OfGame(new)
  <2>1. IsForest(new)
    BY <1>1, ForestPut DEF OfGame, Partial
  <2>. QED
    BY <1>2, <2>1 DEF OfGame
<1>. HIDE DEF new
<1>4. CASE Enter(i, p)
  BY <1>1, <1>3, <1>4, WirePrimed DEF Enter
<1>5. CASE EnterWatched(i, p)
  <2>. DEFINE sent == Mirrored(new, DOMAIN parents, i)
              S == Nodes
  <2>1. Send(new, sent)
    <3>1. Send(live', Mirrored(live', DOMAIN parents, i))
      BY <1>5 DEF EnterWatched
    <3>. QED
      BY <1>1, <3>1
  <2>2. S \in SUBSET Nodes /\ i \in S /\ DOMAIN new \subseteq S
    BY <1>2 DEF Partial
  <2>3. Sendable(S, new, DOMAIN parents, sent)
    <3>. HIDE DEF S
    <3>. QED
      BY <1>3, <2>2, MirroredSendable
  <2>4. Sendable(Nodes, new, DOMAIN parents, sent)
    BY <2>3
  <2>. HIDE DEF sent, S
  <2>. QED
    BY <1>1, <1>3, <2>1, <2>4, SendWire
<1>. QED
  BY <1>4, <1>5

LEMMA MoveWire == ASSUME WireInv, NEW i \in Nodes, NEW p \in Places, Move(i, p) PROVE WireInv'
<1>1. /\ OfGame(live) /\ Partial(parents) /\ Rooted(parents) /\ wire \in Seq(Patches)
      /\ i \in DOMAIN live /\ p \in DOMAIN live \cup {Root} /\ p \notin Subtree(live, i)
      /\ live' = [live EXCEPT ![i] = p] /\ UNCHANGED <<parents, wire>>
  BY DEF WireInv, Move, Inside
<1>2. p # Root => ~ Reaches(live, p, i)
  BY <1>1 DEF Subtree
<1>3. IsForest([live EXCEPT ![i] = p])
  BY <1>1, <1>2, ForestMove DEF OfGame, Partial
<1>4. Partial([live EXCEPT ![i] = p])
  BY <1>1 DEF OfGame, Partial
<1>5. OfGame(live')
  BY <1>1, <1>3, <1>4 DEF OfGame
<1>. QED
  BY <1>1, <1>5, WirePrimed

LEMMA LeaveWire == ASSUME WireInv, NEW i \in Nodes, Leave(i) PROVE WireInv'
<1>1. /\ OfGame(live) /\ Partial(parents) /\ Rooted(parents) /\ wire \in Seq(Patches)
      /\ Partial(live)
  BY DEF WireInv, OfGame
<1>. DEFINE out == Subtree(live, i)
            left == DOMAIN live \ out
<1>2. PICK list \in TopDown(out) :
        LET after == RemoveEach(parents, list)
        IN  /\ parents' = after.known
            /\ wire' = wire \o [k \in DOMAIN after.ids |-> Patch(<<>>, {after.ids[k]})]
  BY DEF Leave
<1>3. list \in Seq(Nodes)
  <2>1. out \in SUBSET Nodes
    BY <1>1 DEF Subtree, Partial
  <2>. HIDE DEF out
  <2>2. list \in Seq(out)
    BY <2>1, OrderOf DEF TopDown
  <2>. QED
    BY <2>1, <2>2
<1>. DEFINE after == RemoveEach(parents, list)
<1>4. parents' = after.known /\ wire' = Drops(wire, after.ids) /\ after = RemoveEach(parents, list)
  BY <1>2 DEF Drops, Drop
<1>. HIDE DEF after
<1>5. after.known = Minus(parents, ToSet(after.ids)) /\ after.ids \in Seq(Nodes)
  BY <1>1, <1>3, <1>4, RemovesTogether
<1>6. Partial(parents') /\ Rooted(parents')
  <2>. DEFINE L == Minus(parents, ToSet(after.ids))
  <2>1. Partial(L) /\ Rooted(L)
    BY <1>1, MinusFacts
  <2>2. parents' = L
    BY <1>4, <1>5
  <2>. HIDE DEF L
  <2>. QED
    BY <2>1, <2>2
<1>7. wire' \in Seq(Patches)
  BY <1>1, <1>4, <1>5, DropsTyped
<1>8. OfGame(live')
  <2>1. live' = Restrict(live, left) /\ left = DOMAIN live \ UNION {Subtree(live, r) : r \in {i}}
    BY DEF Leave
  <2>2. left \in SUBSET DOMAIN live
    OBVIOUS
  <2>. HIDE DEF left
  <2>3. IsForest(Restrict(live, left))
    BY <1>1, <2>1, ForestPrune DEF OfGame, Partial
  <2>4. Partial(Restrict(live, left))
    BY <1>1, <2>2, PartialRestrict
  <2>. QED
    BY <2>1, <2>3, <2>4 DEF OfGame
<1>. QED
  BY <1>6, <1>7, <1>8, WirePrimed

LEMMA SyncWire ==
    ASSUME WireInv,
           \/ \E S \in SUBSET Nodes : SyncNodes(S)
           \/ \E i \in Nodes : SyncRef(i)
           \/ \E p \in Places : SyncChildren(p)
    PROVE  WireInv'
<1>1. DOMAIN live \in SUBSET Nodes
  BY DEF WireInv, OfGame, Partial
<1>2. ASSUME NEW S \in SUBSET Nodes, SyncNodes(S) PROVE WireInv'
  <2>1. PICK list \in SetToSeqs(S) : Send(live, MirrorList(list))
    BY <1>2 DEF SyncNodes
  <2>2. UNCHANGED live
    BY <1>2 DEF SyncNodes
  <2>3. list \in Seq(S)
    BY OrderOf
  <2>4. list \in Seq(Nodes)
    BY <2>3
  <2>. QED
    BY <2>1, <2>2, <2>4, ListWire
<1>3. ASSUME NEW i \in Nodes, SyncRef(i) PROVE WireInv'
  <2>. DEFINE list == <<i>>
  <2>1. Send(live, MirrorList(list)) /\ UNCHANGED live /\ list \in Seq(Nodes)
    BY <1>3 DEF SyncRef
  <2>. HIDE DEF list
  <2>. QED
    BY <2>1, ListWire
<1>4. ASSUME NEW p \in Places, SyncChildren(p) PROVE WireInv'
  <2>. DEFINE under == {i \in DOMAIN live : live[i] = p}
              first == IF p = Root THEN <<>> ELSE <<p>>
  <2>1. PICK children \in SetToSeqs(under) : Send(live, MirrorList(first \o children))
    BY <1>4 DEF SyncChildren
  <2>2. under \in SUBSET Nodes
    BY <1>1
  <2>3. children \in Seq(Nodes)
    <3>. HIDE DEF under
    <3>1. children \in Seq(under)
      BY <2>2, OrderOf
    <3>. QED
      BY <2>2, <3>1
  <2>4. first \in Seq(Nodes)
    <3>1. CASE p = Root
      BY <3>1
    <3>2. CASE p # Root
      BY <3>2 DEF Places
    <3>. QED
      BY <3>1, <3>2
  <2>. HIDE DEF first
  <2>. DEFINE list == first \o children
  <2>5. list \in Seq(Nodes) /\ Send(live, MirrorList(list)) /\ UNCHANGED live
    BY <1>4, <2>1, <2>3, <2>4 DEF SyncChildren
  <2>. HIDE DEF list
  <2>. QED
    BY <2>5, ListWire
<1>. QED
  BY <1>2, <1>3, <1>4

LEMMA SnapshotWire == WireInv /\ SyncSnapshot => WireInv'
<1>. SUFFICES ASSUME WireInv, SyncSnapshot PROVE WireInv'
  OBVIOUS
<1>1. /\ OfGame(live) /\ Partial(parents) /\ Rooted(parents) /\ wire \in Seq(Patches)
      /\ Partial(live) /\ DOMAIN live \in SUBSET Nodes /\ DOMAIN parents \subseteq Nodes
  BY DEF WireInv, OfGame, Partial
<1>. DEFINE gone == DOMAIN parents \ DOMAIN live
<1>2. PICK list \in TopDown(DOMAIN live), stale \in SetToSeqs(gone) :
        LET sent  == MirrorList(list)
            after == RemoveEach(Remembered(live, sent), stale)
        IN  /\ parents' = after.known
            /\ wire' = Append(wire, Patch(Records(live, sent), ToSet(after.ids)))
  BY DEF SyncSnapshot
<1>3. list \in Seq(DOMAIN live)
  BY <1>1, OrderOf DEF TopDown
<1>4. stale \in Seq(Nodes)
  <2>1. gone \in SUBSET Nodes
    BY <1>1
  <2>. HIDE DEF gone
  <2>2. stale \in Seq(gone)
    BY <2>1, OrderOf
  <2>. QED
    BY <2>1, <2>2
<1>. DEFINE S == DOMAIN live
            sent == MirrorList(list)
            K == Remembered(live, sent)
            after == RemoveEach(K, stale)
            ups == Records(live, sent)
<1>5. parents' = after.known /\ wire' = Append(wire, Patch(ups, ToSet(after.ids)))
  BY <1>2
<1>6. Sendable(DOMAIN live, live, DOMAIN parents, sent)
  BY <1>1, <1>3, MirrorListSendable
<1>7. /\ S \in SUBSET Nodes /\ Sendable(S, live, DOMAIN parents, sent)
      /\ K = Remembered(live, sent) /\ after = RemoveEach(K, stale)
  BY <1>1, <1>6
<1>. HIDE DEF S, sent, K, after
<1>8. Partial(K) /\ Rooted(K)
  BY <1>1, <1>7, SendFacts
<1>9. ups \in Seq(Upserts)
  <2>. DEFINE known == DOMAIN parents
  <2>1. Sendable(S, live, known, sent)
    BY <1>7
  <2>. HIDE DEF known
  <2>. QED
    BY <1>1, <1>7, <2>1, RecordsFit
<1>. HIDE DEF ups
<1>10. after.ids \in Seq(Nodes) /\ after.known = Minus(K, ToSet(after.ids))
  BY <1>4, <1>7, <1>8, RemovesTogether
<1>11. Partial(parents') /\ Rooted(parents')
  <2>. DEFINE L == Minus(K, ToSet(after.ids))
  <2>1. Partial(L) /\ Rooted(L)
    BY <1>8, MinusFacts
  <2>2. parents' = L
    BY <1>5, <1>10
  <2>. HIDE DEF L
  <2>. QED
    BY <2>1, <2>2
<1>12. wire' \in Seq(Patches)
  <2>1. ToSet(after.ids) \subseteq Nodes
    BY <1>10 DEF ToSet
  <2>2. Patch(ups, ToSet(after.ids)) \in Patches
    BY <1>9, <2>1 DEF Patch, Patches
  <2>. QED
    BY <1>1, <1>5, <2>2
<1>13. OfGame(live')
  <2>1. live' = live
    BY DEF SyncSnapshot
  <2>. QED
    BY <1>1, <2>1
<1>. QED
  BY <1>11, <1>12, <1>13, WirePrimed

LEMMA WireInit == Init => WireInv
BY DEF Init, WireInv, OfGame, IsForest, Partial, Rooted, Empty

LEMMA WireStep == WireInv /\ [Next]_vars => WireInv' /\ [AnyPatch \/ ApplyStep]_domVars
<1>. SUFFICES ASSUME WireInv, [Next]_vars
              PROVE  WireInv' /\ [AnyPatch \/ ApplyStep]_domVars
  OBVIOUS
<1>1. OfGame(live) /\ Partial(parents) /\ Rooted(parents) /\ wire \in Seq(Patches)
  BY DEF WireInv
<1>2. CASE Game
  <2>1. UNCHANGED domVars
    BY <1>2 DEF Game, Enter, EnterWatched, Move, Leave
  <2>. QED
    BY <1>2, <2>1, EnterWire, MoveWire, LeaveWire DEF Game
<1>3. CASE Client
  <2>1. UNCHANGED domVars
    BY <1>3 DEF Client, SyncNodes, SyncRef, SyncChildren, SyncSnapshot
  <2>. QED
    BY <1>3, <2>1, SyncWire, SnapshotWire DEF Client
<1>4. CASE Receive
  <2>1. wire # <<>> /\ wire' = Tail(wire) /\ UNCHANGED <<live, parents>>
    BY <1>4 DEF Receive
  <2>2. Head(wire) \in Patches /\ wire' \in Seq(Patches)
    BY <1>1, <2>1, HeadTailProperties
  <2>3. AnyPatch
    BY <1>4, <2>2 DEF Receive, Begin, AnyPatch, Patches
  <2>. QED
    BY <1>1, <2>1, <2>2, <2>3, WirePrimed
<1>5. CASE Apply
  BY <1>1, <1>5, WirePrimed DEF Apply, syncVars
<1>6. CASE UNCHANGED vars
  BY <1>1, <1>6, WirePrimed DEF vars, syncVars
<1>. QED
  BY <1>2, <1>3, <1>4, <1>5, <1>6 DEF Next

\* Composed with the client, the game and the wire, in any game, the broker's mirror does
\* nothing that it does not do given any patches: what holds of it by itself holds here.
THEOREM MirrorImplements == Spec => DomSpec
<1>1. Init => DomInit
  BY DEF Init
<1>. QED
  BY <1>1, WireInit, WireStep, PTL DEF Spec, DomSpec

\* So its tree stays a forest, and only what the forest forbids waits, whatever the game
\* does and the client sends.
THEOREM MirrorCorrect == Spec => [](Forest /\ DeferredIsBlocked)
BY MirrorImplements, ForestCorrect, DeferredCorrect, PTL

=============================================================================
