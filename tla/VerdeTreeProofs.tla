-------------------------- MODULE VerdeTreeProofs --------------------------
(***************************************************************************)
(* Proofs about the connection's tree state, for any instances, any        *)
(* capacity of the feed and any requests.                                  *)
(***************************************************************************)
EXTENDS VerdeTree, SequenceTheorems, FiniteSetTheorems, TLAPS

\* A removal that is read is forgotten only when it has been translated.
IdleHasNone == ~ busy => change = NoChange

IInv == TypeOK /\ GhostsAreAnnounced /\ IdleHasNone

F == INSTANCE RecursionFacts WITH Op <- Effect

(***************************************************************************)
(* Batches and Verde's table.                                              *)
(***************************************************************************)
Partial(V) == UNION {[D -> V] : D \in SUBSET Nodes}

TableNode == [parent : Places, kids : BOOLEAN, name : Names]

Tables == Partial(TableNode)

Batches == {AddSubtree(t) : t \in Tables} \cup {RemoveNode(D) : D \in SUBSET Nodes}
             \cup {MoveNode(f) : f \in Partial(Places)}
             \cup {RenameNode(f) : f \in Partial(Names)}
             \cup {HasChildrenOf(f) : f \in Partial(BOOLEAN)}

\* Two tables hold the same of node i.
AlikeAt(i, t, u) == /\ i \in DOMAIN t <=> i \in DOMAIN u
                    /\ i \in DOMAIN t => t[i] = u[i]

LEMMA PartialIs ==
    ASSUME NEW V, NEW f
    PROVE  f \in Partial(V) <=>
             /\ f = [i \in DOMAIN f |-> f[i]]
             /\ \A i \in DOMAIN f : i \in Nodes /\ f[i] \in V
BY DEF Partial

\* What each batch does to the table, node by node.
LEMMA AddEffect ==
    ASSUME NEW t, NEW n, NEW i
    PROVE  /\ i \in DOMAIN Effect(t, AddSubtree(n)) <=> i \in DOMAIN n \/ i \in DOMAIN t
           /\ i \in DOMAIN n => Effect(t, AddSubtree(n))[i] = n[i]
           /\ i \notin DOMAIN n /\ i \in DOMAIN t => Effect(t, AddSubtree(n))[i] = t[i]
BY DEF Effect, AddSubtree, Over

LEMMA RemoveEffect ==
    ASSUME NEW t, NEW D, NEW i
    PROVE  /\ i \in DOMAIN Effect(t, RemoveNode(D)) <=> i \in DOMAIN t /\ i \notin D
           /\ i \in DOMAIN t /\ i \notin D => Effect(t, RemoveNode(D))[i] = t[i]
BY DEF Effect, RemoveNode, Restrict

LEMMA MoveEffect ==
    ASSUME NEW t \in Tables, NEW f \in Partial(Places), NEW i
    PROVE  /\ i \in DOMAIN Effect(t, MoveNode(f)) <=> i \in DOMAIN t
           /\ i \in DOMAIN t =>
                  /\ Effect(t, MoveNode(f))[i] \in TableNode
                  /\ Effect(t, MoveNode(f))[i].parent = IF i \in DOMAIN f THEN f[i] ELSE t[i].parent
                  /\ Effect(t, MoveNode(f))[i].kids = t[i].kids
                  /\ Effect(t, MoveNode(f))[i].name = t[i].name
<1>. DEFINE e == Effect(t, MoveNode(f))
<1>1. i \in DOMAIN t => t[i] \in TableNode
  BY PartialIs DEF Tables
<1>2. i \in DOMAIN f => f[i] \in Places
  BY PartialIs
<1>. QED
  BY <1>1, <1>2 DEF Effect, MoveNode, TableNode

LEMMA RenameEffect ==
    ASSUME NEW t \in Tables, NEW f \in Partial(Names), NEW i
    PROVE  /\ i \in DOMAIN Effect(t, RenameNode(f)) <=> i \in DOMAIN t
           /\ i \in DOMAIN t =>
                  /\ Effect(t, RenameNode(f))[i] \in TableNode
                  /\ Effect(t, RenameNode(f))[i].parent = t[i].parent
                  /\ Effect(t, RenameNode(f))[i].kids = t[i].kids
                  /\ Effect(t, RenameNode(f))[i].name = IF i \in DOMAIN f THEN f[i] ELSE t[i].name
<1>. DEFINE e == Effect(t, RenameNode(f))
<1>1. i \in DOMAIN t => t[i] \in TableNode
  BY PartialIs DEF Tables
<1>2. i \in DOMAIN f => f[i] \in Names
  BY PartialIs
<1>. QED
  BY <1>1, <1>2 DEF Effect, RenameNode, TableNode

LEMMA ChildrenEffect ==
    ASSUME NEW t \in Tables, NEW f \in Partial(BOOLEAN), NEW i
    PROVE  /\ i \in DOMAIN Effect(t, HasChildrenOf(f)) <=> i \in DOMAIN t
           /\ i \in DOMAIN t =>
                  /\ Effect(t, HasChildrenOf(f))[i] \in TableNode
                  /\ Effect(t, HasChildrenOf(f))[i].parent = t[i].parent
                  /\ Effect(t, HasChildrenOf(f))[i].kids = IF i \in DOMAIN f THEN f[i] ELSE t[i].kids
                  /\ Effect(t, HasChildrenOf(f))[i].name = t[i].name
<1>. DEFINE e == Effect(t, HasChildrenOf(f))
<1>1. i \in DOMAIN t => t[i] \in TableNode
  BY PartialIs DEF Tables
<1>2. i \in DOMAIN f => f[i] \in BOOLEAN
  BY PartialIs
<1>. QED
  BY <1>1, <1>2 DEF Effect, HasChildrenOf, TableNode

LEMMA EffectIsFunction ==
    ASSUME NEW t, NEW op
    PROVE  Effect(t, op) = [i \in DOMAIN Effect(t, op) |-> Effect(t, op)[i]]
BY DEF Effect, Over, Restrict

\* A table after a batch is a table.
LEMMA EffectTyped ==
    ASSUME NEW t \in Tables, NEW op \in Batches
    PROVE  Effect(t, op) \in Tables
<1>. DEFINE Typed(e) == \A i : i \in DOMAIN e => i \in Nodes /\ e[i] \in TableNode
<1>1. \A n \in Tables : Typed(n)
  BY PartialIs DEF Tables
<1>2. Typed(t)
  BY <1>1
<1>3. ASSUME NEW n \in Tables PROVE Typed(Effect(t, AddSubtree(n)))
  BY <1>1, <1>2, AddEffect
<1>4. ASSUME NEW D \in SUBSET Nodes PROVE Typed(Effect(t, RemoveNode(D)))
  BY <1>2, RemoveEffect
<1>5. ASSUME NEW f \in Partial(Places) PROVE Typed(Effect(t, MoveNode(f)))
  BY <1>2, MoveEffect
<1>6. ASSUME NEW f \in Partial(Names) PROVE Typed(Effect(t, RenameNode(f)))
  BY <1>2, RenameEffect
<1>7. ASSUME NEW f \in Partial(BOOLEAN) PROVE Typed(Effect(t, HasChildrenOf(f)))
  BY <1>2, ChildrenEffect
<1>8. Typed(Effect(t, op))
  <2>. HIDE DEF Typed
  <2>. QED
    BY <1>3, <1>4, <1>5, <1>6, <1>7 DEF Batches
<1>. DEFINE e == Effect(t, op)
<1>9. e = [i \in DOMAIN e |-> e[i]]
  BY EffectIsFunction
<1>10. Typed(e)
  BY <1>8
<1>. HIDE DEF e
<1>11. e \in Partial(TableNode)
  BY <1>9, <1>10, PartialIs
<1>. QED
  BY <1>11 DEF Tables, e

\* What a batch leaves at a node depends on that node alone.
LEMMA EffectPointwise ==
    ASSUME NEW t, NEW u, NEW i, AlikeAt(i, t, u), NEW op
    PROVE  AlikeAt(i, Effect(t, op), Effect(u, op))
BY DEF AlikeAt, Effect, Over, Restrict

(***************************************************************************)
(* Replaying a buffer.                                                     *)
(***************************************************************************)
LEMMA ReplayFolds == ASSUME NEW t, NEW ops PROVE Replay(t, ops) = F!Fold(t, ops)
BY DEF Replay, F!Fold, FoldLeft, F!FoldLeft, MapThenFoldSet, F!MapThenFoldSet, Max, F!Max

LEMMA ReplayNone == ASSUME NEW t PROVE Replay(t, <<>>) = t
BY ReplayFolds, F!FoldEmpty

LEMMA ReplayMore ==
    ASSUME NEW t, NEW ops \in Seq(Batches), NEW op \in Batches
    PROVE  Replay(t, Append(ops, op)) = Effect(Replay(t, ops), op)
BY ReplayFolds, F!FoldAppend

LEMMA ReplaySteps ==
    ASSUME NEW t, NEW ops \in Seq(Batches)
    PROVE  \E v : /\ v[0] = t
                  /\ \A k \in 1..Len(ops) : v[k] = Effect(v[k-1], ops[k])
                  /\ Replay(t, ops) = v[Len(ops)]
BY ReplayFolds, F!FoldSteps

LEMMA ReplayTyped ==
    ASSUME NEW t \in Tables, NEW ops \in Seq(Batches)
    PROVE  Replay(t, ops) \in Tables
<1>1. PICK v : /\ v[0] = t
               /\ \A k \in 1..Len(ops) : v[k] = Effect(v[k-1], ops[k])
               /\ Replay(t, ops) = v[Len(ops)]
  BY ReplaySteps
<1>. DEFINE n == Len(ops)
            K == {k \in 0..n : v[k] \in Tables}
<1>2. n \in Nat /\ \A k \in 1..n : ops[k] \in Batches /\ k \in 0..n
  OBVIOUS
<1>. HIDE DEF n
<1>3. 0 \in K
  BY <1>1, <1>2
<1>4. \A k \in 1..n : k - 1 \in K => k \in K
  BY <1>1, <1>2, EffectTyped DEF n
<1>5. 0..n \subseteq K
  <2>. HIDE DEF K
  <2>. QED
    BY <1>2, <1>3, <1>4, F!UpTo
<1>. QED
  BY <1>1, <1>2, <1>5 DEF n

\* Tables that are alike at a node stay alike there.
LEMMA ReplayPointwise ==
    ASSUME NEW t, NEW u, NEW i, AlikeAt(i, t, u), NEW ops \in Seq(Batches)
    PROVE  AlikeAt(i, Replay(t, ops), Replay(u, ops))
<1>1. PICK v : /\ v[0] = t
               /\ \A k \in 1..Len(ops) : v[k] = Effect(v[k-1], ops[k])
               /\ Replay(t, ops) = v[Len(ops)]
  BY ReplaySteps
<1>2. PICK w : /\ w[0] = u
               /\ \A k \in 1..Len(ops) : w[k] = Effect(w[k-1], ops[k])
               /\ Replay(u, ops) = w[Len(ops)]
  BY ReplaySteps
<1>. DEFINE n == Len(ops)
            K == {k \in 0..n : AlikeAt(i, v[k], w[k])}
<1>3. n \in Nat /\ \A k \in 1..n : k \in 0..n
  OBVIOUS
<1>4. 0 \in K
  BY <1>1, <1>2
<1>5. \A k \in 1..n : k - 1 \in K => k \in K
  BY <1>1, <1>2, <1>3, EffectPointwise
<1>. HIDE DEF n
<1>6. 0..n \subseteq K
  <2>. HIDE DEF K
  <2>. QED
    BY <1>3, <1>4, <1>5, F!UpTo
<1>7. AlikeAt(i, v[n], w[n])
  BY <1>3, <1>6
<1>. QED
  BY <1>1, <1>2, <1>7 DEF n

\* An empty batch would change nothing, and is not pushed.
LEMMA Pushed ==
    ASSUME NEW t \in Tables, NEW ops \in Seq(Batches), NEW ids, NEW op \in Batches,
           ids = {} => Effect(Replay(t, ops), op) = Replay(t, ops)
    PROVE  /\ Push(ops, ids, op) \in Seq(Batches)
           /\ Replay(t, Push(ops, ids, op)) = Effect(Replay(t, ops), op)
BY ReplayMore DEF Push

LEMMA EmptyBatch ==
    ASSUME NEW t \in Tables, NEW f, DOMAIN f = {}
    PROVE  /\ Effect(t, RemoveNode({})) = t
           /\ Effect(t, MoveNode(f)) = t
           /\ Effect(t, RenameNode(f)) = t
           /\ Effect(t, HasChildrenOf(f)) = t
<1>. t = [i \in DOMAIN t |-> t[i]]
  BY PartialIs DEF Tables
<1>1. Effect(t, RemoveNode({})) = t
  BY DEF Effect, RemoveNode, Restrict
<1>2. Effect(t, MoveNode(f)) = t
  BY DEF Effect, MoveNode
<1>3. Effect(t, RenameNode(f)) = t
  BY DEF Effect, RenameNode
<1>4. Effect(t, HasChildrenOf(f)) = t
  BY DEF Effect, HasChildrenOf
<1>. QED
  BY <1>1, <1>2, <1>3, <1>4

LEMMA BatchesAre ==
    /\ \A t \in Tables : AddSubtree(t) \in Batches
    /\ \A D \in SUBSET Nodes : RemoveNode(D) \in Batches
    /\ \A f \in Partial(Places) : MoveNode(f) \in Batches
    /\ \A f \in Partial(Names) : RenameNode(f) \in Batches
    /\ \A f \in Partial(BOOLEAN) : HasChildrenOf(f) \in Batches
BY DEF Batches

(***************************************************************************)
(* What Verde has once the buffer reaches it.                              *)
(***************************************************************************)
Sent == Replay(shown, buf)

TablesTyped == shown \in Tables /\ buf \in Seq(Batches)

\* One request is under way at most, and a release only where Verde releases.
AskedOnce ==
    asked = <<>> \/ \E r : asked = <<r>> /\ (r.type = "release_subtree" => "release" \in world)

KnownSent ==
    /\ known \ Released \subseteq DOMAIN Sent
    /\ "release" \notin world => known = DOMAIN Sent

\* A change to i that is still to be read or translated names i under `part`.
Pending(i, part) == i \in change[part] \/ \E k \in DOMAIN feed : i \in feed[k][part]

\* What was sent of i is what the mirror has of it, or a change that says more is pending.
Fresh(i) ==
    \/ lagged \/ Pending(i, "removed")
    \/ /\ i \in DOMAIN mirror
       /\ Sent[i].parent = mirror[i] \/ Pending(i, "moved")
       /\ Sent[i].name = names[i] \/ Pending(i, "renamed")
       /\ Children(i) = {} \/ Sent[i].kids \/ Pending(i, "children")

NodesFresh == \A i \in known \ Released : Fresh(i)

SentInv == IInv /\ TablesTyped /\ AskedOnce /\ KnownSent /\ NodesFresh

LEMMA ShallowTyped ==
    ASSUME TypeOK
    PROVE  /\ \A i \in DOMAIN mirror : i \in Nodes /\ ShallowNode(i) \in TableNode
           /\ \A S \in SUBSET DOMAIN mirror : [i \in S |-> ShallowNode(i)] \in Tables
           /\ RootsSnapshot \in Tables /\ FullSnapshot \in Tables
<1>1. \A i \in DOMAIN mirror : i \in Nodes /\ ShallowNode(i) \in TableNode
  BY DEF TypeOK, ShallowNode, HasChildren, TableNode
<1>2. ASSUME NEW S \in SUBSET DOMAIN mirror
      PROVE  [i \in S |-> ShallowNode(i)] \in Tables
  <2>. DEFINE t == [i \in S |-> ShallowNode(i)]
  <2>1. t = [i \in DOMAIN t |-> t[i]] /\ \A i \in DOMAIN t : i \in Nodes /\ t[i] \in TableNode
    BY <1>1
  <2>. HIDE DEF t
  <2>. QED
    BY <2>1, PartialIs DEF Tables, t
<1>3. RootsSnapshot \in Tables
  BY <1>2 DEF RootsSnapshot, Children
<1>4. FullSnapshot \in Tables
  <2>1. \A i \in DOMAIN FullSnapshot : i \in Nodes /\ FullSnapshot[i] \in TableNode
    BY <1>1 DEF FullSnapshot, TableNode
  <2>2. FullSnapshot = [i \in DOMAIN FullSnapshot |-> FullSnapshot[i]]
    BY DEF FullSnapshot
  <2>. QED
    BY <2>1, <2>2, PartialIs DEF Tables
<1>. QED
  BY <1>1, <1>2, <1>3, <1>4

LEMMA SnapshotsShow ==
    /\ DOMAIN RootsSnapshot = Children(Root) /\ DOMAIN FullSnapshot = DOMAIN mirror
    /\ \A i \in Children(Root) : /\ RootsSnapshot[i].parent = mirror[i]
                                 /\ RootsSnapshot[i].name = names[i]
                                 /\ Children(i) # {} => RootsSnapshot[i].kids
    /\ \A i \in DOMAIN mirror : /\ FullSnapshot[i].parent = mirror[i]
                                /\ FullSnapshot[i].name = names[i]
                                /\ Children(i) # {} => FullSnapshot[i].kids
BY DEF RootsSnapshot, FullSnapshot, ShallowNode, HasChildren

LEMMA FunctionIsSeq ==
    ASSUME NEW n \in Nat, NEW T, NEW f \in [1 .. n -> T]
    PROVE  f \in Seq(T)
OBVIOUS

\* The patches are whatever a client may send: new instances, refreshes and removals.
LEMMA PatchTypes ==
    ASSUME TypeOK, NEW S \in SUBSET Nodes, NEW gone \in SUBSET Nodes,
           NEW rec \in [S -> [parent : Places, kids : BOOLEAN, name : Names]],
           NEW order \in SetToSeqs(S \ DOMAIN mirror),
           gone \subseteq DOMAIN mirror
    PROVE  /\ Summary(rec, order, gone, Merged(rec)) \in Changes
           /\ Summary(rec, order, gone, Merged(rec)).removed = Destroyed(Merged(rec), gone)
           /\ DOMAIN Merged(rec) = S \cup DOMAIN mirror
           /\ Merged(rec) \in [S \cup DOMAIN mirror -> Places]
<1>1. DOMAIN Merged(rec) = S \cup DOMAIN mirror /\ DOMAIN mirror \subseteq Nodes
  BY DEF Merged, Over, TypeOK
<1>2. Merged(rec) \in [S \cup DOMAIN mirror -> Places]
  BY <1>1 DEF Merged, Over, TypeOK, Places
<1>3. order \in Seq(Nodes)
  <2>1. IsFiniteSet(S \ DOMAIN mirror)
    BY FS_Subset, VerdeTreeAssumption
  <2>2. Cardinality(S \ DOMAIN mirror) \in Nat
    BY <2>1, FS_CardinalityType
  <2>3. order \in [1 .. Cardinality(S \ DOMAIN mirror) -> S \ DOMAIN mirror]
    BY DEF SetToSeqs
  <2>. QED
    BY <2>2, <2>3, FunctionIsSeq, SeqMonotonic
<1>4. Destroyed(Merged(rec), gone) \subseteq Nodes
  BY <1>1 DEF Destroyed, Subtree
<1>. QED
  BY <1>1, <1>2, <1>3, <1>4 DEF Summary, Changes

\* The part of the invariant that the tree and what is read decide; the mirror, the feed
\* and the change being translated are the same in most steps of the connection.
LEMMA Kept ==
    ASSUME IInv, UNCHANGED <<treeVars, used, feedVars>>,
           known' \subseteq known \cup DOMAIN mirror, loaded' \subseteq Nodes
    PROVE  IInv'
<1>1. TypeOK'
  BY DEF IInv, TypeOK, treeVars, feedVars
<1>2. GhostsAreAnnounced'
  BY DEF IInv, GhostsAreAnnounced, treeVars, feedVars
<1>. QED
  BY <1>1, <1>2 DEF IInv, IdleHasNone, feedVars

\* A snapshot holds mirrored nodes only.
LEMMA Seeded ==
    ASSUME IInv, NEW snapshot, DOMAIN snapshot \subseteq DOMAIN mirror, NEW full \in BOOLEAN,
           Seed(snapshot, full)
    PROVE  known' \subseteq DOMAIN mirror /\ loaded' \subseteq Nodes
BY DEF Seed, IInv, TypeOK

LEMMA SnapshotDomains ==
    DOMAIN RootsSnapshot \subseteq DOMAIN mirror /\ DOMAIN FullSnapshot = DOMAIN mirror
BY DEF RootsSnapshot, FullSnapshot, Children

LEMMA InitInv == Init => IInv
<1>. SUFFICES ASSUME Init PROVE IInv
  OBVIOUS
<1>1. /\ DOMAIN mirror \subseteq Nodes /\ mirror \in [DOMAIN mirror -> Places]
      /\ known \subseteq DOMAIN mirror
  BY DEF Init, Places, Children
<1>2. NoChange \in Changes /\ <<>> \in Seq(Changes) /\ Len(<<>>) = 0
  BY EmptySeq DEF NoChange, Changes
<1>3. FirstName \in Names
  BY VerdeTreeAssumption DEF FirstName
<1>4. flags \in [DOMAIN mirror -> BOOLEAN] /\ names \in [DOMAIN mirror -> Names]
  BY <1>3 DEF Init
<1>5. feed \in Seq(Changes) /\ Len(feed) <= Capacity /\ change \in Changes
  BY <1>2, VerdeTreeAssumption DEF Init
<1>6. TypeOK
  BY <1>1, <1>4, <1>5 DEF Init, TypeOK
<1>. QED
  BY <1>1, <1>6 DEF Init, IInv, GhostsAreAnnounced, IdleHasNone

\* What a client's patch is.
LEMMA PatchIs ==
    ASSUME ClientPatch
    PROVE  \E S \in SUBSET Nodes, gone \in SUBSET Nodes :
             \E rec \in [S -> [parent : Places, kids : BOOLEAN, name : Names]],
                order \in SetToSeqs(S \ DOMAIN mirror) :
               (\A i \in S : rec[i] \in Records(i)) /\ Patch(rec, order, gone)
<1>1. PICK S \in SUBSET Nodes, gone \in SUBSET Nodes :
         \E rec \in [S -> UNION {Records(i) : i \in S}] :
            /\ \A i \in S : rec[i] \in Records(i)
            /\ \E order \in SetToSeqs(S \ DOMAIN mirror) : Patch(rec, order, gone)
  BY DEF ClientPatch
<1>2. PICK rec \in [S -> UNION {Records(i) : i \in S}] :
         /\ \A i \in S : rec[i] \in Records(i)
         /\ \E order \in SetToSeqs(S \ DOMAIN mirror) : Patch(rec, order, gone)
  BY <1>1
<1>3. rec \in [S -> [parent : Places, kids : BOOLEAN, name : Names]]
  BY <1>2 DEF Records
<1>. QED
  BY <1>2, <1>3

\* A change is appended, unless nothing changed; the feed that is full loses its oldest.
LEMMA FeedGrows ==
    ASSUME TypeOK, NEW ch \in Changes,
           IF ch = NoChange THEN UNCHANGED <<feed, lagged>> ELSE Broadcast(ch)
    PROVE  /\ feed' \in Seq(Changes) /\ Len(feed') <= Capacity /\ lagged' \in BOOLEAN
           /\ lagged' \/ (ch # NoChange => \E k \in DOMAIN feed' : feed'[k] = ch)
           /\ lagged' \/ \A k \in DOMAIN feed : k \in DOMAIN feed' /\ feed'[k] = feed[k]
           /\ lagged => lagged'
<1>. feed \in Seq(Changes) /\ Len(feed) <= Capacity /\ lagged \in BOOLEAN
  BY DEF TypeOK
<1>1. CASE ch = NoChange
  BY <1>1
<1>2. CASE ch # NoChange /\ Len(feed) = Capacity
  <2>1. feed # <<>>
    BY <1>2, EmptySeq, VerdeTreeAssumption
  <2>2. Tail(feed) \in Seq(Changes) /\ Len(Tail(feed)) = Len(feed) - 1
    BY <2>1, HeadTailProperties
  <2>3. /\ Append(Tail(feed), ch) \in Seq(Changes)
        /\ Len(Append(Tail(feed), ch)) = Len(Tail(feed)) + 1
    BY <2>2, AppendProperties
  <2>4. feed' = Append(Tail(feed), ch) /\ lagged'
    BY <1>2 DEF Broadcast
  <2>. QED
    BY <1>2, <2>2, <2>3, <2>4, LenProperties
<1>3. CASE ch # NoChange /\ Len(feed) # Capacity
  <2>1. feed' = Append(feed, ch) /\ lagged' = lagged
    BY <1>3 DEF Broadcast
  <2>2. /\ feed' \in Seq(Changes) /\ Len(feed') = Len(feed) + 1
        /\ \A k \in 1 .. Len(feed) : feed'[k] = feed[k]
        /\ feed'[Len(feed) + 1] = ch
    BY <2>1, AppendProperties
  <2>3. DOMAIN feed = 1 .. Len(feed) /\ DOMAIN feed' = 1 .. Len(feed') /\ Len(feed) \in Nat
    BY <2>2, LenProperties
  <2>4. Len(feed) + 1 \in DOMAIN feed' /\ DOMAIN feed \subseteq DOMAIN feed'
    BY <2>2, <2>3
  <2>5. Len(feed') <= Capacity
    <3>1. Capacity \in Nat /\ Len(feed) \in Nat /\ Len(feed') = Len(feed) + 1
      BY <2>2, <2>3, VerdeTreeAssumption
    <3>2. Len(feed) <= Capacity /\ Len(feed) # Capacity
      BY <1>3
    <3>. QED
      BY <3>1, <3>2
  <2>. QED
    BY <2>1, <2>2, <2>3, <2>4, <2>5
<1>. QED
  BY <1>1, <1>2, <1>3

LEMMA PatchStep == IInv /\ ClientPatch => IInv'
<1>. SUFFICES ASSUME IInv, ClientPatch PROVE IInv'
  OBVIOUS
<1>1. PICK S \in SUBSET Nodes, gone \in SUBSET Nodes :
        \E rec \in [S -> [parent : Places, kids : BOOLEAN, name : Names]],
           order \in SetToSeqs(S \ DOMAIN mirror) : Patch(rec, order, gone)
  BY PatchIs
<1>2. PICK rec \in [S -> [parent : Places, kids : BOOLEAN, name : Names]],
           order \in SetToSeqs(S \ DOMAIN mirror) : Patch(rec, order, gone)
  BY <1>1
<1>. DEFINE tree == Merged(rec)
            ch   == Summary(rec, order, gone, tree)
            left == DOMAIN tree \ Destroyed(tree, gone)
<1>3. /\ gone \subseteq DOMAIN mirror
      /\ mirror' = Restrict(tree, left) /\ used' = used \cup S
      /\ flags' = [i \in left |-> IF i \in S THEN rec[i].kids ELSE flags[i]]
      /\ names' = [i \in left |-> IF i \in S THEN rec[i].name ELSE names[i]]
      /\ IF ch = NoChange THEN UNCHANGED <<feed, lagged>> ELSE Broadcast(ch)
      /\ ~ busy /\ UNCHANGED <<busy, change, known, loaded>>
  BY <1>2 DEF Patch, stateVars
<1>4. /\ ch \in Changes /\ ch.removed = Destroyed(tree, gone)
      /\ DOMAIN tree = S \cup DOMAIN mirror
      /\ tree \in [S \cup DOMAIN mirror -> Places]
  BY <1>2, <1>3, PatchTypes DEF IInv
<1>. HIDE DEF tree, ch
<1>5. left \subseteq S \cup DOMAIN mirror /\ DOMAIN mirror' = left
  BY <1>3, <1>4 DEF Restrict
<1>6. mirror' \in [left -> Places]
  BY <1>3, <1>4, <1>5 DEF Restrict
<1>7. flags' \in [left -> BOOLEAN] /\ names' \in [left -> Names]
  BY <1>2, <1>3, <1>5 DEF IInv, TypeOK
<1>8. /\ feed' \in Seq(Changes) /\ Len(feed') <= Capacity /\ lagged' \in BOOLEAN
      /\ lagged' \/ (ch # NoChange => \E k \in DOMAIN feed' : feed'[k] = ch)
      /\ lagged' \/ \A k \in DOMAIN feed : k \in DOMAIN feed' /\ feed'[k] = feed[k]
  BY <1>3, <1>4, FeedGrows DEF IInv
<1>9. TypeOK'
  BY <1>3, <1>5, <1>6, <1>7, <1>8 DEF IInv, TypeOK
<1>10. GhostsAreAnnounced'
  <2>1. SUFFICES ASSUME ~ lagged', NEW i \in known, i \notin left
                 PROVE  i \in change.removed \/ \E k \in DOMAIN feed' : i \in feed'[k].removed
    BY <1>3, <1>5 DEF GhostsAreAnnounced
  <2>2. ~ lagged
    BY <2>1, <1>3 DEF Broadcast
  <2>3. CASE i \in DOMAIN mirror
    <3>1. i \in ch.removed
      BY <2>1, <2>3, <1>4
    <3>2. ch # NoChange
      BY <3>1 DEF NoChange
    <3>. QED
      BY <3>1, <3>2, <2>1, <1>8
  <2>4. CASE i \notin DOMAIN mirror
    BY <2>1, <2>2, <2>4, <1>8 DEF IInv, GhostsAreAnnounced
  <2>. QED
    BY <2>3, <2>4
<1>. QED
  BY <1>3, <1>9, <1>10 DEF IInv, IdleHasNone

LEMMA RecvStep == IInv /\ Recv => IInv'
<1>. SUFFICES ASSUME IInv, Recv PROVE IInv'
  OBVIOUS
<1>1. feed \in Seq(Changes) /\ feed # <<>> /\ ~ busy /\ change = NoChange
  BY DEF IInv, TypeOK, Recv, IdleHasNone
<1>2. /\ Head(feed) \in Changes /\ Tail(feed) \in Seq(Changes)
      /\ Len(Tail(feed)) = Len(feed) - 1
      /\ \A k \in 1 .. Len(Tail(feed)) : Tail(feed)[k] = feed[k + 1]
      /\ Head(feed) = feed[1]
  BY <1>1, HeadTailProperties
<1>3. /\ DOMAIN feed = 1 .. Len(feed) /\ Len(feed) \in Nat
      /\ DOMAIN Tail(feed) = 1 .. Len(Tail(feed)) /\ Len(Tail(feed)) \in Nat
  BY <1>1, <1>2, LenProperties
<1>4. TypeOK'
  BY <1>2, <1>3, VerdeTreeAssumption DEF IInv, TypeOK, Recv, treeVars, stateVars
<1>5. ASSUME NEW i \in known \ DOMAIN mirror
      PROVE  i \in change'.removed \/ \E k \in DOMAIN feed' : i \in feed'[k].removed
  <2>1. PICK k \in DOMAIN feed : i \in feed[k].removed
    BY <1>1, <1>5 DEF IInv, GhostsAreAnnounced, Recv, NoChange
  <2>2. CASE k = 1
    BY <2>1, <2>2, <1>2 DEF Recv
  <2>3. CASE k # 1
    <3>1. k - 1 \in 1 .. Len(Tail(feed)) /\ (k - 1) + 1 = k
      BY <2>3, <1>2, <1>3
    <3>2. k - 1 \in DOMAIN Tail(feed) /\ i \in Tail(feed)[k - 1].removed
      BY <3>1, <2>1, <1>2, <1>3
    <3>. QED
      BY <3>2 DEF Recv
  <2>. QED
    BY <2>2, <2>3
<1>. QED
  BY <1>4, <1>5 DEF IInv, GhostsAreAnnounced, IdleHasNone, Recv, treeVars, stateVars

LEMMA AddedStep == IInv /\ TranslateAdded => IInv'
<1>. SUFFICES ASSUME IInv, TranslateAdded PROVE IInv'
  OBVIOUS
<1>1. change \in Changes /\ change.added \in Seq(Nodes) /\ change.added # <<>>
  BY DEF IInv, TypeOK, Changes, TranslateAdded
<1>2. Tail(change.added) \in Seq(Nodes)
  BY <1>1, HeadTailProperties
<1>3. change' \in Changes /\ change'.removed = change.removed
  BY <1>1, <1>2 DEF Changes, TranslateAdded
<1>4. /\ known \subseteq known' /\ known' \subseteq known \cup DOMAIN mirror
      /\ loaded' \subseteq Nodes
  BY DEF TranslateAdded, stateVars, IInv, TypeOK, Places
<1>5. TypeOK'
  BY <1>3, <1>4 DEF IInv, TypeOK, TranslateAdded, treeVars
<1>6. GhostsAreAnnounced'
  BY <1>3, <1>4 DEF IInv, GhostsAreAnnounced, TranslateAdded, treeVars
<1>. QED
  BY <1>5, <1>6 DEF IInv, IdleHasNone, TranslateAdded

LEMMA RestStep == IInv /\ TranslateRest => IInv'
<1>. SUFFICES ASSUME IInv, TranslateRest PROVE IInv'
  OBVIOUS
<1>1. known' = known \ (change.removed \cap known) /\ change' = NoChange
  BY DEF TranslateRest
<1>2. NoChange \in Changes
  BY EmptySeq DEF NoChange, Changes
<1>3. TypeOK'
  BY <1>1, <1>2 DEF IInv, TypeOK, TranslateRest, treeVars
<1>4. GhostsAreAnnounced'
  BY <1>1 DEF IInv, GhostsAreAnnounced, TranslateRest, treeVars
<1>. QED
  BY <1>1, <1>3, <1>4 DEF IInv, IdleHasNone

LEMMA ResyncStep == IInv /\ FullResync => IInv'
<1>. SUFFICES ASSUME IInv, FullResync PROVE IInv'
  OBVIOUS
<1>1. known' \subseteq DOMAIN mirror /\ loaded' \subseteq Nodes
  BY Seeded, SnapshotDomains DEF FullResync
<1>2. TypeOK'
  BY <1>1 DEF IInv, TypeOK, FullResync, treeVars
<1>3. GhostsAreAnnounced'
  BY <1>1 DEF GhostsAreAnnounced, FullResync, treeVars
<1>. QED
  BY <1>2, <1>3 DEF IInv, IdleHasNone, FullResync

\* The requests, the operations and Verde's own steps.
LEMMA OtherSteps ==
    IInv /\ (Flush \/ RequestSnapshot \/ RequestChildren \/ ReleaseSubtree \/ Verde) => IInv'
<1>1. ASSUME IInv, Flush PROVE IInv'
  BY <1>1, Kept DEF Flush, IInv, TypeOK
<1>2. ASSUME IInv, RequestSnapshot PROVE IInv'
  <2>1. known' \subseteq DOMAIN mirror /\ loaded' \subseteq Nodes
    BY <1>2, Seeded, SnapshotDomains DEF RequestSnapshot
  <2>. QED
    BY <1>2, <2>1, Kept DEF RequestSnapshot, Serve
<1>3. ASSUME IInv, RequestChildren PROVE IInv'
  <2>1. known' \subseteq known \cup DOMAIN mirror /\ loaded' \subseteq Nodes
    BY <1>3 DEF RequestChildren, Children, stateVars, IInv, TypeOK
  <2>. QED
    BY <1>3, <2>1, Kept DEF RequestChildren, Serve
<1>4. ASSUME IInv, ReleaseSubtree PROVE IInv'
  <2>1. known' \subseteq known /\ loaded' \subseteq Nodes
    BY <1>4 DEF ReleaseSubtree, IInv, TypeOK
  <2>. QED
    BY <1>4, <2>1, Kept DEF ReleaseSubtree, Serve
<1>5. ASSUME IInv, NEW i \in Nodes, Reveal(i) PROVE IInv'
  <2>1. /\ known' \subseteq known \cup DOMAIN mirror /\ loaded' \subseteq Nodes
        /\ UNCHANGED <<treeVars, used, feedVars>>
    BY <1>5 DEF Reveal, Chain, IInv, TypeOK, Places
  <2>. QED
    BY <1>5, <2>1, Kept
<1>6. ASSUME IInv, NEW r, Ask(r) PROVE IInv'
  BY <1>6, Kept DEF Ask, stateVars, IInv, TypeOK
<1>. QED
  BY <1>1, <1>2, <1>3, <1>4, <1>5, <1>6 DEF Verde, Expand, Collapse, AskSnapshot

LEMMA StepInv == IInv /\ [Next]_vars => IInv'
<1>1. IInv /\ Next => IInv'
  BY PatchStep, RecvStep, AddedStep, RestStep, ResyncStep, OtherSteps DEF Next, Connection
<1>2. IInv /\ UNCHANGED vars => IInv'
  BY Kept DEF vars, stateVars, IInv, TypeOK
<1>. QED
  BY <1>1, <1>2

LEMMA Invariant == Spec => []IInv
BY InitInv, StepInv, PTL DEF Spec

(***************************************************************************)
(* What Verde is sent, step by step.                                       *)
(***************************************************************************)
LEMMA SentInit == Init => SentInv
<1>. SUFFICES ASSUME Init PROVE SentInv
  OBVIOUS
<1>1. IInv /\ TypeOK
  BY InitInv DEF IInv
<1>2. TablesTyped
  BY <1>1, ShallowTyped, EmptySeq DEF Init, TablesTyped
<1>3. Sent = RootsSnapshot
  BY ReplayNone DEF Init, Sent
<1>4. AskedOnce
  BY DEF Init, AskedOnce
<1>5. KnownSent
  BY <1>3, SnapshotsShow DEF Init, KnownSent
<1>6. NodesFresh
  BY <1>3, SnapshotsShow DEF Init, NodesFresh, Fresh, Children
<1>. QED
  BY <1>1, <1>2, <1>4, <1>5, <1>6 DEF SentInv

\* What is pending stays pending when a patch is announced.
LEMMA PatchPending ==
    ASSUME TypeOK, UNCHANGED change, NEW ch \in Changes,
           IF ch = NoChange THEN UNCHANGED <<feed, lagged>> ELSE Broadcast(ch), ~ lagged'
    PROVE  /\ \A i, part : Pending(i, part) => Pending(i, part)'
           /\ ch # NoChange => \A i, part : i \in ch[part] => Pending(i, part)'
<1>1. /\ ch # NoChange => \E k \in DOMAIN feed' : feed'[k] = ch
      /\ \A k \in DOMAIN feed : k \in DOMAIN feed' /\ feed'[k] = feed[k]
  BY FeedGrows
<1>. QED
  BY <1>1 DEF Pending

\* What a patch changes of a node that stays is announced: its place, its name, and that it
\* has children where it had none.
LEMMA PatchTells ==
    ASSUME TypeOK, NEW S \in SUBSET Nodes, NEW gone \in SUBSET Nodes,
           NEW rec \in [S -> [parent : Places, kids : BOOLEAN, name : Names]],
           NEW order \in SetToSeqs(S \ DOMAIN mirror), Patch(rec, order, gone),
           NEW ch, ch = Summary(rec, order, gone, Merged(rec)),
           NEW i \in DOMAIN mirror
    PROVE  \/ i \in ch.removed /\ i \notin DOMAIN mirror'
           \/ /\ i \in DOMAIN mirror'
              /\ mirror'[i] = mirror[i] \/ i \in ch.moved
              /\ names'[i] = names[i] \/ i \in ch.renamed
              /\ Children(i)' = {} \/ Children(i) # {} \/ i \in ch.children
<1>. DEFINE tree == Merged(rec)
            left == DOMAIN tree \ Destroyed(tree, gone)
<1>1. /\ gone \subseteq DOMAIN mirror
      /\ mirror' = Restrict(tree, left)
      /\ names' = [j \in left |-> IF j \in S THEN rec[j].name ELSE names[j]]
  BY DEF Patch
<1>2. /\ DOMAIN tree = S \cup DOMAIN mirror
      /\ \A j \in DOMAIN mirror \ S : tree[j] = mirror[j]
  BY DEF Merged, Over
<1>3. ch.removed = Destroyed(tree, gone)
  BY DEF Summary
<1>4. ch.moved = {j \in S \cap DOMAIN mirror : tree[j] # mirror[j]}
  BY DEF Summary
<1>5. ch.renamed = {j \in S \cap DOMAIN mirror : rec[j].name # names[j]}
  BY DEF Summary
<1>6. \A j \in S : (j \in DOMAIN mirror => tree[j] # mirror[j]) =>
        (tree[j] \in DOMAIN tree /\ tree[j] \notin ch.removed /\ tree[j] \in DOMAIN mirror
           => tree[j] \in ch.children)
  BY DEF Summary
<1>. HIDE DEF tree
<1>7. CASE i \in ch.removed
  BY <1>7, <1>1, <1>3 DEF Restrict
<1>8. CASE i \notin ch.removed
  <2>1. i \in left /\ DOMAIN mirror' = left /\ \A j \in left : mirror'[j] = tree[j]
    BY <1>1, <1>2, <1>3, <1>8 DEF Restrict
  <2>2. mirror'[i] = mirror[i] \/ i \in ch.moved
    BY <2>1, <1>2, <1>4
  <2>3. names'[i] = names[i] \/ i \in ch.renamed
    BY <2>1, <1>1, <1>5
  <2>4. ASSUME Children(i) = {}, NEW c \in Children(i)' PROVE i \in ch.children
    <3>1. c \in left /\ tree[c] = i
      BY <2>1, <2>4 DEF Children
    <3>2. c \in S /\ (c \in DOMAIN mirror => tree[c] # mirror[c])
      BY <3>1, <2>4, <1>2 DEF Children
    <3>. QED
      BY <3>1, <3>2, <2>1, <1>2, <1>6, <1>8
  <2>. QED
    BY <2>1, <2>2, <2>3, <2>4
<1>. QED
  BY <1>7, <1>8

LEMMA SentPatch == SentInv /\ ClientPatch => SentInv'
<1>. SUFFICES ASSUME SentInv, ClientPatch PROVE SentInv'
  OBVIOUS
<1>1. IInv' /\ TypeOK /\ IInv
  BY PatchStep DEF SentInv, IInv
<1>2. PICK S \in SUBSET Nodes, gone \in SUBSET Nodes :
        \E rec \in [S -> [parent : Places, kids : BOOLEAN, name : Names]],
           order \in SetToSeqs(S \ DOMAIN mirror) : Patch(rec, order, gone)
  BY PatchIs
<1>3. PICK rec \in [S -> [parent : Places, kids : BOOLEAN, name : Names]],
           order \in SetToSeqs(S \ DOMAIN mirror) : Patch(rec, order, gone)
  BY <1>2
<1>4. /\ UNCHANGED <<world, change, known, loaded, buf, shown, asked>>
      /\ gone \subseteq DOMAIN mirror
  BY <1>3 DEF Patch, stateVars
<1>5. Sent' = Sent /\ TablesTyped' /\ AskedOnce' /\ KnownSent' /\ Released' = Released
  BY <1>4 DEF SentInv, Sent, TablesTyped, AskedOnce, KnownSent, Released
<1>6. PICK ch \in Changes :
        /\ ch = Summary(rec, order, gone, Merged(rec))
        /\ IF ch = NoChange THEN UNCHANGED <<feed, lagged>> ELSE Broadcast(ch)
  BY <1>1, <1>3, <1>4, PatchTypes DEF Patch
<1>7. ASSUME NEW i \in known \ Released, ~ lagged' PROVE Fresh(i)'
  <2>1. /\ \A part : Pending(i, part) => Pending(i, part)'
        /\ ch # NoChange => \A part : i \in ch[part] => Pending(i, part)'
    BY <1>1, <1>4, <1>6, <1>7, PatchPending
  <2>2. ~ lagged /\ Fresh(i)
    BY <1>1, <1>6, <1>7, FeedGrows DEF SentInv, NodesFresh
  <2>3. CASE Pending(i, "removed")
    BY <2>1, <2>3 DEF Fresh
  <2>4. CASE ~ Pending(i, "removed")
    <3>1. /\ i \in DOMAIN mirror
          /\ Sent[i].parent = mirror[i] \/ Pending(i, "moved")
          /\ Sent[i].name = names[i] \/ Pending(i, "renamed")
          /\ Children(i) = {} \/ Sent[i].kids \/ Pending(i, "children")
      BY <2>2, <2>4 DEF Fresh
    <3>2. \/ i \in ch.removed
          \/ /\ i \in DOMAIN mirror'
             /\ mirror'[i] = mirror[i] \/ i \in ch.moved
             /\ names'[i] = names[i] \/ i \in ch.renamed
             /\ Children(i)' = {} \/ Children(i) # {} \/ i \in ch.children
      BY <3>1, <1>1, <1>3, <1>6, PatchTells
    <3>3. i \in ch.removed \/ i \in ch.moved \/ i \in ch.renamed \/ i \in ch.children =>
            ch # NoChange
      BY DEF NoChange
    <3>4. CASE i \in ch.removed
      BY <3>3, <3>4, <2>1 DEF Fresh
    <3>5. CASE i \notin ch.removed
      <4>1. Sent'[i].parent = mirror'[i] \/ Pending(i, "moved")'
        BY <3>1, <3>2, <3>3, <3>5, <2>1, <1>5
      <4>2. Sent'[i].name = names'[i] \/ Pending(i, "renamed")'
        BY <3>1, <3>2, <3>3, <3>5, <2>1, <1>5
      <4>3. Children(i)' = {} \/ Sent'[i].kids \/ Pending(i, "children")'
        BY <3>1, <3>2, <3>3, <3>5, <2>1, <1>5
      <4>. QED
        BY <4>1, <4>2, <4>3, <3>2, <3>5 DEF Fresh
    <3>. QED
      BY <3>4, <3>5
  <2>. QED
    BY <2>3, <2>4
<1>8. NodesFresh'
  BY <1>4, <1>5, <1>7 DEF NodesFresh, Fresh
<1>. QED
  BY <1>1, <1>5, <1>8 DEF SentInv

LEMMA SentRecv == SentInv /\ Recv => SentInv'
<1>. SUFFICES ASSUME SentInv, Recv PROVE SentInv'
  OBVIOUS
<1>1. IInv' /\ IInv /\ TypeOK
  BY RecvStep DEF SentInv, IInv
<1>2. /\ UNCHANGED <<world, treeVars, known, loaded, buf, shown, asked, lagged>>
      /\ change = NoChange /\ change' = Head(feed) /\ feed' = Tail(feed) /\ feed # <<>>
      /\ feed \in Seq(Changes)
  BY <1>1 DEF Recv, IInv, IdleHasNone, stateVars, TypeOK
<1>3. Sent' = Sent /\ TablesTyped' /\ AskedOnce' /\ KnownSent' /\ Released' = Released
  BY <1>2 DEF SentInv, Sent, TablesTyped, AskedOnce, KnownSent, Released
<1>4. ASSUME NEW i, NEW part \in {"removed", "moved", "renamed", "children"}, Pending(i, part)
      PROVE  Pending(i, part)'
  <2>1. PICK k \in DOMAIN feed : i \in feed[k][part]
    BY <1>2, <1>4 DEF Pending, NoChange
  <2>2. k = 1 \/ (k - 1 \in DOMAIN Tail(feed) /\ Tail(feed)[k - 1] = feed[k])
    BY <1>2
  <2>3. Head(feed) = feed[1]
    BY <1>2
  <2>. QED
    BY <1>2, <2>1, <2>2, <2>3 DEF Pending
<1>5. NodesFresh'
  BY <1>2, <1>3, <1>4 DEF SentInv, NodesFresh, Fresh, Children, treeVars
<1>. QED
  BY <1>1, <1>3, <1>5 DEF SentInv

\* Parts of a change other than its new instances.
Parts == {"removed", "moved", "renamed", "children"}

\* Mirrored nodes are sent as the mirror has them, and taken as Verde's.
LEMMA SentAdd ==
    ASSUME SentInv, UNCHANGED <<world, treeVars, lagged>>, NEW S \in SUBSET DOMAIN mirror,
           \A i : \A part \in Parts : Pending(i, part) => Pending(i, part)',
           known' = known \cup S, Released' \subseteq Released \cup S, Released \subseteq Released',
           Sent' = Effect(Sent, AddSubtree([i \in S |-> ShallowNode(i)]))
    PROVE  KnownSent' /\ NodesFresh'
<1>. DEFINE n == [i \in S |-> ShallowNode(i)]
<1>1. DOMAIN n = S /\ \A i \in S : n[i] = ShallowNode(i)
  OBVIOUS
<1>2. Sent' = Effect(Sent, AddSubtree(n))
  OBVIOUS
<1>. HIDE DEF n
<1>3. /\ \A i : i \in DOMAIN Sent' <=> i \in S \/ i \in DOMAIN Sent
      /\ \A i \in S : Sent'[i] = ShallowNode(i)
      /\ \A i \in DOMAIN Sent : i \notin S => Sent'[i] = Sent[i]
  BY <1>1, <1>2, AddEffect
<1>4. KnownSent'
  BY <1>3 DEF SentInv, KnownSent
<1>5. ASSUME NEW i \in known' \ Released' PROVE Fresh(i)'
  <2>1. CASE i \in S
    <3>1. ShallowNode(i).parent = mirror[i] /\ ShallowNode(i).name = names[i]
          /\ (Children(i) # {} => ShallowNode(i).kids)
      BY DEF ShallowNode, HasChildren
    <3>2. Sent'[i].parent = mirror[i] /\ Sent'[i].name = names[i]
          /\ (Children(i) # {} => Sent'[i].kids)
      BY <3>1, <2>1, <1>3
    <3>3. i \in DOMAIN mirror
      BY <2>1
    <3>. QED
      BY <3>2, <3>3 DEF Fresh, Children, treeVars
  <2>2. CASE i \notin S
    <3>1. i \in known \ Released /\ i \in DOMAIN Sent /\ Sent'[i] = Sent[i]
      BY <1>3, <1>5, <2>2 DEF SentInv, KnownSent
    <3>2. Fresh(i)
      BY <3>1 DEF SentInv, NodesFresh
    <3>. QED
      BY <3>1, <3>2 DEF Fresh, Children, treeVars, Parts
  <2>. QED
    BY <2>1, <2>2
<1>. QED
  BY <1>4, <1>5 DEF NodesFresh

\* The same, pushed onto the buffer.
LEMMA BufferAdd ==
    ASSUME SentInv, NEW S \in SUBSET DOMAIN mirror, shown' = shown,
           buf' = Append(buf, AddSubtree([i \in S |-> ShallowNode(i)]))
    PROVE  /\ TablesTyped'
           /\ Sent' = Effect(Sent, AddSubtree([i \in S |-> ShallowNode(i)]))
<1>1. AddSubtree([i \in S |-> ShallowNode(i)]) \in Batches
  BY ShallowTyped, BatchesAre DEF SentInv, IInv
<1>2. buf' \in Seq(Batches)
  BY <1>1 DEF SentInv, TablesTyped
<1>. QED
  BY <1>1, <1>2, ReplayMore DEF SentInv, TablesTyped, Sent

\* Nothing that Verde is sent changes, nor anything it is compared with.
LEMMA SentSame ==
    ASSUME SentInv, UNCHANGED <<world, treeVars, lagged, known>>, Sent' = Sent, Released' = Released,
           \A i : \A part \in Parts : Pending(i, part) => Pending(i, part)'
    PROVE  KnownSent' /\ NodesFresh'
<1>1. KnownSent'
  BY DEF SentInv, KnownSent
<1>2. NodesFresh'
  BY DEF SentInv, NodesFresh, Fresh, Children, treeVars, Parts
<1>. QED
  BY <1>1, <1>2

LEMMA SentAdded == SentInv /\ TranslateAdded => SentInv'
<1>. SUFFICES ASSUME SentInv, TranslateAdded PROVE SentInv'
  OBVIOUS
<1>1. IInv' /\ IInv /\ TypeOK
  BY AddedStep DEF SentInv, IInv
<1>2. /\ UNCHANGED <<world, treeVars, feed, lagged, shown, asked>> /\ Released' = Released
      /\ change' = [change EXCEPT !.added = Tail(change.added)] /\ change \in Changes
      /\ change.added # <<>>
  BY <1>1 DEF TranslateAdded, Released, TypeOK
<1>3. \A i : \A part \in Parts : Pending(i, part) => Pending(i, part)'
  <2>1. \A part \in Parts : change'[part] = change[part]
    BY <1>2 DEF Parts, Changes
  <2>. QED
    BY <1>2, <2>1 DEF Pending
<1>4. AskedOnce'
  BY <1>2 DEF SentInv, AskedOnce
<1>. DEFINE i == Head(change.added)
<1>5. CASE i \in DOMAIN mirror /\ mirror[i] \in known \cup {Root}
  <2>1. /\ buf' = Append(buf, AddSubtree([j \in {i} |-> ShallowNode(j)]))
        /\ known' = known \cup {i} /\ {i} \in SUBSET DOMAIN mirror
    BY <1>5 DEF TranslateAdded
  <2>. HIDE DEF i
  <2>2. TablesTyped' /\ Sent' = Effect(Sent, AddSubtree([j \in {i} |-> ShallowNode(j)]))
    BY <2>1, <1>2, BufferAdd
  <2>3. KnownSent' /\ NodesFresh'
    BY <2>1, <2>2, <1>2, <1>3, SentAdd
  <2>. QED
    BY <2>2, <2>3, <1>1, <1>4 DEF SentInv
<1>6. CASE ~ (i \in DOMAIN mirror /\ mirror[i] \in known \cup {Root})
  <2>1. UNCHANGED stateVars
    BY <1>6 DEF TranslateAdded
  <2>2. Sent' = Sent /\ TablesTyped' /\ known' = known
    BY <2>1, <1>2 DEF Sent, TablesTyped, stateVars, SentInv
  <2>3. KnownSent' /\ NodesFresh'
    BY <2>2, <1>2, <1>3, SentSame
  <2>. QED
    BY <2>2, <2>3, <1>1, <1>4 DEF SentInv
<1>. QED
  BY <1>5, <1>6

\* What the rest of a change makes of the table, node by node.
LEMMA RestTells ==
    ASSUME SentInv, TranslateRest
    PROVE  /\ TablesTyped'
           /\ \A i : /\ i \in DOMAIN Sent' <=> i \in DOMAIN Sent /\ i \notin change.removed \cap known
                     /\ i \in DOMAIN Sent' =>
                          LET left == known \ change.removed
                          IN  /\ Sent'[i].parent = IF i \in change.moved \cap left
                                                   THEN IF i \in DOMAIN mirror THEN mirror[i] ELSE Root
                                                   ELSE Sent[i].parent
                              /\ Sent'[i].name = IF i \in change.renamed \cap left \cap DOMAIN mirror
                                                 THEN names[i] ELSE Sent[i].name
                              /\ Sent'[i].kids = IF i \in change.children \cap left \cap DOMAIN mirror
                                                 THEN HasChildren(i) ELSE Sent[i].kids
<1>. DEFINE removed  == change.removed \cap known
            left     == known \ removed
            moved    == change.moved \cap left
            renamed  == change.renamed \cap left \cap DOMAIN mirror
            children == change.children \cap left \cap DOMAIN mirror
            place(i) == IF i \in DOMAIN mirror THEN mirror[i] ELSE Root
            f2 == [i \in moved |-> place(i)]
            f3 == [i \in renamed |-> names[i]]
            f4 == [i \in children |-> HasChildren(i)]
            ops1 == Push(buf, removed, RemoveNode(removed))
            ops2 == Push(ops1, moved, MoveNode(f2))
            ops3 == Push(ops2, renamed, RenameNode(f3))
            ops4 == Push(ops3, children, HasChildrenOf(f4))
            t0 == Sent
            t1 == Effect(t0, RemoveNode(removed))
            t2 == Effect(t1, MoveNode(f2))
            t3 == Effect(t2, RenameNode(f3))
            t4 == Effect(t3, HasChildrenOf(f4))
<1>1. buf' = ops4 /\ shown' = shown
  BY DEF TranslateRest
<1>2. /\ shown \in Tables /\ buf \in Seq(Batches) /\ TypeOK /\ known \subseteq Nodes
      /\ t0 = Replay(shown, buf)
  BY DEF SentInv, TablesTyped, IInv, TypeOK, Sent
<1>3. /\ removed \in SUBSET Nodes /\ left = known \ change.removed
      /\ DOMAIN f2 = moved /\ f2 \in Partial(Places)
      /\ DOMAIN f3 = renamed /\ f3 \in Partial(Names)
      /\ DOMAIN f4 = children /\ f4 \in Partial(BOOLEAN)
      /\ \A i \in moved : f2[i] = place(i)
      /\ \A i \in renamed : f3[i] = names[i]
      /\ \A i \in children : f4[i] = HasChildren(i)
  <2>1. \A i \in moved : i \in Nodes /\ place(i) \in Places
    BY <1>2 DEF TypeOK, Places
  <2>2. \A i \in renamed : i \in Nodes /\ names[i] \in Names
    BY <1>2 DEF TypeOK
  <2>3. \A i \in children : i \in Nodes /\ HasChildren(i) \in BOOLEAN
    BY <1>2 DEF TypeOK, HasChildren
  <2>4. f2 \in Partial(Places)
    BY <2>1, PartialIs
  <2>5. f3 \in Partial(Names)
    BY <2>2, PartialIs
  <2>6. f4 \in Partial(BOOLEAN)
    BY <2>3, PartialIs
  <2>. QED
    BY <1>2, <2>4, <2>5, <2>6
<1>4. /\ RemoveNode(removed) \in Batches /\ MoveNode(f2) \in Batches
      /\ RenameNode(f3) \in Batches /\ HasChildrenOf(f4) \in Batches
  BY <1>3, BatchesAre
<1>. HIDE DEF removed, moved, renamed, children, f2, f3, f4, place
<1>5. t0 \in Tables
  BY <1>2, ReplayTyped
<1>6. ops1 \in Seq(Batches) /\ Replay(shown, ops1) = t1 /\ t1 \in Tables
  <2>1. removed = {} => Effect(t0, RemoveNode(removed)) = t0
    BY <1>5, EmptyBatch, <1>3
  <2>2. t1 \in Tables
    BY <1>4, <1>5, EffectTyped
  <2>. QED
    BY <2>1, <2>2, <1>2, <1>4, Pushed
<1>7. ops2 \in Seq(Batches) /\ Replay(shown, ops2) = t2 /\ t2 \in Tables
  <2>. HIDE DEF ops1, t1
  <2>1. moved = {} => Effect(t1, MoveNode(f2)) = t1
    BY <1>6, EmptyBatch, <1>3
  <2>2. t2 \in Tables
    BY <1>4, <1>6, EffectTyped
  <2>. QED
    BY <2>1, <2>2, <1>2, <1>4, <1>6, Pushed
<1>8. ops3 \in Seq(Batches) /\ Replay(shown, ops3) = t3 /\ t3 \in Tables
  <2>. HIDE DEF ops2, t2
  <2>1. renamed = {} => Effect(t2, RenameNode(f3)) = t2
    BY <1>7, EmptyBatch, <1>3
  <2>2. t3 \in Tables
    BY <1>4, <1>7, EffectTyped
  <2>. QED
    BY <2>1, <2>2, <1>2, <1>4, <1>7, Pushed
<1>9. ops4 \in Seq(Batches) /\ Replay(shown, ops4) = t4 /\ t4 \in Tables
  <2>. HIDE DEF ops3, t3
  <2>1. children = {} => Effect(t3, HasChildrenOf(f4)) = t3
    BY <1>8, EmptyBatch, <1>3
  <2>2. t4 \in Tables
    BY <1>4, <1>8, EffectTyped
  <2>. QED
    BY <2>1, <2>2, <1>2, <1>4, <1>8, Pushed
<1>10. TablesTyped' /\ Sent' = t4
  <2>. HIDE DEF ops4, t4
  <2>. QED
    BY <1>1, <1>2, <1>9 DEF TablesTyped, Sent
<1>. HIDE DEF ops1, ops2, ops3, ops4, t0, t1, t2, t3, t4
<1>11. ASSUME NEW i
       PROVE  /\ i \in DOMAIN t4 <=> i \in DOMAIN t0 /\ i \notin removed
              /\ i \in DOMAIN t4 =>
                   /\ t4[i].parent = IF i \in moved THEN place(i) ELSE t0[i].parent
                   /\ t4[i].name = IF i \in renamed THEN names[i] ELSE t0[i].name
                   /\ t4[i].kids = IF i \in children THEN HasChildren(i) ELSE t0[i].kids
  <2>1. /\ i \in DOMAIN t1 <=> i \in DOMAIN t0 /\ i \notin removed
        /\ i \in DOMAIN t1 => t1[i] = t0[i]
    BY RemoveEffect DEF t1
  <2>2. /\ i \in DOMAIN t2 <=> i \in DOMAIN t1
        /\ i \in DOMAIN t1 =>
             /\ t2[i].parent = IF i \in moved THEN place(i) ELSE t1[i].parent
             /\ t2[i].name = t1[i].name /\ t2[i].kids = t1[i].kids
    BY <1>3, <1>6, MoveEffect DEF t2
  <2>3. /\ i \in DOMAIN t3 <=> i \in DOMAIN t2
        /\ i \in DOMAIN t2 =>
             /\ t3[i].name = IF i \in renamed THEN names[i] ELSE t2[i].name
             /\ t3[i].parent = t2[i].parent /\ t3[i].kids = t2[i].kids
    BY <1>3, <1>7, RenameEffect DEF t3
  <2>4. /\ i \in DOMAIN t4 <=> i \in DOMAIN t3
        /\ i \in DOMAIN t3 =>
             /\ t4[i].kids = IF i \in children THEN HasChildren(i) ELSE t3[i].kids
             /\ t4[i].parent = t3[i].parent /\ t4[i].name = t3[i].name
    BY <1>3, <1>8, ChildrenEffect DEF t4
  <2>. QED
    BY <2>1, <2>2, <2>3, <2>4
<1>. QED
  BY <1>3, <1>10, <1>11 DEF t0, removed, moved, renamed, children, place

LEMMA SentRest == SentInv /\ TranslateRest => SentInv'
<1>. SUFFICES ASSUME SentInv, TranslateRest PROVE SentInv'
  OBVIOUS
<1>1. IInv' /\ IInv
  BY RestStep DEF SentInv
<1>2. /\ UNCHANGED <<world, treeVars, feed, lagged, asked>> /\ Released' = Released
      /\ known' = known \ (change.removed \cap known) /\ change' = NoChange
  BY DEF TranslateRest, Released
<1>3. AskedOnce'
  BY <1>2 DEF SentInv, AskedOnce
<1>4. TablesTyped' /\ \A i : i \in DOMAIN Sent' <=> i \in DOMAIN Sent /\ i \notin change.removed \cap known
  BY RestTells
<1>5. KnownSent'
  BY <1>2, <1>4 DEF SentInv, KnownSent
<1>6. ASSUME NEW i \in known' \ Released', ~ lagged PROVE Fresh(i)'
  <2>1. /\ i \in known \ Released /\ i \notin change.removed /\ Fresh(i)
        /\ i \in DOMAIN Sent /\ i \in DOMAIN Sent'
    BY <1>2, <1>4, <1>6 DEF SentInv, NodesFresh, KnownSent
  <2>2. \A part : Pending(i, part) => i \in change[part] \/ Pending(i, part)'
    BY <1>2 DEF Pending
  <2>3. CASE Pending(i, "removed")
    BY <2>1, <2>2, <2>3 DEF Fresh
  <2>4. CASE ~ Pending(i, "removed")
    <3>1. /\ i \in DOMAIN mirror
          /\ Sent[i].parent = mirror[i] \/ Pending(i, "moved")
          /\ Sent[i].name = names[i] \/ Pending(i, "renamed")
          /\ Children(i) = {} \/ Sent[i].kids \/ Pending(i, "children")
      BY <2>1, <2>4, <1>6 DEF Fresh
    <3>2. /\ Sent'[i].parent = IF i \in change.moved THEN mirror[i] ELSE Sent[i].parent
          /\ Sent'[i].name = IF i \in change.renamed THEN names[i] ELSE Sent[i].name
          /\ Sent'[i].kids = IF i \in change.children THEN HasChildren(i) ELSE Sent[i].kids
      BY <2>1, <3>1, RestTells
    <3>3. Sent'[i].parent = mirror[i] \/ Pending(i, "moved")'
      BY <3>1, <3>2, <2>2
    <3>4. Sent'[i].name = names[i] \/ Pending(i, "renamed")'
      BY <3>1, <3>2, <2>2
    <3>5. Children(i) = {} \/ Sent'[i].kids \/ Pending(i, "children")'
      BY <3>1, <3>2, <2>2 DEF HasChildren
    <3>. QED
      BY <1>2, <3>1, <3>3, <3>4, <3>5 DEF Fresh, treeVars, Children
  <2>. QED
    BY <2>3, <2>4
<1>7. NodesFresh'
  BY <1>2, <1>6 DEF NodesFresh, Fresh
<1>. QED
  BY <1>1, <1>3, <1>4, <1>5, <1>7 DEF SentInv

\* A snapshot makes Verde's table the mirror's.
LEMMA SentSeed ==
    ASSUME SentInv, UNCHANGED <<world, treeVars>>, Released' = {}, NEW snapshot, NEW full \in BOOLEAN,
           Seed(snapshot, full), snapshot \in {RootsSnapshot, FullSnapshot}
    PROVE  TablesTyped' /\ KnownSent' /\ NodesFresh'
<1>1. known' = DOMAIN snapshot /\ buf' = <<>> /\ shown' = snapshot
  BY DEF Seed
<1>2. TablesTyped'
  BY <1>1, ShallowTyped, EmptySeq DEF TablesTyped, SentInv, IInv
<1>3. Sent' = snapshot
  BY <1>1, ReplayNone DEF Sent
<1>4. KnownSent'
  BY <1>1, <1>3 DEF KnownSent
<1>5. ASSUME NEW i \in known'
      PROVE  /\ i \in DOMAIN mirror /\ snapshot[i].parent = mirror[i] /\ snapshot[i].name = names[i]
             /\ Children(i) # {} => snapshot[i].kids
  <2>1. CASE snapshot = RootsSnapshot
    BY <2>1, <1>1, <1>5, SnapshotsShow DEF Children
  <2>2. CASE snapshot = FullSnapshot
    BY <2>2, <1>1, <1>5, SnapshotsShow
  <2>. QED
    BY <2>1, <2>2
<1>6. NodesFresh'
  BY <1>3, <1>5 DEF NodesFresh, Fresh, Children, treeVars
<1>. QED
  BY <1>2, <1>4, <1>6

LEMMA SentResync == SentInv /\ FullResync => SentInv'
<1>. SUFFICES ASSUME SentInv, FullResync PROVE SentInv'
  OBVIOUS
<1>1. IInv'
  BY ResyncStep DEF SentInv
<1>2. UNCHANGED <<world, treeVars, asked>> /\ Seed(FullSnapshot, TRUE) /\ AskedOnce'
  BY DEF FullResync, SentInv, AskedOnce
<1>3. TablesTyped' /\ KnownSent' /\ NodesFresh'
  <2>1. /\ known' = DOMAIN FullSnapshot /\ buf' = <<>> /\ shown' = FullSnapshot
    BY <1>2 DEF Seed
  <2>2. TablesTyped'
    BY <2>1, ShallowTyped, EmptySeq DEF TablesTyped, SentInv, IInv
  <2>3. Sent' = FullSnapshot
    BY <2>1, ReplayNone DEF Sent
  <2>4. KnownSent'
    BY <2>1, <2>3 DEF KnownSent
  <2>5. NodesFresh'
    BY <2>1, <2>3, <1>2, SnapshotsShow DEF NodesFresh, Fresh, Children, treeVars
  <2>. QED
    BY <2>2, <2>4, <2>5
<1>. QED
  BY <1>1, <1>2, <1>3 DEF SentInv

\* Once a request is served none is under way.
LEMMA Served ==
    ASSUME AskedOnce, NEW type, Serve(type)
    PROVE  /\ asked' = <<>> /\ AskedOnce' /\ Released' = {}
           /\ Released = IF type = "release_subtree" THEN Head(asked).nodes ELSE {}
           /\ type = "release_subtree" => "release" \in world
           /\ UNCHANGED <<world, treeVars, used, feedVars>>
<1>1. asked # <<>> /\ Head(asked).type = type /\ asked' = Tail(asked)
  BY DEF Serve
<1>2. PICK r : asked = <<r>> /\ (r.type = "release_subtree" => "release" \in world)
  BY <1>1 DEF AskedOnce
<1>3. Tail(asked) = <<>> /\ Head(asked) = r
  BY <1>2
<1>. QED
  BY <1>1, <1>2, <1>3 DEF AskedOnce, Released, Serve

LEMMA SentSnapshot == SentInv /\ RequestSnapshot => SentInv'
<1>. SUFFICES ASSUME SentInv, RequestSnapshot PROVE SentInv'
  OBVIOUS
<1>1. IInv'
  BY OtherSteps DEF SentInv
<1>2. Serve("request_snapshot")
  BY DEF RequestSnapshot
<1>3. AskedOnce' /\ Released' = {} /\ UNCHANGED <<world, treeVars>>
  BY <1>2, Served DEF SentInv
<1>4. TablesTyped' /\ KnownSent' /\ NodesFresh'
  <2>1. CASE Head(asked).full
    BY <2>1, <1>3, SentSeed DEF RequestSnapshot
  <2>2. CASE ~ Head(asked).full
    BY <2>2, <1>3, SentSeed DEF RequestSnapshot
  <2>. QED
    BY <2>1, <2>2
<1>. QED
  BY <1>1, <1>3, <1>4 DEF SentInv

LEMMA PendingSame ==
    ASSUME UNCHANGED feedVars
    PROVE  \A i : \A part \in Parts : Pending(i, part) => Pending(i, part)'
BY DEF feedVars, Pending

LEMMA SentFlush == SentInv /\ Flush => SentInv'
<1>. SUFFICES ASSUME SentInv, Flush PROVE SentInv'
  OBVIOUS
<1>1. IInv'
  BY OtherSteps DEF SentInv
<1>2. shown' = Sent /\ buf' = <<>> /\ UNCHANGED <<world, treeVars, feedVars, known, asked, lagged>>
  BY DEF Flush, Sent, feedVars
<1>3. Sent' = Sent
  BY <1>2, ReplayNone DEF Sent
<1>4. TablesTyped'
  BY <1>2, ReplayTyped, EmptySeq DEF SentInv, TablesTyped, Sent
<1>5. AskedOnce' /\ Released' = Released
  BY <1>2 DEF SentInv, AskedOnce, Released
<1>6. KnownSent' /\ NodesFresh'
  BY <1>2, <1>3, <1>5, SentSame, PendingSame
<1>. QED
  BY <1>1, <1>4, <1>5, <1>6 DEF SentInv

LEMMA SentChildren == SentInv /\ RequestChildren => SentInv'
<1>. SUFFICES ASSUME SentInv, RequestChildren PROVE SentInv'
  OBVIOUS
<1>1. IInv' /\ IInv /\ TypeOK
  BY OtherSteps DEF SentInv, IInv
<1>2. Serve("request_children") /\ shown' = shown
  BY DEF RequestChildren
<1>3. AskedOnce' /\ Released' = {} /\ Released = {} /\ UNCHANGED <<world, treeVars, feedVars, lagged>>
  BY <1>2, Served DEF SentInv, feedVars
<1>. DEFINE p == Head(asked).parent
<1>4. CASE p \in loaded \/ p \notin known
  <2>1. UNCHANGED stateVars
    BY <1>4 DEF RequestChildren
  <2>2. TablesTyped' /\ Sent' = Sent /\ known' = known
    BY <2>1, <1>2 DEF Sent, TablesTyped, stateVars, SentInv
  <2>3. KnownSent' /\ NodesFresh'
    BY <2>2, <1>3, SentSame, PendingSame
  <2>. QED
    BY <2>2, <2>3, <1>1, <1>3 DEF SentInv
<1>5. CASE p \notin loaded /\ p \in known
  <2>1. /\ known' = known \cup Children(p)
        /\ buf' = IF Children(p) # {}
                  THEN Append(buf, AddSubtree([i \in Children(p) |-> ShallowNode(i)]))
                  ELSE IF p \in DOMAIN mirror /\ flags[p] THEN buf
                  ELSE Append(buf, HasChildrenOf([i \in {p} |-> FALSE]))
    BY <1>5 DEF RequestChildren
  <2>. HIDE DEF p
  <2>2. CASE Children(p) # {}
    <3>. DEFINE S == Children(p)
    <3>1. S \in SUBSET DOMAIN mirror /\ known' = known \cup S
          /\ buf' = Append(buf, AddSubtree([i \in S |-> ShallowNode(i)]))
      BY <2>1, <2>2 DEF Children
    <3>. HIDE DEF S
    <3>2. TablesTyped' /\ Sent' = Effect(Sent, AddSubtree([i \in S |-> ShallowNode(i)]))
      BY <3>1, <1>2, BufferAdd
    <3>3. KnownSent' /\ NodesFresh'
      BY <3>1, <3>2, <1>3, SentAdd, PendingSame
    <3>. QED
      BY <3>2, <3>3, <1>1, <1>3 DEF SentInv
  <2>3. CASE Children(p) = {} /\ buf' = buf
    <3>1. TablesTyped' /\ Sent' = Sent /\ known' = known
      BY <2>1, <2>3, <1>2 DEF Sent, TablesTyped, SentInv
    <3>2. KnownSent' /\ NodesFresh'
      BY <3>1, <1>3, SentSame, PendingSame
    <3>. QED
      BY <3>1, <3>2, <1>1, <1>3 DEF SentInv
  <2>4. CASE Children(p) = {} /\ buf' = Append(buf, HasChildrenOf([i \in {p} |-> FALSE]))
    <3>. DEFINE f == [i \in {p} |-> FALSE]
    <3>1. DOMAIN f = {p} /\ f \in Partial(BOOLEAN)
      <4>1. p \in Nodes
        BY <1>1, <1>5 DEF TypeOK
      <4>2. DOMAIN f = {p} /\ f = [i \in DOMAIN f |-> f[i]] /\ \A i \in DOMAIN f : f[i] \in BOOLEAN
        OBVIOUS
      <4>. HIDE DEF f
      <4>. QED
        BY <4>1, <4>2, PartialIs
    <3>2. buf' = Append(buf, HasChildrenOf(f)) /\ known' = known
      BY <2>1, <2>4
    <3>. HIDE DEF f
    <3>3. HasChildrenOf(f) \in Batches
      BY <3>1, BatchesAre
    <3>4. TablesTyped' /\ Sent' = Effect(Sent, HasChildrenOf(f)) /\ Sent \in Tables
      BY <3>2, <3>3, <1>2, ReplayMore, ReplayTyped DEF SentInv, TablesTyped, Sent
    <3>5. \A i : /\ i \in DOMAIN Sent' <=> i \in DOMAIN Sent
                 /\ i \in DOMAIN Sent => /\ Sent'[i].parent = Sent[i].parent
                                         /\ Sent'[i].name = Sent[i].name
                                         /\ i # p => Sent'[i].kids = Sent[i].kids
      BY <3>1, <3>4, ChildrenEffect
    <3>6. KnownSent'
      BY <3>2, <3>5, <1>3 DEF SentInv, KnownSent
    <3>7. ASSUME NEW i \in known PROVE Fresh(i)'
      <4>1. Fresh(i) /\ i \in DOMAIN Sent
        BY <3>7, <1>3 DEF SentInv, NodesFresh, KnownSent
      <4>2. \A part \in Parts : Pending(i, part) => Pending(i, part)'
        BY <1>3, PendingSame
      <4>3. Children(i)' = Children(i)
        BY <1>3 DEF Children, treeVars
      <4>. QED
        BY <4>1, <4>2, <4>3, <3>5, <2>4, <1>3 DEF Fresh, treeVars, Parts
    <3>. QED
      BY <3>2, <3>4, <3>6, <3>7, <1>1, <1>3 DEF SentInv, NodesFresh
  <2>. QED
    BY <2>1, <2>2, <2>3, <2>4
<1>. QED
  BY <1>4, <1>5

LEMMA SentRelease == SentInv /\ ReleaseSubtree => SentInv'
<1>. SUFFICES ASSUME SentInv, ReleaseSubtree PROVE SentInv'
  OBVIOUS
<1>1. IInv'
  BY OtherSteps DEF SentInv
<1>2. Serve("release_subtree") /\ UNCHANGED <<buf, shown>> /\ known' = known \ Head(asked).nodes
  BY DEF ReleaseSubtree
<1>3. /\ AskedOnce' /\ Released' = {} /\ Released = Head(asked).nodes /\ "release" \in world
      /\ UNCHANGED <<world, treeVars, feedVars, lagged>>
  BY <1>2, Served DEF SentInv, feedVars
<1>4. Sent' = Sent /\ TablesTyped'
  BY <1>2 DEF Sent, TablesTyped, SentInv
<1>5. KnownSent'
  BY <1>2, <1>3, <1>4 DEF SentInv, KnownSent
<1>6. NodesFresh'
  BY <1>2, <1>3, <1>4, PendingSame DEF SentInv, NodesFresh, Fresh, Children, treeVars, Parts
<1>. QED
  BY <1>1, <1>3, <1>4, <1>5, <1>6 DEF SentInv

\* What is revealed is flushed at once.
LEMMA RevealSends ==
    ASSUME SentInv, NEW i, Reveal(i),
           NEW chain, chain = IF i \in DOMAIN mirror \ known THEN Chain(i) ELSE {}
    PROVE  /\ chain \in SUBSET DOMAIN mirror /\ known' = known \cup chain
           /\ TablesTyped' /\ Sent' = Effect(Sent, AddSubtree([a \in chain |-> ShallowNode(a)]))
           /\ shown' = Sent'
           /\ UNCHANGED <<world, treeVars, used, feedVars, asked, lagged>>
<1>. DEFINE n   == [a \in chain |-> ShallowNode(a)]
            ops == Push(buf, chain, AddSubtree(n))
<1>1. /\ known' = known \cup chain /\ shown' = Replay(shown, ops) /\ buf' = <<>>
      /\ UNCHANGED <<world, treeVars, used, feedVars, asked, lagged>>
  BY DEF Reveal, feedVars
<1>2. chain \in SUBSET DOMAIN mirror
  BY DEF Chain
<1>3. AddSubtree(n) \in Batches
  BY <1>2, ShallowTyped, BatchesAre DEF SentInv, IInv
<1>4. Sent \in Tables /\ shown \in Tables /\ buf \in Seq(Batches) /\ Sent = Replay(shown, buf)
  BY ReplayTyped DEF SentInv, TablesTyped, Sent
<1>5. chain = {} => Effect(Sent, AddSubtree(n)) = Sent
  <2>1. Sent = [a \in DOMAIN Sent |-> Sent[a]]
    BY <1>4, PartialIs DEF Tables
  <2>. QED
    BY <2>1 DEF Effect, AddSubtree, Over
<1>. HIDE DEF n
<1>6. ops \in Seq(Batches) /\ Replay(shown, ops) = Effect(Sent, AddSubtree(n))
  BY <1>3, <1>4, <1>5, Pushed
<1>7. shown' \in Tables
  BY <1>1, <1>4, <1>6, ReplayTyped
<1>8. TablesTyped' /\ Sent' = Effect(Sent, AddSubtree(n)) /\ shown' = Sent'
  BY <1>1, <1>6, <1>7, ReplayNone, EmptySeq DEF TablesTyped, Sent
<1>. QED
  BY <1>1, <1>2, <1>8 DEF n

LEMMA SentReveal == \A i \in Nodes : SentInv /\ Reveal(i) => SentInv'
<1>. SUFFICES ASSUME NEW i \in Nodes, SentInv, Reveal(i) PROVE SentInv'
  OBVIOUS
<1>1. IInv'
  BY OtherSteps DEF SentInv, Verde
<1>. DEFINE chain == IF i \in DOMAIN mirror \ known THEN Chain(i) ELSE {}
<1>2. /\ chain \in SUBSET DOMAIN mirror /\ known' = known \cup chain
      /\ TablesTyped' /\ Sent' = Effect(Sent, AddSubtree([a \in chain |-> ShallowNode(a)]))
      /\ UNCHANGED <<world, treeVars, feedVars, asked, lagged>>
  BY RevealSends
<1>. HIDE DEF chain
<1>3. AskedOnce' /\ Released' = Released
  BY <1>2 DEF SentInv, AskedOnce, Released
<1>4. KnownSent' /\ NodesFresh'
  BY <1>2, <1>3, SentAdd, PendingSame
<1>. QED
  BY <1>1, <1>2, <1>3, <1>4 DEF SentInv

LEMMA Asked ==
    ASSUME SentInv, NEW r, Ask(r), r.type = "release_subtree" => "release" \in world
    PROVE  /\ AskedOnce' /\ Released = {}
           /\ Released' = IF r.type = "release_subtree" THEN r.nodes ELSE {}
           /\ UNCHANGED <<world, treeVars, feedVars, lagged, known, buf>>
<1>1. asked = <<>> /\ asked' = <<r>>
  BY DEF Ask
<1>2. Head(<<r>>) = r /\ <<r>> # <<>>
  OBVIOUS
<1>. QED
  BY <1>1, <1>2 DEF Ask, AskedOnce, Released, feedVars, stateVars

LEMMA SentAsk ==
    ASSUME SentInv, NEW r, Ask(r), r.type # "release_subtree", shown' = shown, IInv'
    PROVE  SentInv'
<1>1. /\ AskedOnce' /\ Released' = Released
      /\ UNCHANGED <<world, treeVars, feedVars, lagged, known, buf>>
  BY Asked
<1>2. Sent' = Sent /\ TablesTyped'
  BY <1>1 DEF Sent, TablesTyped, SentInv
<1>3. KnownSent' /\ NodesFresh'
  BY <1>1, <1>2, SentSame, PendingSame
<1>. QED
  BY <1>1, <1>2, <1>3 DEF SentInv

LEMMA SentCollapse == \A p \in Nodes : SentInv /\ Collapse(p) => SentInv'
<1>. SUFFICES ASSUME NEW p \in Nodes, SentInv, Collapse(p) PROVE SentInv'
  OBVIOUS
<1>1. IInv'
  BY OtherSteps DEF SentInv, Verde
<1>. DEFINE below == Subtree([i \in DOMAIN shown |-> shown[i].parent], p) \ {p}
            r == [type |-> "release_subtree", parent |-> p, nodes |-> below]
<1>2. "release" \in world /\ Ask(r) /\ shown' = Restrict(shown, DOMAIN shown \ below)
  BY DEF Collapse
<1>. HIDE DEF below
<1>3. r.type = "release_subtree" /\ r.nodes = below
  OBVIOUS
<1>4. /\ AskedOnce' /\ Released = {} /\ Released' = below
      /\ UNCHANGED <<world, treeVars, feedVars, lagged, known, buf>>
  <2>. HIDE DEF r
  <2>. QED
    BY <1>2, <1>3, Asked
<1>5. shown \in Tables /\ buf \in Seq(Batches)
  BY DEF SentInv, TablesTyped
<1>6. /\ DOMAIN shown' = DOMAIN shown \ below /\ \A i \in DOMAIN shown' : shown'[i] = shown[i]
      /\ shown' = [i \in DOMAIN shown' |-> shown'[i]]
  BY <1>2 DEF Restrict
<1>7. TablesTyped'
  <2>1. \A i \in DOMAIN shown' : i \in Nodes /\ shown'[i] \in TableNode
    BY <1>5, <1>6, PartialIs DEF Tables
  <2>. QED
    BY <2>1, <1>4, <1>5, <1>6, PartialIs DEF TablesTyped, Tables
<1>8. ASSUME NEW i, i \notin below
      PROVE  AlikeAt(i, Sent, Sent')
  <2>1. AlikeAt(i, shown, shown')
    BY <1>6, <1>8 DEF AlikeAt
  <2>. QED
    BY <2>1, <1>4, <1>5, ReplayPointwise DEF Sent
<1>9. KnownSent'
  BY <1>2, <1>4, <1>8 DEF SentInv, KnownSent, AlikeAt
<1>10. NodesFresh'
  <2>. SUFFICES ASSUME NEW i \in known, i \notin below PROVE Fresh(i)'
    BY <1>4 DEF NodesFresh
  <2>1. Fresh(i) /\ i \in DOMAIN Sent /\ Sent'[i] = Sent[i]
    BY <1>4, <1>8 DEF SentInv, NodesFresh, KnownSent, AlikeAt
  <2>. QED
    BY <2>1, <1>4, PendingSame DEF Fresh, Children, treeVars, Parts
<1>. QED
  BY <1>1, <1>4, <1>7, <1>9, <1>10 DEF SentInv

LEMMA SentStep == SentInv /\ [Next]_vars => SentInv'
<1>. SUFFICES ASSUME SentInv, [Next]_vars PROVE SentInv'
  OBVIOUS
<1>1. IInv'
  BY StepInv DEF SentInv
<1>2. ASSUME NEW i \in Nodes, Expand(i) PROVE SentInv'
  <2>. DEFINE r == [type |-> "request_children", parent |-> i]
  <2>1. Ask(r) /\ r.type # "release_subtree" /\ shown' = shown
    BY <1>2 DEF Expand
  <2>. HIDE DEF r
  <2>. QED
    BY <2>1, <1>1, SentAsk
<1>3. ASSUME NEW full \in BOOLEAN, AskSnapshot(full) PROVE SentInv'
  <2>. DEFINE r == [type |-> "request_snapshot", full |-> full]
  <2>1. Ask(r) /\ r.type # "release_subtree" /\ shown' = shown
    BY <1>3 DEF AskSnapshot
  <2>. HIDE DEF r
  <2>. QED
    BY <2>1, <1>1, SentAsk
<1>4. CASE Verde
  BY <1>2, <1>3, <1>4, SentReveal, SentCollapse DEF Verde
<1>5. CASE Connection
  BY <1>5, SentRecv, SentAdded, SentRest, SentResync, SentFlush, SentSnapshot, SentChildren,
     SentRelease DEF Connection
<1>6. CASE UNCHANGED vars
  <2>1. UNCHANGED <<world, treeVars, feedVars, lagged, known, buf, shown, asked>>
    BY <1>6 DEF vars, feedVars, stateVars
  <2>2. Sent' = Sent /\ TablesTyped' /\ AskedOnce' /\ Released' = Released
    BY <2>1 DEF Sent, TablesTyped, AskedOnce, Released, SentInv
  <2>3. KnownSent' /\ NodesFresh'
    BY <2>1, <2>2, SentSame, PendingSame
  <2>. QED
    BY <1>1, <2>2, <2>3 DEF SentInv
<1>. QED
  BY <1>4, <1>5, <1>6, SentPatch DEF Next

LEMMA SentInvariant == Spec => []SentInv
BY SentInit, SentStep, PTL DEF Spec

\* The connection's and the mirror's variables keep their types: the feed never outgrows
\* its capacity, and the connection takes Verde to have ids only that were given out.
THEOREM TypeCorrect == Spec => []TypeOK
<1>1. IInv => TypeOK
  BY DEF IInv
<1>. QED
  BY Invariant, <1>1, PTL

\* Whatever is patched, asked, released, revealed or lost, a node that Verde is taken to
\* have is mirrored, or its removal is still to be read, or a full snapshot is due.
THEOREM GhostsCorrect == Spec => []GhostsAreAnnounced
<1>1. IInv => GhostsAreAnnounced
  BY DEF IInv
<1>. QED
  BY Invariant, <1>1, PTL

\* What Verde is taken to have it has been sent, whatever else is on its way; and, where
\* Verde never releases anything, nothing else.
THEOREM KnownCorrect == Spec => []KnownIsShown
<1>1. SentInv => KnownIsShown
  BY DEF SentInv, KnownSent, KnownIsShown, Sent
<1>. QED
  BY SentInvariant, <1>1, PTL

\* With nothing left to read and to send, what was sent is what the mirror has.
LEMMA SettledFresh ==
    ASSUME SentInv, Settled, NEW i \in known
    PROVE  /\ Sent = shown /\ i \in DOMAIN mirror /\ shown[i].parent = mirror[i]
           /\ shown[i].name = names[i] /\ (Children(i) = {} \/ shown[i].kids)
<1>1. Sent = shown /\ Released = {} /\ ~ lagged /\ change = NoChange /\ feed = <<>>
  BY ReplayNone DEF Settled, Sent, Released, SentInv, IInv, IdleHasNone
<1>2. \A part \in Parts : ~ Pending(i, part)
  BY <1>1 DEF Pending, NoChange, Parts
<1>3. Fresh(i)
  BY <1>1 DEF SentInv, NodesFresh
<1>. QED
  BY <1>1, <1>2, <1>3 DEF Fresh, Parts

\* Translating each change against a later mirror, losing changes, releasing and asking
\* again: when all is read and sent, every node the connection minds is shown in its place
\* and under its name.
THEOREM ShownCorrect == Spec => []ShownIsMirrored
<1>1. SentInv => ShownIsMirrored
  BY SettledFresh DEF ShownIsMirrored
<1>. QED
  BY SentInvariant, <1>1, PTL

\* When all is read and sent, a node with mirrored children can be expanded.
THEOREM ExpandableCorrect == Spec => []Expandable
<1>1. SentInv => Expandable
  BY SettledFresh DEF Expandable
<1>. QED
  BY SentInvariant, <1>1, PTL

(***************************************************************************)
(* Trees: what is reached on the way up.                                   *)
(***************************************************************************)
\* A node that is not in the tree, or hangs off the root, reaches itself only.
LEMMA TopReaches ==
    ASSUME NEW tree, NEW y \in Nodes, y \in DOMAIN tree => tree[y] = Root, NEW a, Reaches(tree, y, a)
    PROVE  a = y
<1>1. {y} \in SUBSET Nodes /\ Closed(tree, {y})
  BY DEF Closed
<1>. QED
  BY <1>1 DEF Reaches

LEMMA StepUp ==
    ASSUME NEW tree, NEW y \in Nodes, NEW a, Reaches(tree, y, a), a # y
    PROVE  y \in DOMAIN tree /\ tree[y] # Root /\ Reaches(tree, tree[y], a)
<1>1. y \in DOMAIN tree /\ tree[y] # Root
  BY TopReaches
<1>2. ASSUME NEW S \in SUBSET Nodes, tree[y] \in S, Closed(tree, S) PROVE a \in S
  <2>1. S \cup {y} \in SUBSET Nodes /\ Closed(tree, S \cup {y})
    BY <1>2 DEF Closed
  <2>2. a \in S \cup {y}
    BY <2>1 DEF Reaches
  <2>. QED
    BY <2>2
<1>. QED
  BY <1>1, <1>2 DEF Reaches

LEMMA StepBelow ==
    ASSUME NEW tree, NEW i, NEW y \in DOMAIN tree, tree[y] # Root, Reaches(tree, i, y)
    PROVE  Reaches(tree, i, tree[y])
BY DEF Reaches, Closed

LEMMA ReachesTrans ==
    ASSUME NEW tree, NEW a, NEW b, NEW c, Reaches(tree, a, b), Reaches(tree, b, c)
    PROVE  Reaches(tree, a, c)
BY DEF Reaches

\* Of two nodes on the way up from i one is above the other.
LEMMA OneAbove ==
    ASSUME NEW tree, \A y \in DOMAIN tree : tree[y] \in Nodes \cup {Root},
           NEW i \in Nodes, NEW a, NEW k, Reaches(tree, i, a), Reaches(tree, i, k)
    PROVE  Reaches(tree, a, k) \/ Reaches(tree, k, a)
<1>. SUFFICES ASSUME ~ Reaches(tree, a, k), ~ Reaches(tree, k, a) PROVE FALSE
  OBVIOUS
<1>. DEFINE S == {y \in Nodes : Reaches(tree, y, a) /\ Reaches(tree, y, k)}
<1>1. ASSUME NEW y \in S, y \in DOMAIN tree PROVE tree[y] \in S
  <2>1. y \in Nodes /\ Reaches(tree, y, a) /\ Reaches(tree, y, k) /\ y # a /\ y # k
    BY <1>1
  <2>2. tree[y] # Root /\ Reaches(tree, tree[y], a) /\ Reaches(tree, tree[y], k)
    BY <2>1, StepUp
  <2>. QED
    BY <1>1, <2>2
<1>2. S \in SUBSET Nodes /\ Closed(tree, S) /\ i \in S
  BY <1>1 DEF Closed
<1>3. a \in S
  <2>. HIDE DEF S
  <2>. QED
    BY <1>2 DEF Reaches
<1>. QED
  BY <1>3

\* In a forest no two nodes are above each other.
LEMMA NoCycle ==
    ASSUME NEW tree, IsForest(tree), DOMAIN tree \subseteq Nodes, NEW k \in Nodes, NEW q \in Nodes,
           Reaches(tree, k, q), Reaches(tree, q, k)
    PROVE  k = q
<1>. SUFFICES ASSUME k # q PROVE FALSE
  OBVIOUS
<1>. DEFINE U == {y \in Nodes : Reaches(tree, k, y) /\ Reaches(tree, y, k)}
<1>1. ASSUME NEW y \in U PROVE y \in DOMAIN tree /\ tree[y] \in U
  <2>1. y \in Nodes /\ Reaches(tree, k, y) /\ Reaches(tree, y, k)
    BY <1>1
  <2>2. y \in DOMAIN tree /\ tree[y] # Root /\ Reaches(tree, tree[y], k)
    <3>1. CASE y = k
      <4>1. k \in DOMAIN tree /\ tree[k] # Root /\ Reaches(tree, tree[k], q)
        BY StepUp
      <4>. QED
        BY <3>1, <4>1, ReachesTrans
    <3>2. CASE y # k
      BY <2>1, <3>2, StepUp
    <3>. QED
      BY <3>1, <3>2
  <2>3. Reaches(tree, k, tree[y])
    BY <2>1, <2>2, StepBelow
  <2>4. tree[y] \in Nodes
    BY <2>2 DEF IsForest
  <2>. QED
    BY <2>2, <2>3, <2>4
<1>2. k \in U
  BY DEF Reaches
<1>3. U \in SUBSET DOMAIN tree /\ U # {} /\ \A y \in U : tree[y] \in U
  BY <1>1, <1>2
<1>. HIDE DEF U
<1>. QED
  BY <1>3 DEF IsForest

\* Whatever hangs below a node of a subtree is in the subtree.
LEMMA SubtreeBelow ==
    ASSUME NEW tree, NEW r, NEW i \in DOMAIN tree, tree[i] \in Subtree(tree, r), tree[i] # Root
    PROVE  i \in Subtree(tree, r)
<1>. SUFFICES ASSUME NEW S \in SUBSET Nodes, i \in S, Closed(tree, S) PROVE r \in S
  BY DEF Subtree, Reaches
<1>1. tree[i] \in S
  BY DEF Closed
<1>. QED
  BY <1>1 DEF Subtree, Reaches

LEMMA DestroyedBelow ==
    ASSUME NEW tree, NEW gone, NEW i \in DOMAIN tree, tree[i] \in Destroyed(tree, gone),
           tree[i] # Root
    PROVE  i \in Destroyed(tree, gone)
<1>1. PICK r \in gone : tree[i] \in Subtree(tree, r)
  BY DEF Destroyed
<1>2. i \in Subtree(tree, r)
  BY <1>1, SubtreeBelow
<1>. QED
  BY <1>2 DEF Destroyed

\* The mirror stays a forest: what is left under nobody that was removed.
LEMMA ForestLeft ==
    ASSUME NEW tree, IsForest(tree), NEW gone, Root \notin DOMAIN tree
    PROVE  IsForest(Restrict(tree, DOMAIN tree \ Destroyed(tree, gone)))
<1>. DEFINE left == DOMAIN tree \ Destroyed(tree, gone)
            new  == Restrict(tree, left)
<1>1. DOMAIN new = left /\ \A j \in left : new[j] = tree[j]
  BY DEF Restrict
<1>. HIDE DEF new
<1>2. ASSUME NEW j \in left PROVE new[j] \in left \cup {Root}
  BY <1>1, DestroyedBelow DEF IsForest
<1>3. \A S \in SUBSET left : S # {} => \E j \in S : new[j] \notin S
  <2>1. \A S \in SUBSET left : S \in SUBSET DOMAIN tree
    OBVIOUS
  <2>. QED
    BY <2>1, <1>1 DEF IsForest
<1>. QED
  BY <1>1, <1>2, <1>3 DEF IsForest, new

\* The revealed nodes hang off the root, off each other or off a node Verde has.
LEMMA ChainHangs ==
    ASSUME IsForest(mirror), DOMAIN mirror \subseteq Nodes, NEW i \in Nodes, NEW a \in Chain(i)
    PROVE  mirror[a] \in Chain(i) \cup known \cup {Root}
<1>. SUFFICES ASSUME mirror[a] # Root, mirror[a] \notin known PROVE mirror[a] \in Chain(i)
  OBVIOUS
<1>. DEFINE q == mirror[a]
<1>1. a \in DOMAIN mirror /\ a \notin known /\ Reaches(mirror, i, a) /\ a \in Nodes
  BY DEF Chain
<1>2. q \in DOMAIN mirror \ known /\ q \in Nodes
  BY <1>1 DEF IsForest
<1>3. Reaches(mirror, i, q)
  BY <1>1, StepBelow
<1>. HIDE DEF q
<1>4. ASSUME NEW k \in known \cap DOMAIN mirror, Reaches(mirror, i, k), Reaches(mirror, k, q)
      PROVE  FALSE
  <2>1. ~ Reaches(mirror, k, a) /\ k # a /\ k \in Nodes
    BY <1>1, <1>4 DEF Chain
  <2>2. Reaches(mirror, a, k)
    <3>1. \A y \in DOMAIN mirror : mirror[y] \in Nodes \cup {Root}
      BY DEF IsForest
    <3>. QED
      BY <1>1, <1>4, <2>1, <3>1, OneAbove
  <2>3. Reaches(mirror, q, k)
    BY <1>1, <2>1, <2>2, StepUp DEF q
  <2>4. k = q
    BY <1>2, <1>4, <2>1, <2>3, NoCycle
  <2>. QED
    BY <1>2, <1>4, <2>4
<1>. QED
  BY <1>2, <1>3, <1>4 DEF Chain, q

(***************************************************************************)
(* Nodes hang together while nothing moves, comes back or is released.     *)
(***************************************************************************)
Still == world \cap {"move", "release", "return"} = {}

Rooted(t) == \A i \in DOMAIN t : t[i].parent \in DOMAIN t \cup {Root}

\* The change being translated, and those after it.
Ch(k) == IF k = 0 THEN change ELSE feed[k]

\* No change reports a move; what one removed is not mirrored, and is not again.
Lasting ==
    \A k \in 0..Len(feed) : /\ Ch(k).moved = {}
                            /\ Ch(k).removed \subseteq used \ DOMAIN mirror

\* A node goes with what it was sent under, or before.
GoTogether ==
    ~ lagged =>
        \A i \in known : \A k \in 0..Len(feed) :
            Sent[i].parent \in Ch(k).removed => \E j \in 0..k : i \in Ch(j).removed

AttachedInv ==
    /\ SentInv /\ IsForest(mirror) /\ (busy => ~ lagged)
    /\ Still => Rooted(Sent) /\ Rooted(shown) /\ Lasting /\ GoTogether

\* The part of it that only the mirror, the feed and the sent nodes decide.
LEMMA AttachedSame ==
    ASSUME AttachedInv, SentInv', UNCHANGED <<world, treeVars, used, feedVars>>,
           known' = known, Sent' = Sent, Still => Rooted(shown)'
    PROVE  AttachedInv'
<1>1. IsForest(mirror)' /\ (busy => ~ lagged)' /\ Still' = Still
  BY DEF AttachedInv, treeVars, feedVars, Still
<1>2. ASSUME Still PROVE Rooted(Sent)' /\ Lasting' /\ GoTogether'
  <2>1. \A k : Ch(k)' = Ch(k)
    BY DEF Ch, feedVars
  <2>. QED
    BY <1>2, <2>1 DEF AttachedInv, Rooted, Lasting, GoTogether, treeVars, feedVars
<1>. QED
  BY <1>1, <1>2 DEF AttachedInv

\* Mirrored nodes are sent, each under one that is sent too or that Verde has.
LEMMA AttachedAdd ==
    ASSUME AttachedInv, UNCHANGED <<world, mirror, used, feed, lagged>>,
           change'.removed = change.removed, change'.moved = change.moved,
           NEW S \in SUBSET DOMAIN mirror, known' = known \cup S,
           Sent' = Effect(Sent, AddSubtree([i \in S |-> ShallowNode(i)])),
           Still => \A i \in S : mirror[i] \in S \cup known \cup {Root}
    PROVE  Still => Rooted(Sent)' /\ Lasting' /\ GoTogether'
<1>. SUFFICES ASSUME Still PROVE Rooted(Sent)' /\ Lasting' /\ GoTogether'
  OBVIOUS
<1>. DEFINE n == [i \in S |-> ShallowNode(i)]
<1>1. DOMAIN n = S /\ \A i \in S : n[i] = ShallowNode(i)
  OBVIOUS
<1>2. Sent' = Effect(Sent, AddSubtree(n))
  OBVIOUS
<1>. HIDE DEF n
<1>3. /\ \A i : i \in DOMAIN Sent' <=> i \in S \/ i \in DOMAIN Sent
      /\ \A i \in S : Sent'[i] = ShallowNode(i)
      /\ \A i \in DOMAIN Sent : i \notin S => Sent'[i] = Sent[i]
  BY <1>1, <1>2, AddEffect
<1>4. /\ \A i : i \in DOMAIN Sent' <=> i \in S \/ i \in DOMAIN Sent
      /\ \A i \in S : Sent'[i].parent = mirror[i]
      /\ \A i \in DOMAIN Sent : i \notin S => Sent'[i] = Sent[i]
  BY <1>3 DEF ShallowNode
<1>5. known = DOMAIN Sent
  BY DEF AttachedInv, SentInv, KnownSent, Still
<1>6. Rooted(Sent)'
  BY <1>4, <1>5 DEF AttachedInv, Rooted
<1>7. \A k : Ch(k)'.removed = Ch(k).removed /\ Ch(k)'.moved = Ch(k).moved
  BY DEF Ch
<1>8. Lasting'
  BY <1>7 DEF AttachedInv, Lasting
<1>9. ASSUME ~ lagged, NEW i \in known', NEW k \in 0..Len(feed), Sent'[i].parent \in Ch(k).removed
      PROVE  \E j \in 0..k : i \in Ch(j).removed
  <2>1. CASE i \in S
    <3>1. Sent'[i].parent = mirror[i] /\ mirror[i] \in DOMAIN mirror \cup {Root}
      BY <1>4, <2>1 DEF AttachedInv, IsForest
    <3>2. Ch(k).removed \subseteq used \ DOMAIN mirror /\ Root \notin used
      BY TreesAssumption DEF AttachedInv, Lasting, SentInv, IInv, TypeOK
    <3>. QED
      BY <1>9, <3>1, <3>2
  <2>2. CASE i \notin S
    BY <1>4, <1>5, <1>9, <2>2 DEF AttachedInv, GoTogether
  <2>. QED
    BY <2>1, <2>2
<1>10. GoTogether'
  BY <1>7, <1>9 DEF GoTogether
<1>. QED
  BY <1>6, <1>8, <1>10

\* The feed after a patch, change by change.
LEMMA FeedAfter ==
    ASSUME TypeOK, NEW ch \in Changes,
           IF ch = NoChange THEN UNCHANGED <<feed, lagged>> ELSE Broadcast(ch)
    PROVE  /\ \A k \in 1..Len(feed') : feed'[k] = ch \/ \E j \in 1..Len(feed) : feed'[k] = feed[j]
           /\ ~ lagged' => /\ Len(feed) <= Len(feed')
                           /\ \A k \in 1..Len(feed) : feed'[k] = feed[k]
                           /\ \A k \in 1..Len(feed') : k \in 1..Len(feed) \/ feed'[k] = ch
<1>. feed \in Seq(Changes) /\ lagged \in BOOLEAN
  BY DEF TypeOK
<1>1. CASE ch = NoChange
  BY <1>1
<1>2. CASE ch # NoChange /\ Len(feed) = Capacity
  <2>1. feed # <<>>
    BY <1>2, EmptySeq, VerdeTreeAssumption
  <2>2. feed' = Append(Tail(feed), ch) /\ lagged'
    BY <1>2 DEF Broadcast
  <2>. HIDE DEF NoChange
  <2>3. \A k \in 1..Len(feed') : feed'[k] = ch \/ \E j \in 1..Len(feed) : feed'[k] = feed[j]
    <3>. DEFINE t == Tail(feed)
    <3>1. /\ t \in Seq(Changes) /\ Len(t) = Len(feed) - 1
          /\ \A k \in 1..Len(t) : t[k] = feed[k + 1] /\ k + 1 \in 1..Len(feed)
      BY <2>1
    <3>. HIDE DEF t
    <3>2. feed' = Append(t, ch)
      BY <2>2 DEF t
    <3>3. Len(feed') = Len(t) + 1 /\ feed'[Len(t) + 1] = ch /\ \A k \in 1..Len(t) : feed'[k] = t[k]
      BY <3>1, <3>2
    <3>4. Len(t) \in Nat
      BY <3>1
    <3>. QED
      BY <3>1, <3>3, <3>4
  <2>. QED
    BY <2>2, <2>3
<1>3. CASE ch # NoChange /\ Len(feed) # Capacity
  <2>1. feed' = Append(feed, ch)
    BY <1>3 DEF Broadcast
  <2>2. Len(feed') = Len(feed) + 1 /\ feed'[Len(feed) + 1] = ch
        /\ \A k \in 1..Len(feed) : feed'[k] = feed[k]
    BY <2>1
  <2>3. Len(feed) \in Nat
    OBVIOUS
  <2>. QED
    BY <2>2, <2>3
<1>. QED
  BY <1>1, <1>2, <1>3

LEMMA AttachedInit == Init => AttachedInv
<1>. SUFFICES ASSUME Init PROVE AttachedInv
  OBVIOUS
<1>1. SentInv /\ IsForest(mirror) /\ ~ busy
  BY SentInit DEF Init
<1>2. Sent = RootsSnapshot /\ shown = RootsSnapshot
  BY ReplayNone DEF Init, Sent
<1>3. Rooted(RootsSnapshot)
  BY SnapshotsShow DEF Rooted, Children
<1>4. \A k \in 0..Len(feed) : k = 0 /\ Ch(k) = NoChange
  BY DEF Init, Ch
<1>5. Lasting /\ GoTogether
  BY <1>4 DEF Lasting, GoTogether, NoChange
<1>. QED
  BY <1>1, <1>2, <1>3, <1>5 DEF AttachedInv

\* In these worlds a patch moves nothing, and what it removes takes its children along.
LEMMA StillPatch ==
    ASSUME TypeOK, IsForest(mirror), Still, NEW S \in SUBSET Nodes, NEW gone \in SUBSET Nodes,
           NEW rec \in [S -> [parent : Places, kids : BOOLEAN, name : Names]],
           NEW order \in SetToSeqs(S \ DOMAIN mirror),
           \A i \in S : rec[i] \in Records(i), Patch(rec, order, gone),
           NEW ch, ch = Summary(rec, order, gone, Merged(rec))
    PROVE  /\ ch.moved = {}
           /\ ch.removed \subseteq used' \ DOMAIN mirror'
           /\ used \ DOMAIN mirror \subseteq used' \ DOMAIN mirror'
           /\ \A i \in DOMAIN mirror : mirror[i] \in ch.removed => i \in ch.removed
<1>. DEFINE tree == Merged(rec)
            left == DOMAIN tree \ Destroyed(tree, gone)
<1>1. /\ gone \subseteq DOMAIN mirror
      /\ mirror' = Restrict(tree, left) /\ used' = used \cup S
      /\ S \cap (used \ DOMAIN mirror) = {}
  BY DEF Patch, Still
<1>2. /\ DOMAIN tree = S \cup DOMAIN mirror
      /\ \A j \in S : tree[j] = IF rec[j].parent \in DOMAIN tree THEN rec[j].parent ELSE Root
      /\ \A j \in DOMAIN mirror \ S : tree[j] = mirror[j]
  BY DEF Merged, Over
<1>3. ch.removed = Destroyed(tree, gone)
  BY DEF Summary
<1>4. ch.moved = {j \in S \cap DOMAIN mirror : tree[j] # mirror[j]}
  BY DEF Summary
<1>. HIDE DEF tree
<1>5. ASSUME NEW j \in DOMAIN mirror PROVE tree[j] = mirror[j]
  <2>1. CASE j \in S
    <3>1. rec[j].parent = mirror[j]
      BY <2>1, <1>5 DEF Records, Still
    <3>2. mirror[j] \in DOMAIN mirror \cup {Root}
      BY <1>5 DEF IsForest
    <3>. QED
      BY <3>1, <3>2, <2>1, <1>2
  <2>. QED
    BY <2>1, <1>2
<1>6. ch.moved = {}
  BY <1>4, <1>5
<1>7. Destroyed(tree, gone) \subseteq DOMAIN tree /\ DOMAIN mirror' = left
  BY <1>1 DEF Destroyed, Subtree, Restrict
<1>8. ch.removed \subseteq used' \ DOMAIN mirror'
  BY <1>1, <1>2, <1>3, <1>7 DEF TypeOK
<1>9. used \ DOMAIN mirror \subseteq used' \ DOMAIN mirror'
  BY <1>1, <1>2, <1>7
<1>10. ASSUME NEW i \in DOMAIN mirror, mirror[i] \in ch.removed PROVE i \in ch.removed
  <2>1. i \in DOMAIN tree /\ tree[i] = mirror[i]
    BY <1>2, <1>5
  <2>2. mirror[i] # Root
    BY <1>3, <1>7, <1>10, <1>2, TreesAssumption DEF TypeOK
  <2>. QED
    BY <2>1, <2>2, <1>3, <1>10, DestroyedBelow
<1>. QED
  BY <1>6, <1>8, <1>9, <1>10

LEMMA AttachedPatch == AttachedInv /\ ClientPatch => AttachedInv'
<1>. SUFFICES ASSUME AttachedInv, ClientPatch PROVE AttachedInv'
  OBVIOUS
<1>1. SentInv' /\ SentInv /\ TypeOK
  BY SentPatch DEF AttachedInv, SentInv, IInv
<1>2. PICK S \in SUBSET Nodes, gone \in SUBSET Nodes :
        \E rec \in [S -> [parent : Places, kids : BOOLEAN, name : Names]],
           order \in SetToSeqs(S \ DOMAIN mirror) :
             (\A i \in S : rec[i] \in Records(i)) /\ Patch(rec, order, gone)
  BY PatchIs
<1>3. PICK rec \in [S -> [parent : Places, kids : BOOLEAN, name : Names]],
           order \in SetToSeqs(S \ DOMAIN mirror) :
             (\A i \in S : rec[i] \in Records(i)) /\ Patch(rec, order, gone)
  BY <1>2
<1>4. /\ UNCHANGED <<world, change, busy, known, loaded, buf, shown, asked>>
      /\ gone \subseteq DOMAIN mirror /\ ~ busy
  BY <1>3 DEF Patch, stateVars
<1>5. PICK ch \in Changes :
        /\ ch = Summary(rec, order, gone, Merged(rec))
        /\ IF ch = NoChange THEN UNCHANGED <<feed, lagged>> ELSE Broadcast(ch)
  BY <1>1, <1>3, <1>4, PatchTypes DEF Patch
<1>6. IsForest(mirror)'
  <2>1. IsForest(Merged(rec)) /\ mirror' = Restrict(Merged(rec), DOMAIN Merged(rec) \ Destroyed(Merged(rec), gone))
    BY <1>3 DEF Patch
  <2>2. Root \notin DOMAIN Merged(rec)
    <3>1. DOMAIN Merged(rec) = S \cup DOMAIN mirror
      BY DEF Merged, Over
    <3>. QED
      BY <3>1, <1>1, TreesAssumption DEF TypeOK
  <2>. QED
    BY <2>1, <2>2, ForestLeft
<1>7. Sent' = Sent /\ Still' = Still
  BY <1>4 DEF Sent, Still
<1>8. ASSUME Still PROVE Lasting' /\ GoTogether'
  <2>1. /\ ch.moved = {}
        /\ ch.removed \subseteq used' \ DOMAIN mirror'
        /\ used \ DOMAIN mirror \subseteq used' \ DOMAIN mirror'
        /\ \A i \in DOMAIN mirror : mirror[i] \in ch.removed => i \in ch.removed
    BY <1>1, <1>3, <1>5, <1>8, StillPatch DEF AttachedInv
  <2>2. /\ \A k \in 1..Len(feed') : feed'[k] = ch \/ \E j \in 1..Len(feed) : feed'[k] = feed[j]
        /\ ~ lagged' => /\ Len(feed) <= Len(feed')
                        /\ \A k \in 1..Len(feed) : feed'[k] = feed[k]
                        /\ \A k \in 1..Len(feed') : k \in 1..Len(feed) \/ feed'[k] = ch
    BY <1>1, <1>5, FeedAfter
  <2>3. Len(feed) \in Nat /\ Len(feed') \in Nat
    BY <1>1 DEF SentInv, IInv, TypeOK
  <2>4. Lasting'
    <3>. SUFFICES ASSUME NEW k \in 0..Len(feed')
                  PROVE  Ch(k)'.moved = {} /\ Ch(k)'.removed \subseteq used' \ DOMAIN mirror'
      BY DEF Lasting
    <3>1. Ch(k)' = ch \/ \E j \in 0..Len(feed) : Ch(k)' = Ch(j)
      <4>1. CASE k = 0
        BY <4>1, <1>4, <2>3 DEF Ch
      <4>2. CASE k # 0
        BY <4>2, <2>2, <2>3 DEF Ch
      <4>. QED
        BY <4>1, <4>2
    <3>. QED
      BY <3>1, <2>1, <1>8 DEF AttachedInv, Lasting
  <2>5. ASSUME ~ lagged', NEW i \in known, NEW k \in 0..Len(feed'),
               Sent[i].parent \in Ch(k)'.removed
        PROVE  \E j \in 0..k : i \in Ch(j)'.removed
    <3>1. ~ lagged
      BY <1>1, <1>5, <2>5, FeedGrows
    <3>2. \A j \in 0..Len(feed) : Ch(j)' = Ch(j) /\ j \in 0..Len(feed')
      BY <1>4, <2>2, <2>3, <2>5 DEF Ch
    <3>3. CASE k \in 0..Len(feed)
      <4>1. PICK j \in 0..k : i \in Ch(j).removed
        BY <3>1, <3>2, <3>3, <2>5, <1>8 DEF AttachedInv, GoTogether
      <4>2. j \in 0..Len(feed)
        BY <4>1, <3>3, <2>3
      <4>. QED
        BY <4>1, <4>2, <3>2
    <3>4. CASE k \notin 0..Len(feed)
      <4>1. Ch(k)' = ch /\ k \in 1..Len(feed') /\ Len(feed) < k
        BY <3>4, <2>2, <2>3, <2>5 DEF Ch
      <4>2. CASE \E j \in 0..Len(feed) : i \in Ch(j).removed
        <5>1. PICK j \in 0..Len(feed) : i \in Ch(j).removed
          BY <4>2
        <5>2. j \in 0..k
          BY <4>1, <5>1, <2>3
        <5>. QED
          BY <5>1, <5>2, <3>2
      <4>3. CASE \A j \in 0..Len(feed) : i \notin Ch(j).removed
        <5>1. ~ Pending(i, "removed") /\ ~ Pending(i, "moved")
          <6>1. /\ i \notin change.removed /\ change.moved = {} /\ DOMAIN feed = 1..Len(feed)
                /\ \A j \in 1..Len(feed) : i \notin feed[j].removed /\ feed[j].moved = {}
            BY <4>3, <1>1, <1>8, <2>3 DEF AttachedInv, Lasting, Ch, TypeOK
          <6>. QED
            BY <6>1 DEF Pending
        <5>2. i \notin Released
          BY <1>1, <1>8, <2>5 DEF SentInv, AskedOnce, Released, Still
        <5>3. i \in DOMAIN mirror /\ Sent[i].parent = mirror[i]
          BY <1>1, <2>5, <3>1, <5>1, <5>2 DEF SentInv, NodesFresh, Fresh
        <5>4. i \in ch.removed
          BY <2>1, <2>5, <4>1, <5>3
        <5>5. k \in 0..k
          BY <4>1, <2>3
        <5>. QED
          BY <4>1, <5>4, <5>5
      <4>. QED
        BY <4>2, <4>3
    <3>. QED
      BY <3>3, <3>4
  <2>. QED
    BY <2>4, <2>5, <1>4, <1>7 DEF GoTogether
<1>. QED
  BY <1>1, <1>4, <1>6, <1>7, <1>8 DEF AttachedInv, Rooted

LEMMA AttachedRecv == AttachedInv /\ Recv => AttachedInv'
<1>. SUFFICES ASSUME AttachedInv, Recv PROVE AttachedInv'
  OBVIOUS
<1>1. SentInv' /\ SentInv /\ TypeOK /\ change = NoChange
  BY SentRecv DEF AttachedInv, SentInv, IInv, IdleHasNone, Recv
<1>2. /\ UNCHANGED <<world, mirror, used, known, shown, buf, lagged>> /\ ~ lagged
      /\ change' = Head(feed) /\ feed' = Tail(feed) /\ feed # <<>> /\ feed \in Seq(Changes)
  BY <1>1 DEF Recv, treeVars, stateVars, TypeOK
<1>3. /\ Len(feed) \in Nat /\ Len(feed') = Len(feed) - 1
      /\ \A k \in 0..Len(feed') : Ch(k)' = Ch(k + 1) /\ k + 1 \in 0..Len(feed)
  <2>. DEFINE n == Len(feed)
  <2>1. n \in Nat \ {0} /\ Head(feed) = feed[1] /\ Len(Tail(feed)) = n - 1
        /\ \A k \in 1..(n - 1) : Tail(feed)[k] = feed[k + 1]
    BY <1>2
  <2>. HIDE DEF n
  <2>2. \A k \in 0..(n - 1) : Ch(k)' = Ch(k + 1) /\ k + 1 \in 0..n
    <3>. TAKE k \in 0..(n - 1)
    <3>1. k + 1 # 0 /\ k + 1 \in 0..n
      BY <2>1
    <3>2. CASE k = 0
      BY <3>1, <3>2, <2>1, <1>2 DEF Ch
    <3>3. CASE k # 0
      <4>1. k \in 1..(n - 1)
        BY <3>3, <2>1
      <4>. QED
        BY <3>1, <3>3, <4>1, <2>1, <1>2 DEF Ch
    <3>. QED
      BY <3>2, <3>3
  <2>. QED
    BY <2>1, <2>2, <1>2 DEF n
<1>4. Sent' = Sent /\ Still' = Still
  BY <1>2 DEF Sent, Still
<1>5. ASSUME Still PROVE Lasting' /\ GoTogether'
  <2>1. Lasting'
    BY <1>2, <1>3, <1>5 DEF AttachedInv, Lasting
  <2>2. ASSUME NEW i \in known, NEW k \in 0..Len(feed'), Sent[i].parent \in Ch(k)'.removed
        PROVE  \E j \in 0..k : i \in Ch(j)'.removed
    <3>1. PICK j \in 0..(k + 1) : i \in Ch(j).removed
      BY <1>2, <1>3, <1>5, <2>2 DEF AttachedInv, GoTogether
    <3>2. j # 0
      BY <3>1, <1>1 DEF Ch, NoChange
    <3>3. k \in Nat /\ j - 1 \in 0..k /\ j - 1 \in 0..Len(feed') /\ (j - 1) + 1 = j
      BY <3>1, <3>2, <1>3
    <3>4. Ch(j - 1)' = Ch(j)
      BY <3>3, <1>3
    <3>. QED
      BY <3>1, <3>3, <3>4
  <2>. QED
    BY <2>1, <2>2, <1>2, <1>4 DEF GoTogether
<1>. QED
  BY <1>1, <1>2, <1>4, <1>5 DEF AttachedInv, Rooted

LEMMA AttachedAdded == AttachedInv /\ TranslateAdded => AttachedInv'
<1>. SUFFICES ASSUME AttachedInv, TranslateAdded PROVE AttachedInv'
  OBVIOUS
<1>1. SentInv' /\ SentInv /\ TypeOK
  BY SentAdded DEF AttachedInv, SentInv, IInv
<1>. DEFINE i == Head(change.added)
<1>2. /\ UNCHANGED <<world, treeVars, used, feed, lagged, busy, shown>> /\ change \in Changes
      /\ change' = [change EXCEPT !.added = Tail(change.added)]
  BY <1>1 DEF TranslateAdded, TypeOK
<1>3. change'.removed = change.removed /\ change'.moved = change.moved
  BY <1>2 DEF Changes
<1>4. IsForest(mirror)' /\ (busy => ~ lagged)' /\ Still' = Still /\ (Still => Rooted(shown)')
  BY <1>2 DEF AttachedInv, Still, Rooted, treeVars
<1>5. CASE i \in DOMAIN mirror /\ mirror[i] \in known \cup {Root}
  <2>. DEFINE S == {i}
  <2>1. /\ buf' = Append(buf, AddSubtree([j \in S |-> ShallowNode(j)]))
        /\ known' = known \cup S /\ S \in SUBSET DOMAIN mirror
        /\ \A j \in S : mirror[j] \in S \cup known \cup {Root}
    BY <1>5 DEF TranslateAdded
  <2>. HIDE DEF S
  <2>2. Sent' = Effect(Sent, AddSubtree([j \in S |-> ShallowNode(j)]))
    BY <2>1, <1>1, <1>2, BufferAdd
  <2>3. UNCHANGED <<world, mirror, used, feed, lagged>>
    BY <1>2 DEF treeVars
  <2>4. Still => Rooted(Sent)' /\ Lasting' /\ GoTogether'
    <3>. HIDE DEF i
    <3>. QED
      BY <2>1, <2>2, <2>3, <1>3, AttachedAdd
  <2>. QED
    BY <2>4, <1>1, <1>4 DEF AttachedInv
<1>6. CASE ~ (i \in DOMAIN mirror /\ mirror[i] \in known \cup {Root})
  <2>1. UNCHANGED stateVars
    BY <1>6 DEF TranslateAdded
  <2>2. Sent' = Sent /\ known' = known
    BY <2>1, <1>2 DEF Sent, stateVars
  <2>3. \A k : Ch(k)'.removed = Ch(k).removed /\ Ch(k)'.moved = Ch(k).moved
    BY <1>2, <1>3 DEF Ch
  <2>4. ASSUME Still PROVE Rooted(Sent)' /\ Lasting' /\ GoTogether'
    BY <2>2, <2>3, <2>4, <1>2 DEF AttachedInv, Rooted, Lasting, GoTogether, treeVars
  <2>. QED
    BY <2>4, <1>1, <1>4 DEF AttachedInv
<1>. QED
  BY <1>5, <1>6

LEMMA AttachedRest == AttachedInv /\ TranslateRest => AttachedInv'
<1>. SUFFICES ASSUME AttachedInv, TranslateRest PROVE AttachedInv'
  OBVIOUS
<1>1. SentInv' /\ SentInv /\ TypeOK
  BY SentRest DEF AttachedInv, SentInv, IInv
<1>2. /\ UNCHANGED <<world, treeVars, used, feed, lagged, shown>>
      /\ known' = known \ (change.removed \cap known) /\ change' = NoChange /\ ~ busy' /\ busy
      /\ ~ lagged
  BY DEF TranslateRest, AttachedInv
<1>3. IsForest(mirror)' /\ Still' = Still /\ (Still => Rooted(shown)')
  BY <1>2 DEF AttachedInv, Still, Rooted, treeVars
<1>4. ASSUME Still PROVE Rooted(Sent)' /\ Lasting' /\ GoTogether'
  <2>1. known = DOMAIN Sent /\ change.moved = {} /\ Ch(0) = change /\ Len(feed) \in Nat
    <3>1. Len(feed) \in Nat /\ 0 \in 0..Len(feed)
      BY <1>1 DEF TypeOK
    <3>2. Ch(0) = change
      BY DEF Ch
    <3>3. known = DOMAIN Sent
      BY <1>1, <1>4 DEF SentInv, KnownSent, Still
    <3>4. Lasting
      BY <1>4 DEF AttachedInv
    <3>. QED
      BY <3>1, <3>2, <3>3, <3>4 DEF Lasting
  <2>2. /\ \A i : i \in DOMAIN Sent' <=> i \in known /\ i \notin change.removed
        /\ \A i \in DOMAIN Sent' : Sent'[i].parent = Sent[i].parent
    BY <1>1, <2>1, RestTells
  <2>3. ASSUME NEW i \in DOMAIN Sent' PROVE Sent'[i].parent \in DOMAIN Sent' \cup {Root}
    <3>1. i \in known /\ i \notin change.removed /\ Sent'[i].parent = Sent[i].parent
          /\ Sent[i].parent \in known \cup {Root}
      BY <1>4, <2>1, <2>2, <2>3 DEF AttachedInv, Rooted
    <3>2. Sent[i].parent \notin Ch(0).removed
      <4>1. \A j \in 0..0 : j = 0
        OBVIOUS
      <4>2. 0 \in 0..Len(feed)
        BY <2>1
      <4>. QED
        BY <3>1, <4>1, <4>2, <1>2, <1>4, <2>1 DEF AttachedInv, GoTogether
    <3>. QED
      BY <3>1, <3>2, <2>1, <2>2
  <2>4. \A k \in 0..Len(feed) : k # 0 => Ch(k)' = Ch(k)
    BY <1>2 DEF Ch
  <2>5. Ch(0)' = NoChange
    BY <1>2 DEF Ch
  <2>6. Lasting'
    BY <1>2, <1>4, <2>4, <2>5 DEF AttachedInv, Lasting, NoChange, treeVars
  <2>7. ASSUME NEW i \in known', NEW k \in 0..Len(feed), Sent'[i].parent \in Ch(k)'.removed
        PROVE  \E j \in 0..k : i \in Ch(j)'.removed
    <3>1. k # 0 /\ Ch(k)' = Ch(k)
      BY <2>4, <2>5, <2>7 DEF NoChange
    <3>2. i \in known /\ i \notin change.removed /\ Sent'[i].parent = Sent[i].parent
      BY <1>2, <2>2, <2>7
    <3>3. PICK j \in 0..k : i \in Ch(j).removed
      BY <3>1, <3>2, <2>7, <1>2, <1>4 DEF AttachedInv, GoTogether
    <3>4. j # 0 /\ j \in 0..Len(feed)
      BY <3>2, <3>3, <2>1, <2>7
    <3>. QED
      BY <3>3, <3>4, <2>4
  <2>. QED
    BY <2>3, <2>6, <2>7, <1>2 DEF Rooted, GoTogether
<1>. QED
  BY <1>1, <1>2, <1>3, <1>4 DEF AttachedInv

\* A snapshot is rooted, and holds nothing that was removed.
LEMMA AttachedSeed ==
    ASSUME AttachedInv, UNCHANGED <<world, treeVars, used, feed, change>>, NEW snapshot,
           snapshot \in {RootsSnapshot, FullSnapshot}, NEW full \in BOOLEAN, Seed(snapshot, full)
    PROVE  Still => Rooted(Sent)' /\ Rooted(shown)' /\ Lasting' /\ GoTogether'
<1>. SUFFICES ASSUME Still PROVE Rooted(Sent)' /\ Rooted(shown)' /\ Lasting' /\ GoTogether'
  OBVIOUS
<1>1. known' = DOMAIN snapshot /\ buf' = <<>> /\ shown' = snapshot
  BY DEF Seed
<1>2. Sent' = snapshot
  BY <1>1, ReplayNone DEF Sent
<1>3. \A i \in DOMAIN snapshot : /\ i \in DOMAIN mirror
                                 /\ snapshot[i].parent = mirror[i]
                                 /\ mirror[i] \in DOMAIN snapshot \cup {Root}
  <2>1. CASE snapshot = RootsSnapshot
    BY <2>1, SnapshotsShow DEF Children
  <2>2. CASE snapshot = FullSnapshot
    BY <2>2, SnapshotsShow DEF AttachedInv, IsForest
  <2>. QED
    BY <2>1, <2>2
<1>4. Rooted(snapshot)
  BY <1>3 DEF Rooted
<1>5. \A k : Ch(k)' = Ch(k)
  BY DEF Ch
<1>6. Lasting'
  BY <1>5 DEF AttachedInv, Lasting, treeVars
<1>7. ASSUME NEW i \in known', NEW k \in 0..Len(feed) PROVE Sent'[i].parent \notin Ch(k).removed
  <2>1. Sent'[i].parent \in DOMAIN mirror \cup {Root}
    BY <1>1, <1>2, <1>3 DEF AttachedInv, IsForest
  <2>2. Ch(k).removed \subseteq used \ DOMAIN mirror /\ Root \notin used
    BY TreesAssumption DEF AttachedInv, Lasting, SentInv, IInv, TypeOK
  <2>. QED
    BY <2>1, <2>2
<1>8. GoTogether'
  BY <1>5, <1>7 DEF GoTogether
<1>. QED
  BY <1>1, <1>2, <1>4, <1>6, <1>8 DEF Rooted

LEMMA AttachedSeeds == AttachedInv /\ (FullResync \/ RequestSnapshot) => AttachedInv'
<1>1. ASSUME AttachedInv, FullResync PROVE AttachedInv'
  <2>1. SentInv'
    BY <1>1, SentResync DEF AttachedInv
  <2>2. UNCHANGED <<world, treeVars, used, feed, change>> /\ ~ lagged' /\ Seed(FullSnapshot, TRUE)
    BY <1>1 DEF FullResync
  <2>3. Still => Rooted(Sent)' /\ Rooted(shown)' /\ Lasting' /\ GoTogether'
    BY <1>1, <2>2, AttachedSeed
  <2>. QED
    BY <1>1, <2>1, <2>2, <2>3 DEF AttachedInv, Still, treeVars
<1>2. ASSUME AttachedInv, RequestSnapshot PROVE AttachedInv'
  <2>1. SentInv'
    BY <1>2, SentSnapshot DEF AttachedInv
  <2>2. UNCHANGED <<world, treeVars, used, feed, change, lagged, busy>>
    BY <1>2 DEF RequestSnapshot, Serve, feedVars
  <2>3. Still => Rooted(Sent)' /\ Rooted(shown)' /\ Lasting' /\ GoTogether'
    <3>1. Seed(FullSnapshot, TRUE) \/ Seed(RootsSnapshot, FALSE)
      BY <1>2 DEF RequestSnapshot
    <3>. QED
      BY <1>2, <2>2, <3>1, AttachedSeed
  <2>. QED
    BY <1>2, <2>1, <2>2, <2>3 DEF AttachedInv, Still, treeVars
<1>. QED
  BY <1>1, <1>2

LEMMA AttachedFlush == AttachedInv /\ Flush => AttachedInv'
<1>. SUFFICES ASSUME AttachedInv, Flush PROVE AttachedInv'
  OBVIOUS
<1>1. SentInv' /\ shown' = Sent /\ buf' = <<>> /\ known' = known
      /\ UNCHANGED <<world, treeVars, used, feedVars>>
  BY SentFlush DEF AttachedInv, Flush, Sent
<1>2. Sent' = Sent
  BY <1>1, ReplayNone DEF Sent
<1>3. Still => Rooted(shown)'
  BY <1>1 DEF AttachedInv, Rooted
<1>. QED
  BY <1>1, <1>2, <1>3, AttachedSame

LEMMA AttachedChildren == AttachedInv /\ RequestChildren => AttachedInv'
<1>. SUFFICES ASSUME AttachedInv, RequestChildren PROVE AttachedInv'
  OBVIOUS
<1>1. SentInv' /\ SentInv /\ TypeOK
  BY SentChildren DEF AttachedInv, SentInv, IInv
<1>2. /\ UNCHANGED <<world, treeVars, used, feedVars, feed, change, busy, lagged, shown>>
  BY DEF RequestChildren, Serve, feedVars
<1>3. IsForest(mirror)' /\ (busy => ~ lagged)' /\ Still' = Still /\ (Still => Rooted(shown)')
  BY <1>2 DEF AttachedInv, Still, Rooted, treeVars
<1>. DEFINE p == Head(asked).parent
<1>4. CASE p \in loaded \/ p \notin known
  <2>1. Sent' = Sent /\ known' = known
    BY <1>2, <1>4 DEF RequestChildren, Sent, stateVars
  <2>. QED
    BY <2>1, <1>1, <1>2, <1>3, AttachedSame
<1>5. CASE p \notin loaded /\ p \in known
  <2>1. /\ known' = known \cup Children(p)
        /\ buf' = IF Children(p) # {}
                  THEN Append(buf, AddSubtree([i \in Children(p) |-> ShallowNode(i)]))
                  ELSE IF p \in DOMAIN mirror /\ flags[p] THEN buf
                  ELSE Append(buf, HasChildrenOf([i \in {p} |-> FALSE]))
    BY <1>5 DEF RequestChildren
  <2>. HIDE DEF p
  <2>2. CASE Children(p) # {}
    <3>. DEFINE S == Children(p)
    <3>1. S \in SUBSET DOMAIN mirror /\ known' = known \cup S
          /\ buf' = Append(buf, AddSubtree([i \in S |-> ShallowNode(i)]))
          /\ \A i \in S : mirror[i] \in S \cup known \cup {Root}
      BY <2>1, <2>2, <1>5 DEF Children
    <3>. HIDE DEF S
    <3>2. Sent' = Effect(Sent, AddSubtree([i \in S |-> ShallowNode(i)]))
      BY <3>1, <1>1, <1>2, BufferAdd
    <3>3. UNCHANGED <<world, mirror, used, feed, lagged>> /\ change' = change
      BY <1>2 DEF treeVars
    <3>4. Still => Rooted(Sent)' /\ Lasting' /\ GoTogether'
      BY <3>1, <3>2, <3>3, AttachedAdd
    <3>. QED
      BY <3>4, <1>1, <1>3 DEF AttachedInv
  <2>3. CASE Children(p) = {} /\ buf' = buf
    <3>1. Sent' = Sent /\ known' = known
      BY <2>1, <2>3, <1>2 DEF Sent
    <3>. QED
      BY <3>1, <1>1, <1>2, <1>3, AttachedSame
  <2>4. CASE Children(p) = {} /\ buf' = Append(buf, HasChildrenOf([i \in {p} |-> FALSE]))
    <3>. DEFINE f == [i \in {p} |-> FALSE]
    <3>1. f \in Partial(BOOLEAN)
      <4>1. p \in Nodes
        BY <1>1, <1>5 DEF TypeOK
      <4>2. f = [i \in DOMAIN f |-> f[i]] /\ \A i \in DOMAIN f : i = p /\ f[i] \in BOOLEAN
        OBVIOUS
      <4>. HIDE DEF f
      <4>. QED
        BY <4>1, <4>2, PartialIs
    <3>2. buf' = Append(buf, HasChildrenOf(f)) /\ known' = known
      BY <2>1, <2>4
    <3>. HIDE DEF f
    <3>3. Sent' = Effect(Sent, HasChildrenOf(f)) /\ Sent \in Tables
      BY <3>1, <3>2, <1>1, <1>2, BatchesAre, ReplayMore, ReplayTyped DEF SentInv, TablesTyped, Sent
    <3>4. \A i : /\ i \in DOMAIN Sent' <=> i \in DOMAIN Sent
                 /\ i \in DOMAIN Sent => Sent'[i].parent = Sent[i].parent
      BY <3>1, <3>3, ChildrenEffect
    <3>5. \A k : Ch(k)' = Ch(k)
      BY <1>2 DEF Ch
    <3>6. ASSUME Still PROVE Rooted(Sent)' /\ Lasting' /\ GoTogether'
      <4>1. known = DOMAIN Sent
        BY <1>1, <3>6 DEF SentInv, KnownSent, Still
      <4>2. Rooted(Sent)'
        BY <3>4, <3>6 DEF AttachedInv, Rooted
      <4>3. Lasting'
        BY <3>5, <3>6, <1>2 DEF AttachedInv, Lasting, treeVars
      <4>4. GoTogether'
        BY <3>2, <3>4, <3>5, <3>6, <4>1, <1>2 DEF AttachedInv, GoTogether
      <4>. QED
        BY <4>2, <4>3, <4>4
    <3>. QED
      BY <3>6, <1>1, <1>3 DEF AttachedInv
  <2>. QED
    BY <2>1, <2>2, <2>3, <2>4
<1>. QED
  BY <1>4, <1>5

LEMMA AttachedReveal == \A i \in Nodes : AttachedInv /\ Reveal(i) => AttachedInv'
<1>. SUFFICES ASSUME NEW i \in Nodes, AttachedInv, Reveal(i) PROVE AttachedInv'
  OBVIOUS
<1>1. SentInv' /\ SentInv /\ DOMAIN mirror \subseteq Nodes
  BY SentReveal DEF AttachedInv, SentInv, IInv, TypeOK
<1>. DEFINE chain == IF i \in DOMAIN mirror \ known THEN Chain(i) ELSE {}
<1>2. /\ chain \in SUBSET DOMAIN mirror /\ known' = known \cup chain
      /\ Sent' = Effect(Sent, AddSubtree([a \in chain |-> ShallowNode(a)])) /\ shown' = Sent'
      /\ UNCHANGED <<world, treeVars, used, feedVars, lagged>>
  BY <1>1, RevealSends
<1>3. \A a \in chain : mirror[a] \in chain \cup known \cup {Root}
  BY <1>1, ChainHangs DEF AttachedInv
<1>. HIDE DEF chain
<1>4. Still => Rooted(Sent)' /\ Lasting' /\ GoTogether'
  BY <1>2, <1>3, AttachedAdd DEF treeVars, feedVars
<1>. QED
  BY <1>1, <1>2, <1>4 DEF AttachedInv, Still, Rooted, treeVars, feedVars

\* Where Verde releases, no more is said than that the mirror is a forest.
LEMMA AttachedOthers ==
    ASSUME AttachedInv, SentInv', UNCHANGED <<world, treeVars, used, feedVars>>,
           ~ Still \/ (known' = known /\ Sent' = Sent /\ shown' = shown)
    PROVE  AttachedInv'
<1>1. CASE ~ Still
  BY <1>1 DEF AttachedInv, Still, treeVars, feedVars
<1>2. CASE Still
  BY <1>2, AttachedSame DEF AttachedInv, Rooted
<1>. QED
  BY <1>1, <1>2

LEMMA AttachedStep == AttachedInv /\ [Next]_vars => AttachedInv'
<1>. SUFFICES ASSUME AttachedInv, [Next]_vars PROVE AttachedInv'
  OBVIOUS
<1>1. SentInv /\ SentInv'
  BY SentStep DEF AttachedInv
<1>2. ASSUME ReleaseSubtree PROVE AttachedInv'
  <2>1. Serve("release_subtree")
    BY <1>2 DEF ReleaseSubtree
  <2>2. ~ Still /\ UNCHANGED <<world, treeVars, used, feedVars>>
    BY <2>1, <1>1, Served DEF SentInv, Still
  <2>. QED
    BY <2>2, <1>1, AttachedOthers
<1>3. ASSUME NEW r, Ask(r), shown' = shown PROVE AttachedInv'
  <2>1. UNCHANGED <<world, treeVars, used, feedVars>> /\ known' = known /\ Sent' = Sent
    BY <1>3 DEF Ask, Sent, stateVars
  <2>. QED
    BY <2>1, <1>1, <1>3, AttachedOthers
<1>4. ASSUME NEW i \in Nodes, Collapse(i) PROVE AttachedInv'
  <2>1. ~ Still /\ UNCHANGED <<world, treeVars, used, feedVars>>
    BY <1>4 DEF Collapse, Ask, Still
  <2>. QED
    BY <2>1, <1>1, AttachedOthers
<1>5. CASE Verde
  BY <1>3, <1>4, <1>5, AttachedReveal DEF Verde, Expand, AskSnapshot
<1>6. CASE Connection
  BY <1>2, <1>6, AttachedRecv, AttachedAdded, AttachedRest, AttachedSeeds, AttachedFlush,
     AttachedChildren DEF Connection
<1>7. CASE UNCHANGED vars
  <2>1. /\ UNCHANGED <<world, treeVars, used, feedVars>>
        /\ known' = known /\ Sent' = Sent /\ shown' = shown
    BY <1>7 DEF vars, Sent, stateVars
  <2>. QED
    BY <2>1, <1>1, AttachedOthers
<1>. QED
  BY <1>5, <1>6, <1>7, AttachedPatch DEF Next

\* Every node Verde has hangs off the roots through nodes it has, though a change is read
\* long after the mirror went on, some are lost, and nodes are revealed out of turn: as long
\* as nothing moves, comes back or is released.
THEOREM AttachedCorrect == Spec => []Attached
<1>1. AttachedInv => Attached
  BY DEF AttachedInv, Attached, Rooted, Still
<1>. QED
  BY AttachedInit, AttachedStep, <1>1, PTL DEF Spec

=============================================================================
