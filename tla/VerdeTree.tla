----------------------------- MODULE VerdeTree -----------------------------
(***************************************************************************)
(* The explorer tree that Verde is shown, and how the connection keeps it  *)
(* in step with the mirror: a snapshot, then deltas translated from the    *)
(* change feed of the mirror, with lazy expansion on Verde's request.      *)
(*                                                                         *)
(* `known` and `loaded` are the connection's idea of what Verde has; each  *)
(* change is translated against the mirror as it is when it is read.  Verde*)
(* keeps a flat table of nodes (protocol.rs: "verde's flat tree            *)
(* representation").  Its half is external: it stores what it is sent, asks*)
(* to expand nodes it has, and releases what is under a collapsed one.     *)
(*                                                                         *)
(* Three reductions.  A message to Verde arrives when it is sent: only what*)
(* Verde asks depends on its table, and those requests may wait.           *)
(* Consecutive DeltaOps of one kind are one batch: they name different     *)
(* nodes.  A patch makes all its moves: SessionDom shows which are left for*)
(* a later patch, which then reports them.  A name is one of `Names`.      *)
(***************************************************************************)
EXTENDS Trees, Sequences, FiniteSets, SequencesExt

CONSTANTS
    Names,
    Capacity,     \* CHANGE_CAPACITY
    Worlds,       \* what happens: a set of sets of "move", "lazy", "rename", "release",
                  \*   "return": an instance that was removed comes back, under the same id
                  \*   (its UniqueId), and "pair": a patch may hold two instances
    MaxPatches,   \* bound, per world: patches the client sends
    MaxAsks       \* bound: requests and operations of Verde

ASSUME VerdeTreeAssumption ==
    Capacity \in Nat \ {0} /\ IsFiniteSet(Nodes) /\ Names # {}

VARIABLES
    world,
    mirror, flags, names,  \* per mirrored id: its parent, its child_flags entry, its name
    used,                  \* ids given out: an instance without a UniqueId gets a new one
    feed, lagged,          \* the DomChanges not yet received, and whether one was lost
    busy, change,          \* a change is being translated, and what is left of it
    known, loaded, buf,    \* TreeState
    shown,                 \* Verde's table
    asked,                 \* Verde's requests on their way
    patches, asks          \* the bounds' counters

treeVars == <<mirror, flags, names>>
stateVars == <<known, loaded, buf>>
feedVars == <<feed, lagged, busy, change>>
vars == <<world, treeVars, used, feedVars, stateVars, shown, asked, patches, asks>>

\* A DomChange: ids only, the new ones in order.
Changes == [added : Seq(Nodes), removed : SUBSET Nodes, moved : SUBSET Nodes,
            renamed : SUBSET Nodes, children : SUBSET Nodes]

NoChange == [added |-> <<>>, removed |-> {}, moved |-> {}, renamed |-> {}, children |-> {}]

(***************************************************************************)
(* The mirror.                                                             *)
(***************************************************************************)
Children(p) == {i \in DOMAIN mirror : mirror[i] = p}

HasChildren(i) == Children(i) # {} \/ flags[i]

\* A node as Verde gets it.
ShallowNode(i) == [parent |-> mirror[i], kids |-> HasChildren(i), name |-> names[i]]

\* The two snapshots; the full one lists children, and has none to expand.
RootsSnapshot == [i \in Children(Root) |-> ShallowNode(i)]
FullSnapshot == [i \in DOMAIN mirror |->
                   [ShallowNode(i) EXCEPT !.kids = Children(i) # {}]]

\* Every instance that `rec` upserts, each under its parent if that one is mirrored.
Merged(rec) ==
    LET there == DOMAIN mirror \cup DOMAIN rec
    IN  Over([i \in DOMAIN rec |-> IF rec[i].parent \in there THEN rec[i].parent ELSE Root],
             mirror)

\* The removed instances with all their descendants.
Destroyed(tree, gone) == UNION {Subtree(tree, r) : r \in gone}

\* Mutant: the removed subtree's top is reported, its descendants are not.
Summary_TopOnly(rec, order, gone, tree) ==
    LET new     == DOMAIN rec \ DOMAIN mirror
        moved   == {i \in DOMAIN rec \ new : tree[i] # mirror[i]}
        touched == {mirror[i] : i \in moved} \cup {tree[i] : i \in moved \cup new \cup gone}
        removed == Destroyed(tree, gone)
    IN  [added    |-> order,
         removed  |-> gone,
         moved    |-> moved,
         renamed  |-> {i \in DOMAIN rec \ new : rec[i].name # names[i]},
         children |-> (touched \cap DOMAIN tree) \ (removed \cup new)]

\* Mutant: the final parent of a new instance is not looked up.
Summary_ForgetsNew(rec, order, gone, tree) ==
    LET new     == DOMAIN rec \ DOMAIN mirror
        moved   == {i \in DOMAIN rec \ new : tree[i] # mirror[i]}
        touched == {mirror[i] : i \in moved} \cup {tree[i] : i \in moved \cup gone}
        removed == Destroyed(tree, gone)
    IN  [added    |-> order,
         removed  |-> removed,
         moved    |-> moved,
         renamed  |-> {i \in DOMAIN rec \ new : rec[i].name # names[i]},
         children |-> (touched \cap DOMAIN tree) \ (removed \cup new)]

\* What the patch changed, for the feed; `order` lists the new instances.
Summary(rec, order, gone, tree) ==
    LET new     == DOMAIN rec \ DOMAIN mirror
        moved   == {i \in DOMAIN rec \ new : tree[i] # mirror[i]}
        touched == {mirror[i] : i \in moved} \cup {tree[i] : i \in moved \cup new \cup gone}
        removed == Destroyed(tree, gone)
    IN  [added    |-> order,
         removed  |-> removed,
         moved    |-> moved,
         renamed  |-> {i \in DOMAIN rec \ new : rec[i].name # names[i]},
         children |-> (touched \cap DOMAIN tree) \ (removed \cup new)]

\* Mutant: the feed keeps every change.
Broadcast_Unbounded(ch) ==
    /\ feed' = Append(feed, ch)
    /\ lagged' = lagged

\* tokio's broadcast: the oldest unread change gives way, and the receiver is told.
Broadcast(ch) ==
    /\ feed' = Append(IF Len(feed) = Capacity THEN Tail(feed) ELSE feed, ch)
    /\ lagged' = (lagged \/ Len(feed) = Capacity)

\* Mirror::apply, under the mirror's lock: upserts, then removals, then the broadcast.
Patch(rec, order, gone) ==
    LET tree == Merged(rec)
        ch   == Summary(rec, order, gone, tree)
        left == DOMAIN tree \ Destroyed(tree, gone)
    IN  /\ ~ busy /\ patches < MaxPatches[world]
        /\ "return" \in world \/ DOMAIN rec \cap (used \ DOMAIN mirror) = {}
        /\ IsForest(tree)
        /\ gone \subseteq DOMAIN mirror \ DOMAIN rec
        /\ mirror' = Restrict(tree, left)
        /\ flags' = [i \in left |-> IF i \in DOMAIN rec THEN rec[i].kids ELSE flags[i]]
        /\ names' = [i \in left |-> IF i \in DOMAIN rec THEN rec[i].name ELSE names[i]]
        /\ used' = used \cup DOMAIN rec
        /\ IF ch = NoChange THEN UNCHANGED <<feed, lagged>> ELSE Broadcast(ch)
        /\ patches' = patches + 1
        /\ UNCHANGED <<world, busy, change, stateVars, shown, asked, asks>>

(***************************************************************************)
(* Delta ops.                                                              *)
(***************************************************************************)
AddSubtree(nodes) == [type |-> "add_subtree", nodes |-> nodes]
RemoveNode(ids)   == [type |-> "remove_node", ids |-> ids]
MoveNode(to)      == [type |-> "move_node", to |-> to]
RenameNode(to)    == [type |-> "rename", to |-> to]
HasChildrenOf(to) == [type |-> "has_children", to |-> to]

\* What Verde makes of a batch.
Effect(table, op) ==
    IF op.type = "add_subtree" THEN Over(op.nodes, table)
    ELSE IF op.type = "remove_node" THEN Restrict(table, DOMAIN table \ op.ids)
    ELSE [i \in DOMAIN table |->
            IF i \notin DOMAIN op.to THEN table[i]
            ELSE IF op.type = "move_node" THEN [table[i] EXCEPT !.parent = op.to[i]]
            ELSE IF op.type = "rename" THEN [table[i] EXCEPT !.name = op.to[i]]
            ELSE [table[i] EXCEPT !.kids = op.to[i]]]

Replay(table, ops) == FoldLeft(Effect, table, ops)

\* Pushing a batch, if it has any op.
Push(ops, ids, op) == IF ids = {} THEN ops ELSE Append(ops, op)

(***************************************************************************)
(* The connection.                                                         *)
(***************************************************************************)
\* The next change is read; until it is translated the mirror's lock is held.
Recv ==
    /\ ~ busy /\ ~ lagged /\ feed # <<>>
    /\ busy' = TRUE /\ change' = Head(feed) /\ feed' = Tail(feed)
    /\ UNCHANGED <<world, treeVars, used, lagged, stateVars, shown, asked, patches, asks>>

\* Mutant: an added instance is announced whatever its parent.
TranslateAdded_Unplaced ==
    /\ busy /\ change.added # <<>>
    /\ LET i == Head(change.added) IN
       IF i \in DOMAIN mirror
       THEN /\ buf' = Append(buf, AddSubtree([j \in {i} |-> ShallowNode(j)]))
            /\ known' = known \cup {i}
            /\ loaded' = loaded \cup ({mirror[i]} \ {Root})
       ELSE UNCHANGED stateVars
    /\ change' = [change EXCEPT !.added = Tail(@)]
    /\ UNCHANGED <<world, treeVars, used, feed, lagged, busy, shown, asked, patches, asks>>

\* An added instance, if it is mirrored still: a root, or under a parent Verde has.
TranslateAdded ==
    /\ busy /\ change.added # <<>>
    /\ LET i == Head(change.added) IN
       IF i \in DOMAIN mirror /\ mirror[i] \in known \cup {Root}
       THEN /\ buf' = Append(buf, AddSubtree([j \in {i} |-> ShallowNode(j)]))
            /\ known' = known \cup {i}
            /\ loaded' = loaded \cup ({mirror[i]} \ {Root})
       ELSE UNCHANGED stateVars
    /\ change' = [change EXCEPT !.added = Tail(@)]
    /\ UNCHANGED <<world, treeVars, used, feed, lagged, busy, shown, asked, patches, asks>>

\* The rest of the change, each part about nodes Verde has.
TranslateRest ==
    /\ busy /\ change.added = <<>>
    /\ LET removed  == change.removed \cap known
           left     == known \ removed
           moved    == change.moved \cap left
           renamed  == change.renamed \cap left \cap DOMAIN mirror
           children == change.children \cap left \cap DOMAIN mirror
           place(i) == IF i \in DOMAIN mirror THEN mirror[i] ELSE Root
           ops1     == Push(buf, removed, RemoveNode(removed))
           ops2     == Push(ops1, moved, MoveNode([i \in moved |-> place(i)]))
           ops3     == Push(ops2, renamed, RenameNode([i \in renamed |-> names[i]]))
       IN  /\ buf' = Push(ops3, children, HasChildrenOf([i \in children |-> HasChildren(i)]))
           /\ known' = left
    /\ busy' = FALSE /\ change' = NoChange
    /\ UNCHANGED <<world, treeVars, used, feed, lagged, loaded, shown, asked, patches, asks>>

\* Seeding the state from a snapshot drops what is buffered, and Verde gets the snapshot.
Seed(snapshot, full) ==
    /\ known' = DOMAIN snapshot
    /\ loaded' = IF full THEN DOMAIN snapshot ELSE {}
    /\ buf' = <<>>
    /\ shown' = snapshot

\* Mutant: the lag is logged, and that is all.
FullResync_OnlyLogs ==
    /\ ~ busy /\ lagged
    /\ lagged' = FALSE
    /\ UNCHANGED <<world, treeVars, used, feed, busy, change, stateVars, shown, asked, patches, asks>>

\* Lagged: the feed goes on behind the loss.
FullResync ==
    /\ ~ busy /\ lagged
    /\ lagged' = FALSE
    /\ Seed(FullSnapshot, TRUE)
    /\ UNCHANGED <<world, treeVars, used, feed, busy, change, asked, patches, asks>>

\* The debounce elapsed.
Flush ==
    /\ ~ busy /\ buf # <<>>
    /\ shown' = Replay(shown, buf)
    /\ buf' = <<>>
    /\ UNCHANGED <<world, treeVars, used, feedVars, known, loaded, asked, patches, asks>>

Serve(type) ==
    /\ ~ busy /\ asked # <<>> /\ Head(asked).type = type
    /\ asked' = Tail(asked)
    /\ UNCHANGED <<world, treeVars, used, feedVars, patches, asks>>

RequestSnapshot ==
    /\ Serve("request_snapshot")
    /\ IF Head(asked).full THEN Seed(FullSnapshot, TRUE) ELSE Seed(RootsSnapshot, FALSE)

\* Mutant: the children are sent, and not remembered.
RequestChildren_Forgets ==
    /\ Serve("request_children")
    /\ LET p == Head(asked).parent IN
       IF p \in loaded \/ p \notin known
       THEN UNCHANGED stateVars
       ELSE /\ loaded' = loaded \cup {p}
            /\ known' = known
            /\ buf' = IF Children(p) # {}
                      THEN Append(buf, AddSubtree([i \in Children(p) |-> ShallowNode(i)]))
                      ELSE IF p \in DOMAIN mirror /\ flags[p] THEN buf
                      ELSE Append(buf, HasChildrenOf([i \in {p} |-> FALSE]))
    /\ UNCHANGED shown

\* A node that is expanded: what is mirrored under it, or the client is asked for more.
RequestChildren ==
    /\ Serve("request_children")
    /\ LET p == Head(asked).parent IN
       IF p \in loaded \/ p \notin known
       THEN UNCHANGED stateVars
       ELSE /\ loaded' = loaded \cup {p}
            /\ known' = known \cup Children(p)
            /\ buf' = IF Children(p) # {}
                      THEN Append(buf, AddSubtree([i \in Children(p) |-> ShallowNode(i)]))
                      ELSE IF p \in DOMAIN mirror /\ flags[p] THEN buf
                      ELSE Append(buf, HasChildrenOf([i \in {p} |-> FALSE]))
    /\ UNCHANGED shown

ReleaseSubtree ==
    /\ Serve("release_subtree")
    /\ LET r == Head(asked) IN
       /\ loaded' = loaded \ ({r.parent} \cup r.nodes)
       /\ known' = known \ r.nodes
    /\ UNCHANGED <<buf, shown>>

\* reveal_path: the instance and its ancestors, up to the first that Verde has.
Chain(i) == {a \in DOMAIN mirror \ known :
               /\ Reaches(mirror, i, a)
               /\ \A k \in known \cap DOMAIN mirror : Reaches(mirror, i, k) => ~ Reaches(mirror, k, a)}

\* An operation's result names an instance: its path is revealed and flushed, if the
\* instance is mirrored, before the result is sent.
Reveal(i) ==
    /\ ~ busy /\ asks < MaxAsks
    /\ asks' = asks + 1
    /\ LET chain == IF i \in DOMAIN mirror \ known THEN Chain(i) ELSE {}
           ops   == Push(buf, chain, AddSubtree([a \in chain |-> ShallowNode(a)]))
       IN  /\ known' = known \cup chain
           /\ loaded' = loaded \cup ({mirror[a] : a \in chain} \ {Root})
           /\ shown' = Replay(shown, ops)
    /\ buf' = <<>>
    /\ UNCHANGED <<world, treeVars, used, feedVars, asked, patches>>

(***************************************************************************)
(* Verde.                                                                  *)
(***************************************************************************)
Ask(request) ==
    /\ asks < MaxAsks /\ asked = <<>>
    /\ asks' = asks + 1
    /\ asked' = Append(asked, request)
    /\ UNCHANGED <<world, treeVars, used, feedVars, stateVars, patches>>

AskSnapshot(full) == Ask([type |-> "request_snapshot", full |-> full]) /\ UNCHANGED shown

Expand(p) ==
    /\ p \in DOMAIN shown
    /\ Ask([type |-> "request_children", parent |-> p])
    /\ UNCHANGED shown

\* A node is collapsed: what is under it goes from the table.
Collapse(p) ==
    LET below == Subtree([i \in DOMAIN shown |-> shown[i].parent], p) \ {p} IN
    /\ "release" \in world /\ p \in DOMAIN shown
    /\ Ask([type |-> "release_subtree", parent |-> p, nodes |-> below])
    /\ shown' = Restrict(shown, DOMAIN shown \ below)

-----------------------------------------------------------------------------
\* What every instance is called first.
FirstName == CHOOSE n \in Names : TRUE

\* A connection that was just greeted: Verde has the roots of whatever is mirrored.
Init ==
    /\ world \in Worlds
    /\ \E S \in SUBSET Nodes : mirror \in {t \in [S -> S \cup {Root}] : IsForest(t)}
    /\ flags = [i \in DOMAIN mirror |-> FALSE]
    /\ names = [i \in DOMAIN mirror |-> FirstName]
    /\ used = DOMAIN mirror
    /\ feed = <<>> /\ lagged = FALSE /\ busy = FALSE /\ change = NoChange
    /\ known = Children(Root) /\ loaded = {} /\ buf = <<>>
    /\ shown = RootsSnapshot
    /\ asked = <<>> /\ patches = 0 /\ asks = 0

\* The records a client's patch may hold in this world; refreshes change something.
Records(i) ==
    {r \in [parent : Places, kids : BOOLEAN, name : Names] :
       /\ r.kids => "lazy" \in world
       /\ i \notin DOMAIN mirror => r.name = FirstName
       /\ i \in DOMAIN mirror =>
            /\ r # [parent |-> mirror[i], kids |-> flags[i], name |-> names[i]]
            /\ r.parent # mirror[i] => "move" \in world
            /\ r.name # names[i] => "rename" \in world}

ClientPatch ==
    /\ ~ busy /\ patches < MaxPatches[world]  \* Patch's own guards, ahead of the choices
    /\ \E S \in SUBSET Nodes, gone \in SUBSET Nodes :
         /\ Cardinality(S) <= (IF "pair" \in world THEN 2 ELSE 1) /\ Cardinality(gone) <= 1
         /\ gone \subseteq DOMAIN mirror \ S
         /\ S \cup gone # {}
         /\ \E rec \in [S -> UNION {Records(i) : i \in S}] :
              /\ \A i \in S : rec[i] \in Records(i)
              /\ \E order \in SetToSeqs(S \ DOMAIN mirror) : Patch(rec, order, gone)

Connection ==
    \/ Recv \/ TranslateAdded \/ TranslateRest \/ FullResync \/ Flush
    \/ RequestSnapshot \/ RequestChildren \/ ReleaseSubtree

Verde ==
    \/ \E i \in Nodes : Expand(i) \/ Collapse(i) \/ Reveal(i)
    \/ \E full \in BOOLEAN : AskSnapshot(full)

Next == ClientPatch \/ Connection \/ Verde

Spec == Init /\ [][Next]_vars

-----------------------------------------------------------------------------
TypeOK ==
    /\ DOMAIN mirror \subseteq Nodes /\ mirror \in [DOMAIN mirror -> Places]
    /\ flags \in [DOMAIN mirror -> BOOLEAN] /\ names \in [DOMAIN mirror -> Names]
    /\ DOMAIN mirror \subseteq used /\ used \subseteq Nodes
    /\ feed \in Seq(Changes) /\ Len(feed) <= Capacity /\ lagged \in BOOLEAN
    /\ busy \in BOOLEAN /\ change \in Changes
    /\ known \subseteq used /\ loaded \subseteq Nodes

\* Nothing that was read or sent is under way.
Settled == feed = <<>> /\ ~ lagged /\ ~ busy /\ buf = <<>> /\ asked = <<>>

Released == IF asked # <<>> /\ Head(asked).type = "release_subtree" THEN Head(asked).nodes
                                                                    ELSE {}

\* Verde has, once the buffer reaches it, every node the connection takes it to have,
\* but for those whose release is on its way; if Verde never releases, no others.
KnownIsShown ==
    ~ busy => /\ known \ Released \subseteq DOMAIN Replay(shown, buf)
              /\ "release" \notin world => known = DOMAIN Replay(shown, buf)

\* A node Verde is taken to have is mirrored, or its removal is still to be read, or a
\* full snapshot is due: changes are translated against a later mirror, the feed loses
\* its oldest change, and no ghost stays all the same.
GhostsAreAnnounced ==
    lagged \/ \A i \in known \ DOMAIN mirror :
                 i \in change.removed \/ \E k \in DOMAIN feed : i \in feed[k].removed

\* When all is read and sent, each node the connection minds is shown where the mirror
\* has it, under the name the mirror has.
ShownIsMirrored ==
    Settled => \A i \in known : /\ i \in DOMAIN mirror
                                /\ shown[i].parent = mirror[i]
                                /\ shown[i].name = names[i]

\* When all is read and sent, a node with mirrored children can be expanded.
Expandable ==
    Settled => \A i \in known : Children(i) # {} => shown[i].kids

\* If instances neither move nor come back and Verde releases nothing, each node hangs off
\* the roots through nodes that Verde has, whatever it expands, reveals or asks anew.
Attached ==
    world \cap {"move", "release", "return"} = {} =>
        \A i \in DOMAIN shown : shown[i].parent \in DOMAIN shown \cup {Root}

=============================================================================
