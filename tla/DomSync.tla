------------------------------- MODULE DomSync -------------------------------
(***************************************************************************)
(* The client's half of the mirror, the game it follows, and the wire to   *)
(* the broker's half.                                                      *)
(*                                                                         *)
(* DomSync remembers which instances it has mirrored and under which       *)
(* parent.  Nodes are mirrored on demand, one at a time, with the ancestors*)
(* that were never sent; DomWatch prunes what leaves the game and, unless  *)
(* it is lazy, adds what enters.  A move inside the game raises no event,  *)
(* so what was sent about a node may be out of date until it is refreshed. *)
(***************************************************************************)
EXTENDS SessionDom, FiniteSetsExt, SequencesExt

CONSTANTS
    Worlds,    \* what happens: a set of sets of "move", "leave", "refer", "eager"
    MaxWire,   \* bound: patches on their way, before the client sends another
    MaxNodes   \* bound: instances asked for at once

\* The game holds finitely many instances.
ASSUME NodesAssumption == IsFiniteSet(Nodes)

VARIABLES
    world,     \* the chosen one: the game moves instances or removes them, a
               \*   value refers to one outside the game, the watch is not lazy
    live,      \* live[i]: the parent of instance i in the game, Root is `game`
    parents,   \* DomSync._parents, its domain is `_ids`
    wire       \* DomPatch messages, in order

syncVars == <<world, live, parents, wire>>
vars == <<domVars, syncVars>>

Patch(ups, gone) == [upserts |-> ups, removals |-> gone]

\* The orders with ancestors before descendants.
TopDown(S) ==
    {list \in SetToSeqs(S) :
       \A k, l \in DOMAIN list : k < l => ~ Reaches(live, list[k], list[l])}

(***************************************************************************)
(* DomSync.                                                                *)
(***************************************************************************)
\* The parent a record gives: nil and `game` are the same to the mirror.
At(tree, i) == IF i \in DOMAIN tree THEN tree[i] ELSE Root

\* The instances _mirror(i, refresh) sends: i, after its unmirrored ancestors.
Mirrored(tree, known, i) ==
    LET chain[j \in Nodes] ==
            IF At(tree, j) \in known \cup {Root} THEN <<j>>
            ELSE Append(chain[At(tree, j)], j)
    IN  chain[i]

Records(tree, sent) == [k \in DOMAIN sent |-> [id |-> sent[k], parent |-> At(tree, sent[k])]]

\* What DomSync remembers once these are sent.
Remembered(tree, sent) == Over([i \in ToSet(sent) |-> At(tree, i)], parents)

\* The patch of these.
Send(tree, sent) ==
    /\ parents' = Remembered(tree, sent)
    /\ wire' = Append(wire, Patch(Records(tree, sent), {}))

\* A list of instances mirrored one after the other into one patch.
MirrorNext(sent, i) == sent \o Mirrored(live, DOMAIN parents \cup ToSet(sent), i)
MirrorList(list) == FoldLeft(MirrorNext, <<>>, list)

\* Remove: the instance and what is mirrored under it, as far as DomSync remembers.
RemoveNode(known, i) ==
    IF i \notin DOMAIN known THEN {}
    ELSE {i} \cup {j \in DOMAIN known : Reaches(known, j, i)}

\* One Remove after the other: what is remembered after them, and the ids they gave.
RemoveNext(acc, i) ==
    LET drop == RemoveNode(acc.known, i) IN
    [known |-> Restrict(acc.known, DOMAIN acc.known \ drop),
     ids   |-> IF drop = {} THEN acc.ids ELSE Append(acc.ids, i)]
RemoveEach(known, list) == FoldLeft(RemoveNext, [known |-> known, ids |-> <<>>], list)

(***************************************************************************)
(* The game.                                                               *)
(***************************************************************************)
Inside == DOMAIN live \cup {Root}

Enter(i, p) ==
    /\ i \notin DOMAIN live /\ p \in Inside /\ "eager" \notin world
    /\ live' = Put(live, i, p)
    /\ UNCHANGED <<world, parents, wire, domVars>>

\* DescendantAdded: the watch upserts it.
EnterWatched(i, p) ==
    /\ i \notin DOMAIN live /\ p \in Inside /\ "eager" \in world /\ Len(wire) < MaxWire
    /\ live' = Put(live, i, p)
    /\ Send(live', Mirrored(live', DOMAIN parents, i))
    /\ UNCHANGED <<world, domVars>>

Move(i, p) ==
    /\ "move" \in world
    /\ i \in DOMAIN live /\ p \in Inside \ {live[i]}
    /\ p \notin Subtree(live, i)
    /\ live' = [live EXCEPT ![i] = p]
    /\ UNCHANGED <<world, parents, wire, domVars>>

\* DescendantRemoving, for the instance and each of its descendants: one Remove and one
\* patch for each that is mirrored still.
Leave(i) ==
    /\ "leave" \in world /\ i \in DOMAIN live /\ Len(wire) < MaxWire
    /\ \E list \in TopDown(Subtree(live, i)) :
          LET after == RemoveEach(parents, list)
          IN  /\ parents' = after.known
              /\ wire' = wire \o [k \in DOMAIN after.ids |-> Patch(<<>>, {after.ids[k]})]
    /\ live' = Restrict(live, DOMAIN live \ Subtree(live, i))
    /\ UNCHANGED <<world, domVars>>

(***************************************************************************)
(* What the broker asks for, and what operations refresh.                  *)
(***************************************************************************)
\* SyncNode, SyncNodes, SyncSearch: some instances of the game, in any order.
SyncNodes(S) ==
    /\ S \subseteq DOMAIN live /\ Cardinality(S) \in 1..MaxNodes /\ Len(wire) < MaxWire
    /\ \E list \in SetToSeqs(S) : Send(live, MirrorList(list))
    /\ UNCHANGED <<world, live, domVars>>

\* SyncNode for a value or a result that is an instance outside the game.
SyncRef(i) ==
    /\ "refer" \in world /\ i \in Nodes \ DOMAIN live /\ Len(wire) < MaxWire
    /\ Send(live, MirrorList(<<i>>))
    /\ UNCHANGED <<world, live, domVars>>

\* SyncChildren, of a mirrored instance or of the game.
SyncChildren(p) ==
    /\ p \in (DOMAIN parents \cap DOMAIN live) \cup {Root} /\ Len(wire) < MaxWire
    /\ \E children \in SetToSeqs({i \in DOMAIN live : live[i] = p}) :
          Send(live, MirrorList((IF p = Root THEN <<>> ELSE <<p>>) \o children))
    /\ UNCHANGED <<world, live, domVars>>

\* Snapshot of the whole scope, the only one the broker asks for: everything, and the
\* removal, in the order of a table, of what is remembered and was not met.
SyncSnapshot ==
    /\ Len(wire) < MaxWire
    /\ \E list \in TopDown(DOMAIN live), stale \in SetToSeqs(DOMAIN parents \ DOMAIN live) :
          LET sent  == MirrorList(list)
              after == RemoveEach(Remembered(live, sent), stale)
          IN  /\ parents' = after.known
              /\ wire' = Append(wire, Patch(Records(live, sent), ToSet(after.ids)))
    /\ UNCHANGED <<world, live, domVars>>

\* The broker takes the next patch and merges it.
Receive ==
    /\ wire # <<>>
    /\ Begin(Head(wire))
    /\ wire' = Tail(wire)
    /\ UNCHANGED <<world, live, parents>>

-----------------------------------------------------------------------------
Init ==
    /\ DomInit
    /\ world \in Worlds
    /\ live = Empty /\ parents = Empty /\ wire = <<>>

Game   == \E i \in Nodes : \/ \E p \in Places : Enter(i, p) \/ EnterWatched(i, p) \/ Move(i, p)
                           \/ Leave(i)
Client == \/ \E S \in SUBSET Nodes : SyncNodes(S)
          \/ \E i \in Nodes : SyncRef(i)
          \/ \E p \in Places : SyncChildren(p)
          \/ SyncSnapshot
Apply  == ApplyStep /\ UNCHANGED syncVars

Next == Game \/ Client \/ Receive \/ Apply

Spec == Init /\ [][Next]_vars

\* `apply` is synchronous code: it runs to its end.
LiveSpec == Spec /\ WF_vars(Apply)

-----------------------------------------------------------------------------
Drained == wire = <<>> /\ phase = "idle"

\* Once the patches are in, the broker mirrors the nodes the client believes it
\* mirrors, each where the client last said it is, or with a move there queued.
HalvesAgree ==
    Drained =>
        /\ DOMAIN mirror = DOMAIN parents
        /\ \A i \in DOMAIN parents :
              parents[i] = IF i \in DOMAIN pending THEN pending[i] ELSE mirror[i]

\* If everything the client remembers is up to date, the mirror is exact and no move is
\* left queued: deferred moves settle in any order, over however many patches.
FreshIsExact ==
    Drained /\ DOMAIN parents \subseteq DOMAIN live
            /\ (\A i \in DOMAIN parents : parents[i] = live[i])
        => mirror = parents /\ pending = Empty

\* "prune the mirror as instances leave the subtree": once the patches are in, no
\* instance is mirrored that left the game.
GoneIsPruned == Drained => DOMAIN mirror \subseteq DOMAIN live

\* Merging a patch ends: every pass of the reparenting loop makes a move or is the last.
ApplyEnds == phase # "idle" ~> phase = "idle"

=============================================================================
