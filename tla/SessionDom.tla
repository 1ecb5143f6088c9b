----------------------------- MODULE SessionDom -----------------------------
(***************************************************************************)
(* The broker's mirror of the client's DataModel: the tree a patch is      *)
(* merged into (SessionDom::apply).                                        *)
(*                                                                         *)
(* A patch holds upserts, in order, and removals.  A parent that is not    *)
(* mirrored yet, or that lies inside the moving node's own subtree, cannot *)
(* be taken at once: moves are queued in `pending` and tried until none    *)
(* can be made, in the order of a HashMap, that is in any order; a move    *)
(* that stays impossible waits for a later patch.                          *)
(*                                                                         *)
(* `apply` runs under the mirror's mutex, so its steps are actions of      *)
(* their own: nobody reads the tree while `phase` is not "idle".  A node   *)
(* is its client id; a Ref is never given out twice, so a queued move      *)
(* whose Ref is gone can never match again and goes with it here.          *)
(***************************************************************************)
EXTENDS Trees, Sequences, Functions

Upserts == [id : Nodes, parent : Places]

VARIABLES
    mirror,    \* mirror[i]: the mirrored parent of node i; its domain is `refs`
    pending,   \* pending[i]: the parent node i could not move under so far
    phase,     \* of apply: "idle", "upsert" or "reparent"
    upserts,   \* the patch's upserts still to do
    moves,     \* moves[i]: the parent the patch asked for node i
    removals   \* the patch's removals

domVars == <<mirror, pending, phase, upserts, moves, removals>>

Begin(patch) ==
    /\ phase = "idle"
    /\ phase' = "upsert"
    /\ upserts' = patch.upserts /\ removals' = patch.removals
    /\ moves' = Empty
    /\ UNCHANGED <<mirror, pending>>

\* Mutant: a node that is already mirrored is refreshed where it is.
Upsert_StaysPut ==
    /\ phase = "upsert" /\ upserts # <<>>
    /\ LET u == Head(upserts) IN
       IF u.id \in DOMAIN mirror
       THEN UNCHANGED <<mirror, moves>>
       ELSE LET known == u.parent \in DOMAIN mirror IN
            /\ mirror' = Put(mirror, u.id, IF known THEN u.parent ELSE Root)
            /\ moves' = IF known \/ u.parent = Root THEN moves
                                                    ELSE Put(moves, u.id, u.parent)
    /\ upserts' = Tail(upserts)
    /\ UNCHANGED <<pending, phase, removals>>

\* A mirrored node is asked to move, a new one starts under its parent if that one
\* is mirrored and at the root otherwise.
Upsert ==
    /\ phase = "upsert" /\ upserts # <<>>
    /\ LET u == Head(upserts) IN
       IF u.id \in DOMAIN mirror
       THEN /\ moves' = Put(moves, u.id, u.parent)
            /\ mirror' = mirror
       ELSE LET known == u.parent \in DOMAIN mirror IN
            /\ mirror' = Put(mirror, u.id, IF known THEN u.parent ELSE Root)
            /\ moves' = IF known \/ u.parent = Root THEN moves
                                                    ELSE Put(moves, u.id, u.parent)
    /\ upserts' = Tail(upserts)
    /\ UNCHANGED <<pending, phase, removals>>

\* The requested parent, or the root if it is not mirrored.
Resolved(i) == IF moves[i] \in DOMAIN mirror THEN moves[i] ELSE Root

\* Mutant: only this patch's moves are tried, the deferred ones are forgotten.
Queue_Replaces ==
    /\ phase = "upsert" /\ upserts = <<>>
    /\ pending' = [i \in DOMAIN moves |-> Resolved(i)]
    /\ moves' = Empty
    /\ phase' = "reparent"
    /\ UNCHANGED <<mirror, upserts, removals>>

\* A newer request replaces the one that is queued.
Queue ==
    /\ phase = "upsert" /\ upserts = <<>>
    /\ pending' = [i \in DOMAIN pending \cup DOMAIN moves |->
                     IF i \in DOMAIN moves THEN Resolved(i) ELSE pending[i]]
    /\ moves' = Empty
    /\ phase' = "reparent"
    /\ UNCHANGED <<mirror, upserts, removals>>

Discard(i) == pending' = Restrict(pending, DOMAIN pending \ {i})

\* The new parent is inside the node's own subtree.
Blocked(i) == /\ pending[i] \notin {i, mirror[i], Root}
              /\ Reaches(mirror, pending[i], i)

\* Mutant: only the node itself is ruled out as its parent.
Reparent_NoAncestorCheck(i) ==
    /\ phase = "reparent" /\ i \in DOMAIN pending
    /\ mirror' = IF pending[i] = i THEN mirror ELSE [mirror EXCEPT ![i] = pending[i]]
    /\ Discard(i)
    /\ UNCHANGED <<phase, upserts, moves, removals>>

\* Mutant: a move that was made stays queued.
Reparent_StaysQueued(i) ==
    /\ phase = "reparent" /\ i \in DOMAIN pending /\ ~ Blocked(i)
    /\ mirror' = IF pending[i] \in {i, mirror[i]} THEN mirror ELSE [mirror EXCEPT ![i] = pending[i]]
    /\ UNCHANGED <<pending, phase, upserts, moves, removals>>

\* One queued move that can be made, or that asks for nothing.
Reparent(i) ==
    /\ phase = "reparent" /\ i \in DOMAIN pending /\ ~ Blocked(i)
    /\ mirror' = IF pending[i] \in {i, mirror[i]} THEN mirror ELSE [mirror EXCEPT ![i] = pending[i]]
    /\ Discard(i)
    /\ UNCHANGED <<phase, upserts, moves, removals>>

\* Mutant: the queue is gone through once, not until nothing moves.
Finish_OnePass ==
    /\ phase = "reparent"
    /\ LET gone == UNION {Subtree(mirror, r) : r \in removals \cap DOMAIN mirror}
           left == DOMAIN mirror \ gone
       IN  /\ mirror' = Restrict(mirror, left)
           /\ pending' = Restrict(pending, {i \in DOMAIN pending \cap left :
                                              pending[i] \in left \cup {Root}})
    /\ phase' = "idle"
    /\ removals' = {}
    /\ UNCHANGED <<upserts, moves>>

\* No move can be made any more: the removed subtrees go, and the lock.
Finish ==
    /\ phase = "reparent" /\ \A i \in DOMAIN pending : Blocked(i)
    /\ LET gone == UNION {Subtree(mirror, r) : r \in removals \cap DOMAIN mirror}
           left == DOMAIN mirror \ gone
       IN  /\ mirror' = Restrict(mirror, left)
           /\ pending' = Restrict(pending, {i \in DOMAIN pending \cap left :
                                              pending[i] \in left \cup {Root}})
    /\ phase' = "idle"
    /\ removals' = {}
    /\ UNCHANGED <<upserts, moves>>

DomInit ==
    /\ mirror = Empty /\ pending = Empty
    /\ phase = "idle" /\ upserts = <<>> /\ moves = Empty /\ removals = {}

ApplyStep == Upsert \/ Queue \/ (\E i \in Nodes : Reparent(i)) \/ Finish

\* The mirror by itself, given any patches whatsoever.
AnyPatch ==
    /\ phase = "idle"
    /\ phase' = "upsert"
    /\ upserts' \in Seq(Upserts) /\ removals' \in SUBSET Nodes
    /\ moves' = Empty
    /\ UNCHANGED <<mirror, pending>>

DomSpec == DomInit /\ [][AnyPatch \/ ApplyStep]_domVars

-----------------------------------------------------------------------------
Partial(f) == f \in [DOMAIN f -> Places] /\ DOMAIN f \subseteq Nodes

\* The mirror's variables keep their types.
DomTypeOK ==
    /\ Partial(mirror) /\ Partial(moves) /\ Partial(pending)
    /\ phase \in {"idle", "upsert", "reparent"}
    /\ upserts \in Seq(Upserts) /\ removals \subseteq Nodes

\* Every mirrored node hangs, through mirrored nodes, off the root: no set of nodes
\* holds all its parents.  Whatever patches ask for, in whatever order the HashMap
\* offers the moves, and in between the moves too, no subtree is ever detached
\* (a cycle would also hang `ancestors_of`) and no parent is dangling.
Forest == IsForest(mirror)

\* Between patches, a move is only still queued if the tree forbids it: none is
\* forgotten that could be made, none waits for something that is gone.
DeferredIsBlocked ==
    phase = "idle" =>
        /\ DOMAIN pending \subseteq DOMAIN mirror
        /\ \A i \in DOMAIN pending : Blocked(i)

=============================================================================
