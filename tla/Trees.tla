------------------------------- MODULE Trees -------------------------------
(***************************************************************************)
(* Trees as functions from a node to its parent, and partial functions.    *)
(* The broker's WeakDom, the client's DomSync and Verde's explorer all hold*)
(* one: nodes are the client's ids, Root is the DataModel.                 *)
(***************************************************************************)
CONSTANTS Nodes, Root

ASSUME TreesAssumption == Root \notin Nodes

Places == Nodes \cup {Root}

Empty == [i \in {} |-> Root]

Put(f, i, v) == [j \in DOMAIN f \cup {i} |-> IF j = i THEN v ELSE f[j]]

\* The entries of `new`, and those of `old` that it does not replace.
Over(new, old) ==
    [i \in DOMAIN new \cup DOMAIN old |-> IF i \in DOMAIN new THEN new[i] ELSE old[i]]

\* The sets of nodes that hold the parent of each of their members.
Closed(tree, S) == \A j \in S \cap DOMAIN tree : tree[j] \in S \cup {Root}

\* Going up from i passes r (a node is its own ancestor here).
Reaches(tree, i, r) == \A S \in SUBSET Nodes : i \in S /\ Closed(tree, S) => r \in S

Subtree(tree, r) == {i \in DOMAIN tree : Reaches(tree, i, r)}

\* Every node hangs, through nodes of the tree, off the root: no set of nodes holds all
\* its parents.
IsForest(tree) ==
    /\ \A i \in DOMAIN tree : tree[i] \in DOMAIN tree \cup {Root}
    /\ \A S \in SUBSET DOMAIN tree : S # {} => \E i \in S : tree[i] \notin S

=============================================================================
