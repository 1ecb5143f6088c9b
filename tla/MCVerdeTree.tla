---------------------------- MODULE MCVerdeTree ----------------------------
(* VerdeTree on small instances.                                           *)
EXTENDS VerdeTree

\* Nodes are told apart by nothing but the tree.
AnyNode == Permutations(Nodes)

\* Three overflow the feed; what becomes of names is the same in every world.
MCMaxPatches == [w \in Worlds |-> IF "rename" \in w THEN 2 ELSE 3]

\* A reduction: while a change is translated the mirror's lock is held and the connection
\* is busy; Verde's steps touch nothing the translation does, so it goes on to its end.
TranslationGoesOn == busy => UNCHANGED <<shown, asked, asks>>

=============================================================================
