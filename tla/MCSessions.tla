----------------------------- MODULE MCSessions -----------------------------
(* Sessions on small instances: the connections are interchangeable.       *)
EXTENDS Sessions, TLC

Symmetry == Permutations(Conns) \cup Permutations(Controls)

=============================================================================
