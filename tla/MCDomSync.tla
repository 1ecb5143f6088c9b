----------------------------- MODULE MCDomSync -----------------------------
(* DomSync on small instances.                                             *)
EXTENDS DomSync

\* A reduction: the steps of `apply` touch the broker's variables only and the game's
\* and the client's steps touch none of them, so they commute, and only the runs in
\* which a merge that has begun goes on to its end are explored.
ApplyGoesOn == phase # "idle" => UNCHANGED syncVars

=============================================================================
