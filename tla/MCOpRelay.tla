----------------------------- MODULE MCOpRelay -----------------------------
(* OpRelay on small instances.                                             *)
EXTENDS OpRelay

=============================================================================
