--------------------------- MODULE MCVerdeFollow ---------------------------
(* VerdeFollow on a small instance.                                        *)
EXTENDS VerdeFollow

=============================================================================
