--------------------------- MODULE MCAuthorization ---------------------------
(* Authorization on a small instance. *)
EXTENDS Authorization

CONSTANTS ann, bob, ra, rb, wa
=============================================================================
