------------------------------ MODULE MCTagCache ------------------------------
(* TagCache on a small instance. *)
EXTENDS TagCache

CONSTANTS v1, v2, dev, ba, bb
=============================================================================
