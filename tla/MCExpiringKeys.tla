---------------------------- MODULE MCExpiringKeys ----------------------------
(* ExpiringKeys on a small instance. *)
EXTENDS ExpiringKeys

CONSTANTS ha, hb, ra, rb
=============================================================================
