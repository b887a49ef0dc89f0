-------------------------- MODULE MCDeployOutcome --------------------------
(* DeployOutcome on small instances: two or three tags, up to three merges. *)
EXTENDS DeployOutcome

CONSTANTS v1, v2, v3, ra, rb, own, path
=============================================================================
