------------------------- MODULE MCDeployLifecycle -------------------------
(* DeployLifecycle on small instances. *)
EXTENDS DeployLifecycle, TLC

CONSTANTS d1, d2, d3, app, t1, t2, t3

\* Every request is for the same app.
OneApp == [d \in Deploys |-> app]

\* Taggings: each request is for a tag of its own, or all are for one tag and
\* so for one branch.
OwnTag == {[d \in Deploys |-> CASE d = d1 -> t1 [] d = d2 -> t2 [] OTHER -> t3]}
OwnOrSharedTag == OwnTag \cup {[d \in Deploys |-> t1]}

WorkerSymmetry == Permutations(Workers)

=============================================================================
