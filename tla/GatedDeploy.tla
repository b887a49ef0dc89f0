---------------------------- MODULE GatedDeploy ----------------------------
(***************************************************************************)
(* What deploy-bot promises about one GitOps pull request, whatever the    *)
(* handlers, replicas, crashes and retries that produce it: it is opened   *)
(* once, it reaches exactly one of "merged" and "closed", it is merged     *)
(* only after somebody entitled to do so has authorised it (an approver    *)
(* who is a member of the team, or the app's auto_deploy setting), and the *)
(* history says "approved" only of a merged one.                           *)
(***************************************************************************)

CONSTANTS Deploys,      \* deploy requests, each with the PR it may open
          AutoDeploys   \* those the configuration authorises by itself

VARIABLES phase,        \* phase of each deploy's pull request
          authorised,   \* deploys somebody, or the configuration, authorised
          recorded      \* deploys the history calls "approved"

gateVars == <<phase, authorised, recorded>>

GateInit ==
  /\ phase = [d \in Deploys |-> "none"]
  /\ authorised = {}
  /\ recorded = {}

Propose(d) ==
  /\ phase[d] = "none"
  /\ phase' = [phase EXCEPT ![d] = "open"]
  /\ authorised' = authorised \cup ({d} \cap AutoDeploys)
  /\ UNCHANGED recorded

Authorise(d) ==
  /\ phase[d] # "none"
  /\ authorised' = authorised \cup {d}
  /\ UNCHANGED <<phase, recorded>>

Merge(d) ==
  /\ phase[d] = "open"
  /\ d \in authorised
  /\ phase' = [phase EXCEPT ![d] = "merged"]
  /\ UNCHANGED <<authorised, recorded>>

Withdraw(d) ==
  /\ phase[d] = "open"
  /\ phase' = [phase EXCEPT ![d] = "closed"]
  /\ UNCHANGED <<authorised, recorded>>

RecordApproval(d) ==
  /\ phase[d] = "merged"
  /\ recorded' = recorded \cup {d}
  /\ UNCHANGED <<phase, authorised>>

GateNext ==
  \E d \in Deploys :
    Propose(d) \/ Authorise(d) \/ Merge(d) \/ Withdraw(d) \/ RecordApproval(d)

GateSpec == GateInit /\ [][GateNext]_gateVars

=============================================================================
