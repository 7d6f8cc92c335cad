----------------------------- MODULE SeedRollout -----------------------------
(***************************************************************************)
(* What `clydectl daemonset` promises about seeding, with no waves, pods,  *)
(* planner or monitoring: nodes are claimed for seeding, each at most once *)
(* and never more than the goal; a claimed node may become seeded and     *)
(* stays seeded; the DaemonSet is deployed only when every claimed node is *)
(* seeded and the goal is reached; the rollout may fail at any point.      *)
(***************************************************************************)
EXTENDS Naturals, FiniteSets

CONSTANT Nodes

VARIABLES
  claimed,  \* nodes a seed pull was started on and not given up
  seeded,   \* nodes known to hold the image
  outcome,  \* "running", "deployed" or "failed"
  goal      \* how many nodes are to be seeded before the deploy

vars == <<claimed, seeded, outcome, goal>>

Init ==
  /\ claimed = {} /\ seeded = {} /\ outcome = "running"
  /\ goal \in 0..Cardinality(Nodes)

(* Pulls start and finish: the claimed nodes only grow, up to the goal,   *)
(* and only claimed nodes become seeded.                                  *)
Advance ==
  /\ outcome = "running" /\ outcome' = "running"
  /\ claimed \subseteq claimed' /\ claimed' \subseteq Nodes
  /\ Cardinality(claimed') <= goal
  /\ seeded \subseteq seeded' /\ seeded' \subseteq claimed'
  /\ UNCHANGED goal

(* The last pulls are seen finished and the DaemonSet is deployed.         *)
Deploy ==
  /\ outcome = "running" /\ outcome' = "deployed"
  /\ seeded \subseteq seeded' /\ seeded' = claimed
  /\ Cardinality(claimed) = goal
  /\ UNCHANGED <<claimed, goal>>

(* An error ends the rollout; pulls seen finished before it count.         *)
Fail ==
  /\ outcome = "running" /\ outcome' = "failed"
  /\ seeded \subseteq seeded' /\ seeded' \subseteq claimed
  /\ claimed' \subseteq Nodes
  /\ UNCHANGED goal

Next == Advance \/ Deploy \/ Fail

Spec == Init /\ [][Next]_vars
=============================================================================
