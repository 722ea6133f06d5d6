----------------------------- MODULE MCMigrating -----------------------------
(***************************************************************************)
(* A large pod runs on the only edge node and its twin on the cloud; two   *)
(* small ones run on the cloud, and one of them fits beside the large one. *)
(* Two thirds of the node are used, one third is free: CalcMigrations      *)
(* compares the two and prefers to "migrate" the large pod.                *)
(***************************************************************************)
EXTENDS SchedulerProperties

CONSTANTS l1, l2, s1, s2, small, large, n1, c1, cpu

MCDeploymentOf == [p \in Pod |-> IF p \in {l1, l2} THEN large ELSE small]
MCResources    == [n \in EdgeNode |-> [r \in Resource |-> 3]]
MCRequired     == [d \in Deployment |-> [r \in Resource |-> IF d = large THEN 2 ELSE 1]]
MCReplicas     == [d \in Deployment |-> 2]
MCInitialPods  == [p \in Pod |-> [phase |-> "Running", node |-> IF p = l1 THEN n1 ELSE c1]]
==============================================================================
