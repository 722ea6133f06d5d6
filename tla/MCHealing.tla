------------------------------ MODULE MCHealing ------------------------------
(***************************************************************************)
(* Two pods, one edge node, crashes, API calls that fail and a health check *)
(* that resets the view, rightly or for a delay it takes for a stall.      *)
(***************************************************************************)
EXTENDS SchedulerProperties

CONSTANTS p1, p2, d1, n1, c1, cpu, Capacity

MCDeploymentOf == [p \in Pod |-> d1]
MCResources    == [n \in EdgeNode |-> [r \in Resource |-> Capacity]]
MCRequired     == [d \in Deployment |-> [r \in Resource |-> 1]]
MCReplicas     == [d \in Deployment |-> 2]
MCInitialPods  == [p \in Pod |-> [phase |-> "Absent", node |-> Nil]]
Symmetry       == Permutations(Pod)
==============================================================================
