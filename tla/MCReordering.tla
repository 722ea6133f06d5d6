---------------------------- MODULE MCReordering ----------------------------
(***************************************************************************)
(* Two pods run on the cloud at launch and are pulled to the edge by       *)
(* suggestions, while the deployment is scaled up.                         *)
(***************************************************************************)
EXTENDS SchedulerProperties

CONSTANTS p1, p2, p3, p4, p5, d1, n1, c1, cpu, Capacity, Scale

MCDeploymentOf == [p \in Pod |-> d1]
MCResources    == [n \in EdgeNode |-> [r \in Resource |-> Capacity]]
MCRequired     == [d \in Deployment |-> [r \in Resource |-> 1]]
MCReplicas     == [d \in Deployment |-> Scale]
MCInitialPods  == [p \in Pod |-> IF p \in {p1, p2} THEN [phase |-> "Running", node |-> c1]
                                 ELSE [phase |-> "Absent", node |-> Nil]]
Symmetry       == Permutations({p1, p2}) \cup Permutations(Pod \ {p1, p2})
==============================================================================
