----------------------------- MODULE MCLiveness -----------------------------
(***************************************************************************)
(* One pod, one small edge node, a crash, an API call that fails, and a    *)
(* health check that never gives up: the pod is bound in the end.          *)
(***************************************************************************)
EXTENDS SchedulerProperties

CONSTANTS p1, d1, n1, c1, c2, cpu

MCDeploymentOf == [p \in Pod |-> d1]
MCResources    == [n \in EdgeNode |-> [r \in Resource |-> 1]]
MCRequired     == [d \in Deployment |-> [r \in Resource |-> 1]]
MCReplicas     == [d \in Deployment |-> Cardinality(Pod)]
MCInitialPods  == [p \in Pod |-> [phase |-> "Absent", node |-> Nil]]
==============================================================================
