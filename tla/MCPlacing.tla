------------------------------ MODULE MCPlacing ------------------------------
(***************************************************************************)
(* An empty cluster that fills up: two pods of a small deployment and one  *)
(* of a large one compete for two edge nodes of different sizes.           *)
(***************************************************************************)
EXTENDS Filling

CONSTANTS p1, p2, p3, small, large, n1, n2, c1, cpu, mem

MCDeploymentOf == [p \in Pod |-> IF p = p3 THEN large ELSE small]
MCResources    == [n \in EdgeNode |-> IF n = n1 THEN (cpu :> 2 @@ mem :> 2) ELSE (cpu :> 1 @@ mem :> 2)]
MCRequired     == [d \in Deployment |-> IF d = large THEN (cpu :> 2 @@ mem :> 1) ELSE (cpu :> 1 @@ mem :> 1)]
MCReplicas     == [d \in Deployment |-> Cardinality({p \in Pod : DeploymentOf[p] = d})]
MCInitialPods  == [p \in Pod |-> [phase |-> "Absent", node |-> Nil]]
Symmetry       == Permutations(Pod \ {p3})

(* This is the setting of the theorems in FillingProofs.                   *)
ASSUME InTheSetting == Filling
==============================================================================
