----------------------------- MODULE MCSimulating -----------------------------
(***************************************************************************)
(* Five pods of three deployments on two edge nodes: node n1 is twice n2 in *)
(* memory, the pod of D fills n1, and the edge never holds all of them.    *)
(***************************************************************************)
EXTENDS SimulatorProperties

CONSTANTS a1, a2, b1, b2, d1, A, B, D, n1, n2, c1, cpu, mem

MCDeploymentOf == (a1 :> A) @@ (a2 :> A) @@ (b1 :> B) @@ (b2 :> B) @@ (d1 :> D)
MCNodes        == <<n1, n2>>
MCResources    == (n1 :> (cpu :> 4 @@ mem :> 4)) @@ (n2 :> (cpu :> 4 @@ mem :> 2))
MCRequired     == (A :> (cpu :> 2 @@ mem :> 2)) @@ (B :> (cpu :> 2 @@ mem :> 1)) @@ (D :> (cpu :> 4 @@ mem :> 4))
MCEdgeShare    == (A :> <<1, 2>>) @@ (B :> <<1, 2>>) @@ (D :> <<1, 1>>)

Sum(f) == f[A] + f[B] + f[D]

Frames(new, deleted) ==
    {[new |-> x, deleted |-> y] : x \in {f \in [Deployment -> 0..2] : Sum(f) \in new},
                                  y \in {f \in [Deployment -> 0..2] : Sum(f) \in deleted}}

MCScript == <<Frames(3..4, {0}), Frames(0..2, 1..2), Frames({2}, {1})>>

Symmetry == Permutations({a1, a2}) \cup Permutations({b1, b2})
==============================================================================
