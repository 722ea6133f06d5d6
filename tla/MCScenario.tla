------------------------------ MODULE MCScenario ------------------------------
(***************************************************************************)
(* alg/cluster_test.go, TestComprehensiveScenario, up to its third stage:  *)
(* A,A,B,B, then C,C,B, then a B of the edge is deleted and D is new.      *)
(* Nodes and deployments are the test's, in half cores.                    *)
(***************************************************************************)
EXTENDS SimulatorProperties

CONSTANTS a1, a2, b1, b2, b3, k1, k2, d1, A, B, C, D, n1, n2, n3, c1, cpu, mem

MCDeploymentOf == (a1 :> A) @@ (a2 :> A) @@ (b1 :> B) @@ (b2 :> B) @@ (b3 :> B)
                  @@ (k1 :> C) @@ (k2 :> C) @@ (d1 :> D)
MCNodes        == <<n1, n2, n3>>

Vector(x, y)   == (cpu :> x) @@ (mem :> y)
MCResources    == (n1 :> Vector(4, 4)) @@ (n2 :> Vector(4, 2)) @@ (n3 :> Vector(4, 3))
MCRequired     == (A :> Vector(2, 2)) @@ (B :> Vector(2, 1)) @@ (C :> Vector(1, 1)) @@ (D :> Vector(4, 4))
MCEdgeShare    == (A :> <<1, 2>>) @@ (B :> <<1, 2>>) @@ (C :> <<1, 1>>) @@ (D :> <<1, 1>>)

Many(a, b, c, d) == (A :> a) @@ (B :> b) @@ (C :> c) @@ (D :> d)
None             == Many(0, 0, 0, 0)

MCScript ==
    <<{[new |-> Many(2, 2, 0, 0), deleted |-> None]},
      {[new |-> Many(0, 1, 2, 0), deleted |-> None]},
      {[new |-> Many(0, 0, 0, 1), deleted |-> Many(0, 1, 0, 0)]}>>

Held(n) == Counts({p \in EdgePods(cluster) : NodeOf(cluster, p) = n})

(* The stages the test expects, as builder.Expect compares them: A, A and  *)
(* B, B on a node of their own, then C, C, B on the third, and last D on   *)
(* the first node, for which the A's make room.                            *)
ScenarioIsAsExpected ==
    stage = "frame" /\ algorithm = "QASRE" =>
        CASE frame = 0 -> TRUE
          [] frame = 1 -> Held(n1) = Many(2, 0, 0, 0) /\ Held(n2) = Many(0, 2, 0, 0) /\ Held(n3) = None
          [] frame = 2 -> Held(n1) = Many(2, 0, 0, 0) /\ Held(n2) = Many(0, 2, 0, 0) /\ Held(n3) = Many(0, 1, 2, 0)
          [] frame = 3 -> Held(n1) = Many(0, 0, 0, 1)
==============================================================================
