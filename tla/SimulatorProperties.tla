-------------------------- MODULE SimulatorProperties --------------------------
(***************************************************************************)
(* What is checked of the placement algorithms, on the clusters that the   *)
(* simulator reaches, and of the simulator itself.  Placement says what    *)
(* the scheduler's model assumes of the algorithms: the Covered properties *)
(* show that EdgeAlg, which has their code, implements it.                 *)
(***************************************************************************)
EXTENDS Simulator

(* The simulator and the tests never panic: no decision removes a pod that *)
(* is not there or puts one on a node that has no room for it.             *)
NeverPanics == stage # "panic"

(* Between two frames no pod appears or disappears: what a decision leaves *)
(* out of its lists, or the mapping has no node for, is put on the cloud.  *)
NoPodIsForgotten ==
    [][stage # "frame" => Present(cluster') \cup newPods' = Present(cluster) \cup newPods]_vars

(* The swapping enumerates every order of a slice, and each only once.     *)
EveryOrderOnce ==
    LET arr == SetToSeq(Present(cluster) \cup newPods)
        few == SubSeq(arr, 1, Min({Len(arr), 4}))
        all == SetToSeqs(ToSet(few))
    IN few # <<>> => ToSet(EveryOrder(few)) = all /\ Len(EveryOrder(few)) = Cardinality(all)

-----------------------------------------------------------------------------
(* Clusters at rest, batches of pods they do not hold, assignments to nodes.*)

AtRest == stage \in {"frame", "suggest"}

Batches == {N \in SUBSET (Pod \ Present(cluster)) : Cardinality(N) \in 1..3}

Total(rem, f) ==
    MapThenSumSet(LAMBDA n : CalcDeFragmentation(Filled(rem, n, TotalSize({p \in DOMAIN f : f[p] = n})), Resources[n]),
                  EdgeNode)

HasRoom(rem, f) == \A n \in EdgeNode : LEThan(TotalSize({p \in DOMAIN f : f[p] = n}), rem[n])

(* The value of FitInEdge's table is the best total of all the ways to cut *)
(* the pods, in their order, into a part for each node, empty ones too; it *)
(* is -Inf when no cut gives every part enough room.                       *)
TheTableIsOptimal ==
    LET rem == RemainingOf(cluster)
        At(n) == CHOOSE i \in DOMAIN Nodes : Nodes[i] = n
        cuts(q) == {f \in [ToSet(q) -> EdgeNode] :
                      /\ \A i, j \in DOMAIN q : i <= j => At(f[q[i]]) <= At(f[q[j]])
                      /\ HasRoom(rem, f)}
    IN AtRest => \A N \in Batches : LET q == SetToSeq(N) IN
        FitInEdge(q, rem).value = Max({-1} \cup {Total(rem, f) : f \in cuts(q)})

(* A mapping has room for as many of the pods as any assignment to nodes   *)
(* has, each node's pods together; if for all of them, no assignment makes *)
(* better use of the nodes.                                                *)
MappingsAreCovered ==
    LET rem == RemainingOf(cluster)
    IN AtRest => \A N \in Batches : \A f \in MapPodToEdge(cluster, N, {}, <<>>) :
        LET q    == SetToSeq(N)
            objs == [i \in DOMAIN q |-> Obj(q[i])]
            taken == {i \in DOMAIN q : q[i] \in DOMAIN f}
        IN /\ [i \in taken |-> f[q[i]]] \in EdgeMappings(rem, objs, DOMAIN q)
           /\ DOMAIN f = N => \A g \in {h \in [N -> EdgeNode] : HasRoom(rem, h)} : Total(rem, g) <= Total(rem, f)

(* A decision that must not migrate, as the scheduler asks for, sends to   *)
(* the edge a subset of the new pods that fits the edge as a whole and that *)
(* no other pod fits with, the others to the cloud, and moves nothing else.*)
DecisionsAreCovered ==
    AtRest => \A N \in Batches : \A d \in MakeDecisionForNewPods(cluster, N, FALSE) :
        LET q == SetToSeq(N) IN
        /\ {i \in DOMAIN q : q[i] \in d.toEdge} \in EdgeSubsets(cluster, [i \in DOMAIN q |-> Obj(q[i])])
        /\ d.toCloud = N \ d.toEdge
        /\ d.freed = {} /\ d.migrations = <<>>

(* A suggestion for a clone of the cluster, up to two of its pods waiting  *)
(* to run, is one of Placement's: it pulls cloud pods that fit, moves pods *)
(* to nodes that have room for all that go there once the others have left,*)
(* leaves every deployment a running pod and, although the scheduler is    *)
(* ready to offload pods to the cloud, never offloads any.                 *)
SuggestionsAreCovered ==
    AtRest => \A W \in {X \in SUBSET Present(cluster) : Cardinality(X) <= 2} :
        LET c == Clone([cluster EXCEPT !.status =
                            [o \in PodObj |-> IF Id(o) \in W THEN "SCHEDULED" ELSE @[o]]])
        IN \A s \in SuggestReorder(c) :
            LET d     == s.decision
                moves == {[pod |-> p, from |-> NodeOf(c, p), to |-> d.migrations[p]] : p \in DOMAIN d.migrations}
            IN /\ d.toEdge = s.cloudToEdge /\ d.toCloud = {} /\ d.freed = {}
               /\ [toEdge |-> d.toEdge, migrations |-> moves] \in Suggestions(c)
=============================================================================
