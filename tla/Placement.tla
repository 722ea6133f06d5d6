------------------------------ MODULE Placement ------------------------------
(***************************************************************************)
(* alg, by what it promises: which choices can come out of the placement   *)
(* algorithms for a cluster state, whatever the scores, the sorting and    *)
(* the order of slices make of a tie.  The scheduler's model chooses from  *)
(* these sets; EdgeAlg has the algorithms themselves.                      *)
(***************************************************************************)
EXTENDS ClusterState, Sequences, SequencesExt

CONSTANTS
    MaximumCloudOffload,  \* config maximum_cloud_offload
    MaximumMigrations     \* config maximum_migrations

ASSUME PlacementBounds ==
    MaximumCloudOffload \in Nat /\ MaximumMigrations \in Nat

-----------------------------------------------------------------------------
(* alg.MakeDecisionForNewPods and alg.MapPodToEdge, by what they promise.  *)

Need(objs, I, r) == SumFunctionOnSet([i \in I |-> ResourcesRequired[Dep(objs[i])][r]], I)

Conflict(c) == \E p \in Pod : OnEdge(c, p) /\ OnCloud(c, p)

SameSide(objs, I) == \A i, j \in DOMAIN objs : Id(objs[i]) = Id(objs[j]) => (i \in I <=> j \in I)

FitTogether(c, objs, I) ==
    SameSide(objs, I) /\ \A r \in Resource : Need(objs, I, r) <= EdgeRemaining(c, r)

(* The quality of service grows with every pod on the edge, so the chosen  *)
(* subset is one that no larger subset fitting the edge as a whole contains.*)
EdgeSubsets(c, objs) ==
    {I \in SUBSET DOMAIN objs :
        /\ FitTogether(c, objs, I)
        /\ \A J \in SUBSET DOMAIN objs : I \subseteq J /\ I # J => ~FitTogether(c, objs, J)}

(* Mutant: each pod fits its node, whatever else is put there.             *)
RespectsSingly(rem, objs, f) ==
    \A i \in DOMAIN f, r \in Resource : ResourcesRequired[Dep(objs[i])][r] <= rem[f[i]][r]

(* Assignments of some of the pods objs[i], i in I, to nodes whose         *)
(* remaining resources rem they respect together, as many as possible.     *)
Respects(rem, objs, f) ==
    \A n \in EdgeNode, r \in Resource :
        Need(objs, {i \in DOMAIN f : f[i] = n}, r) <= rem[n][r]

Assignments(rem, objs, I) ==
    {f \in UNION {[T -> EdgeNode] : T \in SUBSET I} : Respects(rem, objs, f)}

EdgeMappings(rem, objs, I) ==
    LET fs == Assignments(rem, objs, I)
    IN IF fs = {} THEN {<<>>}
       ELSE {f \in fs : \A g \in fs : Cardinality(DOMAIN g) <= Cardinality(DOMAIN f)}

RemainingOf(c) == [n \in EdgeNode |-> [r \in Resource |-> Remaining(c, n, r)]]

-----------------------------------------------------------------------------
(* alg.SuggestReorder.                                                     *)

(* Cloud pods to pull to the edge: as many as fit, and never the only      *)
(* running pod of a deployment.                                            *)
Pullable(c) == {p \in Pod : OnCloud(c, p) /\ NumRunningInClone(c, DeploymentOf[p]) # 1}

PodsFit(c, S) ==
    \A r \in Resource :
        MapThenSumSet(LAMBDA p : ResourcesRequired[DeploymentOf[p]][r], S) <= EdgeRemaining(c, r)

CloudToEdge(c) ==
    LET fitting == {S \in SUBSET Pullable(c) : PodsFit(c, S) /\ Cardinality(S) <= MaximumCloudOffload}
    IN {S \in fitting : \A T \in fitting : S \subseteq T => S = T}

RunningIn(c, M, d) == Cardinality({o \in M : Dep(o) = d /\ c.status[o] = "RUNNING"})

(* Edge entries that may move together: each pod once, for the new nodes   *)
(* are looked up by id, and every deployment keeps a running pod.          *)
MayMigrate(c, M) ==
    /\ Cardinality(M) <= MaximumMigrations
    /\ \A o, x \in M : Id(o) = Id(x) => o = x
    /\ \A d \in Deployment : RunningIn(c, M, d) = 0 \/ RunningIn(c, M, d) < NumRunningInClone(c, d)

(* Each node has room for what it is given once all of them have left.     *)
RoomOnceLeft(c, f) ==
    LET objs == [o \in DOMAIN f |-> o]
    IN \A n \in EdgeNode, r \in Resource :
          Need(objs, {o \in DOMAIN f : f[o] = n}, r) <=
              Remaining(c, n, r) + Need(objs, {o \in DOMAIN f : c.node[o] = n}, r)

(* Migrations between edge nodes, or none.  A pod's own node counts as a   *)
(* target, for the score that the migrations are compared with is computed *)
(* from the remaining resources and their own from the used ones.          *)
MigrationsOf(c) ==
    LET choices == {M \in SUBSET {o \in PodObj : c.edgePods[o] > 0} : MayMigrate(c, M)}
        moves   == {f \in UNION {[M -> EdgeNode] : M \in choices} : RoomOnceLeft(c, f)}
    IN {{}} \cup {{[pod |-> Id(o), from |-> c.node[o], to |-> f[o]] : o \in DOMAIN f} : f \in moves}

Suggestions(c) ==
    IF Conflict(c) THEN {[toEdge |-> {}, migrations |-> {}]}
    ELSE UNION {{[toEdge |-> S, migrations |-> m] : m \in IF S = {} THEN {{}} ELSE MigrationsOf(c)}
                : S \in CloudToEdge(c)}
=============================================================================
