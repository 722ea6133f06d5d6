---------------------------- MODULE ClusterState ----------------------------
(***************************************************************************)
(* internal/model: the scheduler's in-memory picture of the cluster.  Two  *)
(* goroutines share one ClusterState, so it is a record that the modules   *)
(* of the connector and of the scheduler keep in a variable and hand to    *)
(* the operators below, one operator per method.                           *)
(*                                                                         *)
(* The program identifies a pod by its id but keeps *pointers* to Pod      *)
(* objects, and several objects of one id can be alive at once (each API   *)
(* listing and each unknown watch event allocates one).  A PodObj is such  *)
(* a pointer: a pod and the number of the copy.                            *)
(***************************************************************************)
EXTENDS Integers, FiniteSets, FiniteSetsExt

CONSTANTS
    Pod, Deployment, EdgeNode, CloudNode, Resource,
    DeploymentOf,       \* [Pod -> Deployment], the pod's "app" label
    Resources,          \* [EdgeNode -> [Resource -> Nat]], allocatable
    ResourcesRequired,  \* [Deployment -> [Resource -> Nat]]
    MaxCopies,          \* how many Pod objects of one id may be alive at once
    MaxRunning,         \* stands for every NumberOfRunningPods from here on
    Nil

ASSUME PodsAreFinite == IsFiniteSet(Pod)
ASSUME PodsAreLabelled == DeploymentOf \in [Pod -> Deployment]
ASSUME ResourcesAreVectors ==
    /\ Resources \in [EdgeNode -> [Resource -> Nat]]
    /\ ResourcesRequired \in [Deployment -> [Resource -> Nat]]
ASSUME NodesAreDistinct ==
    /\ EdgeNode \cap CloudNode = {}
    /\ Nil \notin EdgeNode \cup CloudNode
    /\ Nil \notin Pod \X (1..MaxCopies)
ASSUME CopiesArePositive == MaxCopies \in Nat \ {0}
ASSUME OneIsCounted == MaxRunning \in Nat /\ MaxRunning >= 2

Node   == EdgeNode \cup CloudNode
PodObj == Pod \X (1..MaxCopies)
Status == {"SCHEDULED", "RUNNING", "FINISHED"}

Id(o)  == o[1]
Dep(o) == DeploymentOf[o[1]]

ObjectsOf(p) == {o \in PodObj : Id(o) = p}

-----------------------------------------------------------------------------
(* The record.  edgePods and cloudPods are the slices Edge.Pods and        *)
(* Cloud.Pods as bags, for their order only breaks ties in the placement   *)
(* algorithms; node and status are the fields of the Pod objects.          *)
(* Edge.UsedResources is the sum of nodeUsed and is not kept twice.        *)

ClusterStates ==
    [edgePods   : [PodObj -> Nat],
     cloudPods  : [PodObj -> Nat],
     nodeUsed   : [EdgeNode -> [Resource -> Int]],
     podsMap    : [Pod -> PodObj \cup {Nil}],
     numRunning : [Deployment -> Int],
     node       : [PodObj -> Node \cup {Nil}],
     status     : [PodObj -> Status]]

NewClusterState ==
    [edgePods   |-> [o \in PodObj |-> 0],
     cloudPods  |-> [o \in PodObj |-> 0],
     nodeUsed   |-> [n \in EdgeNode |-> [r \in Resource |-> 0]],
     podsMap    |-> [p \in Pod |-> Nil],
     numRunning |-> [d \in Deployment |-> 0],
     node       |-> [o \in PodObj |-> Nil],
     status     |-> [o \in PodObj |-> "SCHEDULED"]]

Remaining(c, n, r) == Resources[n][r] - c.nodeUsed[n][r]

EdgeRemaining(c, r) == MapThenSumSet(LAMBDA n : Remaining(c, n, r), EdgeNode)

OnEdge(c, p)  == \E o \in ObjectsOf(p) : c.edgePods[o] > 0
OnCloud(c, p) == \E o \in ObjectsOf(p) : c.cloudPods[o] > 0

Fits(c, p, n) ==
    \A r \in Resource :
        ResourcesRequired[DeploymentOf[p]][r] <= Remaining(c, n, r)

(* Mutant: the caller is trusted to have checked the resources.            *)
DeployEdgeUnchecked(c, o, n) ==
    [c EXCEPT !.edgePods[o]    = @ + 1,
              !.node[o]        = n,
              !.nodeUsed[n]    = [r \in Resource |-> @[r] + ResourcesRequired[Dep(o)][r]],
              !.podsMap[Id(o)] = o]

(* Mutant: the used resources are set instead of added to.                 *)
DeployEdgeSetting(c, o, n) ==
    IF ~Fits(c, Id(o), n) THEN c ELSE
    [c EXCEPT !.edgePods[o]    = @ + 1,
              !.node[o]        = n,
              !.nodeUsed[n]    = ResourcesRequired[Dep(o)],
              !.podsMap[Id(o)] = o]

(* DeployEdge returns an error, and changes nothing, unless Fits.          *)
DeployEdge(c, o, n) ==
    IF ~Fits(c, Id(o), n) THEN c ELSE
    [c EXCEPT !.edgePods[o]    = @ + 1,
              !.node[o]        = n,
              !.nodeUsed[n]    = [r \in Resource |-> @[r] + ResourcesRequired[Dep(o)][r]],
              !.podsMap[Id(o)] = o]

(* DeployCloud draws the node at random among the cloud nodes: t.          *)
DeployCloud(c, o, t) ==
    [c EXCEPT !.cloudPods[o]   = @ + 1,
              !.node[o]        = t,
              !.podsMap[Id(o)] = o]

(* The entry to remove is looked up by id, the resources are given back at *)
(* the node of the object that was passed in: with no node, or a cloud     *)
(* node, there, the subtraction dereferences nil and the process dies.     *)
RemovePodPanics(c, o) == OnEdge(c, Id(o)) /\ c.node[o] \notin EdgeNode

Forgotten(c, o) == [c EXCEPT !.node[o] = Nil, !.podsMap[Id(o)] = Nil]

RemovePodEdge(c, o, entry) ==
    [Forgotten(c, o) EXCEPT
        !.edgePods[entry]      = @ - 1,
        !.nodeUsed[c.node[o]]  = [r \in Resource |-> @[r] - ResourcesRequired[Dep(o)][r]]]

RemovePodCloud(c, o, entry) ==
    [Forgotten(c, o) EXCEPT !.cloudPods[entry] = @ - 1]

(* The states RemovePod(o) can leave: an entry of the id leaves the edge,  *)
(* or else the cloud, or else nothing was found (and false is returned).   *)
RemovePod(c, o) ==
    IF OnEdge(c, Id(o))
    THEN {RemovePodEdge(c, o, e) : e \in {x \in ObjectsOf(Id(o)) : c.edgePods[x] > 0}}
    ELSE IF OnCloud(c, Id(o))
    THEN {RemovePodCloud(c, o, e) : e \in {x \in ObjectsOf(Id(o)) : c.cloudPods[x] > 0}}
    ELSE {Forgotten(c, o)}

RemovePodFinds(c, o) == OnEdge(c, Id(o)) \/ OnCloud(c, Id(o))

(* Clone deploys every edge entry again at its own node: an entry whose    *)
(* object has lost its node makes DeployEdge dereference nil.  The clone   *)
(* counts the running pods afresh from the entries.                        *)
ClonePanics(c) == \E o \in PodObj : c.edgePods[o] > 0 /\ c.node[o] \notin EdgeNode

NumRunningInClone(c, d) ==
    MapThenSumSet(LAMBDA o : c.edgePods[o] + c.cloudPods[o],
                  {o \in PodObj : Dep(o) = d /\ c.status[o] = "RUNNING"})

(* NumberOfRunningPods drifts upwards without a bound.  The count MaxRunning *)
(* stands for itself and every greater one: one less than that is either   *)
(* below it or still not, and the code's test, for at most 1, tells such a *)
(* count from the others.                                                  *)
OneMore(count) == IF count < MaxRunning THEN count + 1 ELSE count
OneLess(count) == {count - 1} \cup IF count < MaxRunning THEN {} ELSE {count}

(* No node is charged beyond its resources.                                *)
WithinResources(c) ==
    \A n \in EdgeNode, r \in Resource : c.nodeUsed[n][r] <= Resources[n][r]

(* A Pod object fresh from an allocation.                                  *)
NewPod(c, o, s) == [c EXCEPT !.node[o] = Nil, !.status[o] = s]
=============================================================================
