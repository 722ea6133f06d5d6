------------------------- MODULE ClusterStateProofs -------------------------
(***************************************************************************)
(* The methods of ClusterState keep its type and never book a node beyond  *)
(* its resources.                                                          *)
(***************************************************************************)
EXTENDS ClusterState, TLAPS

USE DEF ClusterStates

(* NewClusterState is a cluster state.                                     *)
LEMMA NewClusterStateType == NewClusterState \in ClusterStates
  BY NodesAreDistinct DEF NewClusterState, Status

(* The id and the deployment of a Pod object.                              *)
LEMMA PodObjType ==
  ASSUME NEW o \in PodObj
  PROVE  Id(o) \in Pod /\ Dep(o) \in Deployment
  BY PodsAreLabelled DEF Id, Dep, PodObj

(* DeployEdge yields a cluster state.                                      *)
LEMMA DeployEdgeType ==
  ASSUME NEW c \in ClusterStates, NEW o \in PodObj, NEW n \in EdgeNode
  PROVE  DeployEdge(c, o, n) \in ClusterStates
<1>1. Id(o) \in Pod /\ Dep(o) \in Deployment
  BY PodObjType
<1>2. [c.edgePods EXCEPT ![o] = @ + 1] \in [PodObj -> Nat]
  OBVIOUS
<1>3. [c.node EXCEPT ![o] = n] \in [PodObj -> Node \cup {Nil}]
  BY DEF Node
<1>4. [c.podsMap EXCEPT ![Id(o)] = o] \in [Pod -> PodObj \cup {Nil}]
  OBVIOUS
<1>5. [c.nodeUsed EXCEPT ![n] = [r \in Resource |-> @[r] + ResourcesRequired[Dep(o)][r]]]
        \in [EdgeNode -> [Resource -> Int]]
  BY <1>1, ResourcesAreVectors
<1>6. CASE Fits(c, Id(o), n)
  <2>1. DeployEdge(c, o, n) =
          [c EXCEPT !.edgePods = [c.edgePods EXCEPT ![o] = @ + 1],
                    !.node     = [c.node EXCEPT ![o] = n],
                    !.nodeUsed = [c.nodeUsed EXCEPT
                                    ![n] = [r \in Resource |-> @[r] + ResourcesRequired[Dep(o)][r]]],
                    !.podsMap  = [c.podsMap EXCEPT ![Id(o)] = o]]
    BY <1>6 DEF DeployEdge
  <2> QED
    BY <1>2, <1>3, <1>4, <1>5, <2>1
<1>7. CASE ~Fits(c, Id(o), n)
  BY <1>7 DEF DeployEdge
<1> QED
  BY <1>6, <1>7

(* DeployCloud yields a cluster state.                                     *)
LEMMA DeployCloudType ==
  ASSUME NEW c \in ClusterStates, NEW o \in PodObj, NEW t \in CloudNode
  PROVE  DeployCloud(c, o, t) \in ClusterStates
<1>1. [c.cloudPods EXCEPT ![o] = @ + 1] \in [PodObj -> Nat]
  OBVIOUS
<1>2. [c.node EXCEPT ![o] = t] \in [PodObj -> Node \cup {Nil}]
  BY DEF Node
<1>3. [c.podsMap EXCEPT ![Id(o)] = o] \in [Pod -> PodObj \cup {Nil}]
  BY PodObjType
<1>4. DeployCloud(c, o, t) =
        [c EXCEPT !.cloudPods = [c.cloudPods EXCEPT ![o] = @ + 1],
                  !.node      = [c.node EXCEPT ![o] = t],
                  !.podsMap   = [c.podsMap EXCEPT ![Id(o)] = o]]
  BY DEF DeployCloud
<1> QED
  BY <1>1, <1>2, <1>3, <1>4

(* A fresh object leaves a cluster state.                                  *)
LEMMA NewPodType ==
  ASSUME NEW c \in ClusterStates, NEW o \in PodObj, NEW s \in Status
  PROVE  NewPod(c, o, s) \in ClusterStates
  BY DEF NewPod

(* Every outcome of RemovePod is a cluster state: an entry is taken away   *)
(* only where there is one.                                                *)
LEMMA RemovePodType ==
  ASSUME NEW c \in ClusterStates, NEW o \in PodObj, NEW d \in RemovePod(c, o)
  PROVE  d \in ClusterStates
<1>1. Id(o) \in Pod /\ Dep(o) \in Deployment
  BY PodObjType
<1>2. Forgotten(c, o) \in ClusterStates
  BY <1>1 DEF Forgotten
<1>3. ASSUME NEW e \in ObjectsOf(Id(o)), c.edgePods[e] > 0
      PROVE  RemovePodEdge(c, o, e) \in ClusterStates
  <2> DEFINE less == [c.nodeUsed EXCEPT
                        ![c.node[o]] = [r \in Resource |-> @[r] - ResourcesRequired[Dep(o)][r]]]
  <2>1. [c.edgePods EXCEPT ![e] = @ - 1] \in [PodObj -> Nat]
    BY <1>3 DEF ObjectsOf
  <2>2. less \in [EdgeNode -> [Resource -> Int]]
    <3>1. \A n \in EdgeNode :
            [r \in Resource |-> c.nodeUsed[n][r] - ResourcesRequired[Dep(o)][r]] \in [Resource -> Int]
      BY <1>1, ResourcesAreVectors
    <3> QED
      BY <3>1
  <2>3. RemovePodEdge(c, o, e) =
          [Forgotten(c, o) EXCEPT !.edgePods = [c.edgePods EXCEPT ![e] = @ - 1],
                                  !.nodeUsed = less]
    <3>1. Forgotten(c, o).edgePods = c.edgePods /\ Forgotten(c, o).nodeUsed = c.nodeUsed
      BY DEF Forgotten
    <3> QED
      BY <3>1 DEF RemovePodEdge
  <2> HIDE DEF less
  <2> QED
    BY <1>2, <2>1, <2>2, <2>3
<1>4. ASSUME NEW e \in ObjectsOf(Id(o)), c.cloudPods[e] > 0
      PROVE  RemovePodCloud(c, o, e) \in ClusterStates
  <2>1. e \in PodObj /\ c.cloudPods[e] - 1 \in Nat
    BY <1>4 DEF ObjectsOf
  <2>2. Forgotten(c, o).cloudPods = c.cloudPods
    BY DEF Forgotten
  <2> QED
    BY <1>2, <2>1, <2>2 DEF RemovePodCloud
<1> QED
  BY <1>2, <1>3, <1>4 DEF RemovePod

-----------------------------------------------------------------------------
(* No method books a node beyond its resources.                            *)

(* An empty cluster is within its resources.                               *)
LEMMA NewClusterStateWithin == WithinResources(NewClusterState)
  BY ResourcesAreVectors DEF WithinResources, NewClusterState

(* DeployEdge refuses a pod that does not fit.                             *)
LEMMA DeployEdgeWithin ==
  ASSUME NEW c \in ClusterStates, NEW o \in PodObj, NEW n \in EdgeNode, WithinResources(c)
  PROVE  WithinResources(DeployEdge(c, o, n))
<1>1. CASE Fits(c, Id(o), n)
  <2>1. Dep(o) \in Deployment /\ DeploymentOf[Id(o)] = Dep(o)
    BY PodObjType DEF Id, Dep
  <2>2. DeployEdge(c, o, n).nodeUsed =
          [c.nodeUsed EXCEPT ![n] = [r \in Resource |-> @[r] + ResourcesRequired[Dep(o)][r]]]
    BY <1>1 DEF DeployEdge
  <2>3. \A r \in Resource :
          ResourcesRequired[Dep(o)][r] <= Resources[n][r] - c.nodeUsed[n][r]
    BY <1>1, <2>1 DEF Fits, Remaining
  <2>4. \A r \in Resource : /\ c.nodeUsed[n][r] \in Int /\ Resources[n][r] \in Int
                            /\ ResourcesRequired[Dep(o)][r] \in Int
    BY <2>1, ResourcesAreVectors
  <2>5. \A r \in Resource : c.nodeUsed[n][r] + ResourcesRequired[Dep(o)][r] <= Resources[n][r]
    BY <2>3, <2>4
  <2> QED
    BY <2>2, <2>5 DEF WithinResources
<1>2. CASE ~Fits(c, Id(o), n)
  BY <1>2 DEF DeployEdge
<1> QED
  BY <1>1, <1>2

(* DeployCloud charges no node.                                            *)
LEMMA DeployCloudWithin ==
  ASSUME NEW c \in ClusterStates, NEW o \in PodObj, NEW t \in CloudNode, WithinResources(c)
  PROVE  WithinResources(DeployCloud(c, o, t))
  BY DEF DeployCloud, WithinResources

(* Neither does a fresh object.                                            *)
LEMMA NewPodWithin ==
  ASSUME NEW c \in ClusterStates, NEW o \in PodObj, NEW s \in Status, WithinResources(c)
  PROVE  WithinResources(NewPod(c, o, s))
  BY DEF NewPod, WithinResources

(* RemovePod only gives resources back.                                    *)
LEMMA RemovePodWithin ==
  ASSUME NEW c \in ClusterStates, NEW o \in PodObj, NEW d \in RemovePod(c, o), WithinResources(c)
  PROVE  WithinResources(d)
<1>1. Forgotten(c, o).nodeUsed = c.nodeUsed
  BY DEF Forgotten
<1>2. ASSUME NEW e
      PROVE  WithinResources(RemovePodEdge(c, o, e))
  <2>1. RemovePodEdge(c, o, e).nodeUsed =
          [c.nodeUsed EXCEPT ![c.node[o]] = [r \in Resource |-> @[r] - ResourcesRequired[Dep(o)][r]]]
    BY <1>1 DEF RemovePodEdge, Forgotten
  <2>2. \A n \in EdgeNode, r \in Resource :
          /\ c.nodeUsed[n][r] \in Int /\ Resources[n][r] \in Int
          /\ ResourcesRequired[Dep(o)][r] \in Nat
    BY PodObjType, ResourcesAreVectors
  <2> QED
    BY <2>1, <2>2 DEF WithinResources
<1>3. ASSUME NEW e
      PROVE  RemovePodCloud(c, o, e).nodeUsed = c.nodeUsed
  BY DEF RemovePodCloud, Forgotten
<1> QED
  BY <1>1, <1>2, <1>3 DEF RemovePod, WithinResources

HIDE DEF ClusterStates
=============================================================================
