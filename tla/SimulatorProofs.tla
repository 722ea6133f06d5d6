--------------------------- MODULE SimulatorProofs ---------------------------
(***************************************************************************)
(* The simulator and the testing tools never panic and forget no pod,      *)
(* whatever the nodes, the pods and the script: every decision and every   *)
(* mapping of the placement algorithms can be carried out.  In every state *)
(* at rest the table is optimal, and mappings, decisions and suggestions   *)
(* are those that Placement promises to the scheduler.                     *)
(***************************************************************************)
EXTENDS SimulatorProperties, EdgeAlgProofs

-----------------------------------------------------------------------------
(* Tidy clusters: one object and at most one entry for each pod, and books *)
(* that are right.                                                         *)

At(c, n) == {p \in Pod : c.edgePods[Obj(p)] > 0 /\ c.node[Obj(p)] = n}

OneObject(c) == \A o \in PodObj : o[2] # 1 => c.edgePods[o] = 0 /\ c.cloudPods[o] = 0

OneEntry(c) == \A p \in Pod : c.edgePods[Obj(p)] + c.cloudPods[Obj(p)] <= 1

Placed(c) == \A p \in Pod : c.edgePods[Obj(p)] > 0 => c.node[Obj(p)] \in EdgeNode

Mapped(c) ==
    \A p \in Pod : c.edgePods[Obj(p)] + c.cloudPods[Obj(p)] > 0 => c.podsMap[p] = Obj(p)

Booked(c) == \A n \in EdgeNode, r \in Resource : c.nodeUsed[n][r] = TotalSize(At(c, n))[r]

Tidy(c) ==
    /\ c \in ClusterStates
    /\ OneObject(c) /\ OneEntry(c) /\ Placed(c) /\ Mapped(c) /\ Booked(c)
    /\ WithinResources(c)

(* The object of a pod.                                                    *)
LEMMA ObjType ==
  ASSUME NEW p \in Pod
  PROVE  Obj(p) \in PodObj /\ Id(Obj(p)) = p /\ Dep(Obj(p)) = DeploymentOf[p] /\ Obj(p)[2] = 1
  BY CopiesArePositive DEF Obj, PodObj, Id, Dep

(* Objects differ if their pods do.                                        *)
LEMMA ObjDistinct ==
  ASSUME NEW p \in Pod, NEW q \in Pod
  PROVE  Obj(p) = Obj(q) <=> p = q
  BY DEF Obj

(* The other objects of a pod have no entries.                             *)
LEMMA OnlyObject ==
  ASSUME NEW c, OneObject(c), c \in ClusterStates, NEW p \in Pod, NEW o \in ObjectsOf(p)
  PROVE  o # Obj(p) => ~(c.edgePods[o] > 0) /\ ~(c.cloudPods[o] > 0)
<1>1. o \in PodObj /\ o[1] = p
  BY DEF ObjectsOf, Id
<1>2. o = <<o[1], o[2]>>
  BY <1>1 DEF PodObj
<1>3. o # Obj(p) => o[2] # 1
  BY <1>1, <1>2 DEF Obj
<1> QED
  BY <1>1, <1>3 DEF OneObject

(* The pods on either side, by the entries of their objects.               *)
LEMMA Sides ==
  ASSUME NEW c, OneObject(c), c \in ClusterStates
  PROVE  /\ \A p \in Pod : OnEdge(c, p) <=> c.edgePods[Obj(p)] > 0
         /\ \A p \in Pod : OnCloud(c, p) <=> c.cloudPods[Obj(p)] > 0
         /\ EdgePods(c) = {p \in Pod : c.edgePods[Obj(p)] > 0}
         /\ CloudPods(c) = {p \in Pod : c.cloudPods[Obj(p)] > 0}
<1>1. ASSUME NEW p \in Pod
      PROVE  /\ OnEdge(c, p) <=> c.edgePods[Obj(p)] > 0
             /\ OnCloud(c, p) <=> c.cloudPods[Obj(p)] > 0
  <2>1. Obj(p) \in ObjectsOf(p)
    BY ObjType DEF ObjectsOf
  <2>2. \A o \in ObjectsOf(p) : o # Obj(p) => ~(c.edgePods[o] > 0) /\ ~(c.cloudPods[o] > 0)
    BY OnlyObject
  <2> QED
    BY <2>1, <2>2 DEF OnEdge, OnCloud
<1> QED
  BY <1>1 DEF EdgePods, CloudPods

(* A tidy cluster with these pods on the edge, in the cloud, and at the    *)
(* nodes.                                                                  *)
Holds(d, edge, cloud, at) ==
    /\ Tidy(d)
    /\ EdgePods(d) = edge /\ CloudPods(d) = cloud
    /\ \A n \in EdgeNode : At(d, n) = at[n]

(* The types of what a cluster state has for one pod.                      *)
LEMMA EntryTypes ==
  ASSUME NEW c \in ClusterStates
  PROVE  /\ \A p \in Pod : c.edgePods[Obj(p)] \in Nat /\ c.cloudPods[Obj(p)] \in Nat
         /\ \A o \in PodObj : c.edgePods[o] \in Nat /\ c.cloudPods[o] \in Nat
         /\ \A n \in EdgeNode, r \in Resource : c.nodeUsed[n][r] \in Int /\ Resources[n][r] \in Nat
  BY ObjType, ResourcesAreVectors DEF ClusterStates

(* RemovePod takes the pod off its side and gives its resources back.      *)
LEMMA RemoveOne ==
  ASSUME NEW c, Tidy(c), NEW p \in Pod, NEW d \in RemovePod(c, Obj(p))
  PROVE  Holds(d, EdgePods(c) \ {p}, CloudPods(c) \ {p}, [n \in EdgeNode |-> At(c, n) \ {p}])
<1> DEFINE o == Obj(p)
<1>1. c \in ClusterStates /\ d \in ClusterStates
  BY ObjType, RemovePodType DEF Tidy
<1>2. o \in PodObj /\ Id(o) = p /\ Dep(o) = DeploymentOf[p] /\ o \in ObjectsOf(p) /\ p \in Pod
  BY ObjType DEF ObjectsOf
<1>3. c.edgePods[o] \in Nat /\ c.cloudPods[o] \in Nat /\ c.edgePods[o] + c.cloudPods[o] <= 1
  BY <1>1, EntryTypes DEF Tidy, OneEntry
<1>4. /\ OnEdge(c, p) <=> c.edgePods[o] > 0
      /\ OnCloud(c, p) <=> c.cloudPods[o] > 0
  BY <1>1, Sides DEF Tidy
<1>5. /\ Forgotten(c, o).node = [c.node EXCEPT ![o] = Nil]
      /\ Forgotten(c, o).podsMap = [c.podsMap EXCEPT ![p] = Nil]
      /\ Forgotten(c, o).edgePods = c.edgePods /\ Forgotten(c, o).cloudPods = c.cloudPods
      /\ Forgotten(c, o).nodeUsed = c.nodeUsed
  BY <1>2 DEF Forgotten
<1>6. /\ d.node = [c.node EXCEPT ![o] = Nil]
      /\ d.podsMap = [c.podsMap EXCEPT ![p] = Nil]
      /\ d.edgePods = [c.edgePods EXCEPT ![o] = 0]
      /\ d.cloudPods = [c.cloudPods EXCEPT ![o] = 0]
      /\ d.nodeUsed = IF OnEdge(c, p)
                      THEN [c.nodeUsed EXCEPT ![c.node[o]] = [r \in Resource |-> @[r] - ResourcesRequired[Dep(o)][r]]]
                      ELSE c.nodeUsed
  <2>1. CASE OnEdge(c, p)
    <3>1. \A e \in ObjectsOf(p) : c.edgePods[e] > 0 => e = o
      BY <1>1, OnlyObject DEF Tidy
    <3>2. d = RemovePodEdge(c, o, o)
      BY <2>1, <3>1, <1>2 DEF RemovePod
    <3>3. c.edgePods[o] = 1 /\ c.cloudPods[o] = 0
      BY <2>1, <1>3, <1>4
    <3>4. c.cloudPods = [c.cloudPods EXCEPT ![o] = 0]
      BY <3>3, <1>1, <1>2 DEF ClusterStates
    <3>5. /\ d.node = [c.node EXCEPT ![o] = Nil]
          /\ d.podsMap = [c.podsMap EXCEPT ![p] = Nil]
          /\ d.cloudPods = c.cloudPods
      BY <3>2, <1>2, <1>5 DEF RemovePodEdge, Forgotten
    <3>6. d.edgePods = [c.edgePods EXCEPT ![o] = c.edgePods[o] - 1]
      BY <3>2, <1>2, <1>5 DEF RemovePodEdge, Forgotten
    <3>7. d.nodeUsed = [c.nodeUsed EXCEPT ![c.node[o]] = [r \in Resource |-> @[r] - ResourcesRequired[Dep(o)][r]]]
      BY <3>2, <1>2, <1>5 DEF RemovePodEdge, Forgotten
    <3>8. c.edgePods[o] - 1 = 0
      BY <3>3
    <3> HIDE DEF o
    <3> QED
      BY <2>1, <3>4, <3>5, <3>6, <3>7, <3>8
  <2>2. CASE ~OnEdge(c, p) /\ OnCloud(c, p)
    <3>1. \A e \in ObjectsOf(p) : c.cloudPods[e] > 0 => e = o
      BY <1>1, OnlyObject DEF Tidy
    <3>2. d = RemovePodCloud(c, o, o)
      BY <2>2, <3>1, <1>2 DEF RemovePod
    <3>3. c.edgePods[o] = 0 /\ c.cloudPods[o] = 1
      BY <2>2, <1>3, <1>4
    <3>4. c.edgePods = [c.edgePods EXCEPT ![o] = 0]
      BY <3>3, <1>1, <1>2 DEF ClusterStates
    <3>5. /\ d.node = [c.node EXCEPT ![o] = Nil]
          /\ d.podsMap = [c.podsMap EXCEPT ![p] = Nil]
          /\ d.edgePods = c.edgePods /\ d.nodeUsed = c.nodeUsed
      BY <3>2, <1>2, <1>5 DEF RemovePodCloud, Forgotten
    <3>6. d.cloudPods = [c.cloudPods EXCEPT ![o] = c.cloudPods[o] - 1]
      BY <3>2, <1>2, <1>5 DEF RemovePodCloud, Forgotten
    <3>7. c.cloudPods[o] - 1 = 0
      BY <3>3
    <3> HIDE DEF o
    <3> QED
      BY <2>2, <3>4, <3>5, <3>6, <3>7
  <2>3. CASE ~OnEdge(c, p) /\ ~OnCloud(c, p)
    <3>1. d = Forgotten(c, o)
      BY <2>3, <1>2 DEF RemovePod
    <3>2. c.edgePods[o] = 0 /\ c.cloudPods[o] = 0
      BY <2>3, <1>3, <1>4
    <3>3. c.edgePods = [c.edgePods EXCEPT ![o] = 0] /\ c.cloudPods = [c.cloudPods EXCEPT ![o] = 0]
      BY <3>2, <1>1, <1>2 DEF ClusterStates
    <3> HIDE DEF o
    <3> QED
      BY <2>3, <3>1, <3>3, <1>5
  <2> QED
    BY <2>1, <2>2, <2>3
<1>7. /\ \A q \in Pod \ {p} : /\ d.edgePods[Obj(q)] = c.edgePods[Obj(q)]
                              /\ d.cloudPods[Obj(q)] = c.cloudPods[Obj(q)]
                              /\ d.node[Obj(q)] = c.node[Obj(q)]
                              /\ d.podsMap[q] = c.podsMap[q]
      /\ d.edgePods[o] = 0 /\ d.cloudPods[o] = 0
  <2>1. /\ c.edgePods \in [PodObj -> Nat] /\ c.cloudPods \in [PodObj -> Nat]
        /\ DOMAIN c.node = PodObj /\ DOMAIN c.podsMap = Pod
    BY <1>1 DEF ClusterStates
  <2>2. \A q \in Pod \ {p} : Obj(q) # o /\ Obj(q) \in PodObj
    BY ObjType, ObjDistinct
  <2> HIDE DEF o
  <2> QED
    BY <1>2, <1>6, <2>1, <2>2
<1>8. OneObject(d)
  <2>1. \A x \in PodObj : x[2] # 1 => d.edgePods[x] = c.edgePods[x] /\ d.cloudPods[x] = c.cloudPods[x]
    <3>1. c.edgePods \in [PodObj -> Nat] /\ c.cloudPods \in [PodObj -> Nat] /\ o[2] = 1
      BY <1>1, ObjType DEF ClusterStates
    <3> HIDE DEF o
    <3> QED
      BY <1>6, <3>1
  <2> QED
    BY <2>1 DEF Tidy, OneObject
<1>9. OneEntry(d) /\ Placed(d) /\ Mapped(d)
  <2>1. OneEntry(c) /\ Placed(c) /\ Mapped(c)
    BY DEF Tidy
  <2> HIDE DEF o
  <2> QED
    BY <1>7, <2>1 DEF OneEntry, Placed, Mapped, o
<1>10. /\ EdgePods(d) = EdgePods(c) \ {p} /\ CloudPods(d) = CloudPods(c) \ {p}
       /\ \A n \in EdgeNode : At(d, n) = At(c, n) \ {p}
  <2>1. /\ EdgePods(c) = {q \in Pod : c.edgePods[Obj(q)] > 0}
        /\ CloudPods(c) = {q \in Pod : c.cloudPods[Obj(q)] > 0}
        /\ EdgePods(d) = {q \in Pod : d.edgePods[Obj(q)] > 0}
        /\ CloudPods(d) = {q \in Pod : d.cloudPods[Obj(q)] > 0}
    BY <1>1, <1>8, Sides DEF Tidy
  <2> QED
    BY <1>7, <2>1 DEF At
<1>11. Booked(d)
  <2>1. SUFFICES ASSUME NEW n \in EdgeNode, NEW r \in Resource
                 PROVE  d.nodeUsed[n][r] = TotalSize(At(d, n))[r]
    BY DEF Booked
  <2>2. c.nodeUsed[n][r] = TotalSize(At(c, n))[r]
    BY DEF Tidy, Booked
  <2>3. CASE OnEdge(c, p) /\ n = c.node[o]
    <3>1. p \in At(c, n)
      BY <2>3, <1>4 DEF At
    <3>2. (At(c, n) \ {p}) \cup {p} = At(c, n) /\ At(c, n) \ {p} \in SUBSET Pod /\ p \in Pod \ (At(c, n) \ {p})
      BY <3>1 DEF At
    <3>3. TotalSize(At(c, n))[r] = TotalSize(At(c, n) \ {p})[r] + Size(p)[r]
      BY <3>2, TotalAdd
    <3>4. d.nodeUsed[n][r] = c.nodeUsed[n][r] - Size(p)[r]
      BY <2>3, <1>1, <1>2, <1>6 DEF ClusterStates, Size
    <3>5. TotalSize(At(c, n) \ {p})[r] \in Nat /\ Size(p)[r] \in Nat
      BY <3>2, TotalType, SizeType
    <3>6. TotalSize(At(d, n)) = TotalSize(At(c, n) \ {p})
      BY <1>10
    <3>7. PICK x, y : x = TotalSize(At(c, n) \ {p})[r] /\ y = Size(p)[r]
      OBVIOUS
    <3> QED
      BY ONLY <2>2, <3>3, <3>4, <3>5, <3>6, <3>7
  <2>4. CASE ~(OnEdge(c, p) /\ n = c.node[o])
    <3>1. p \notin At(c, n)
      BY <2>4, <1>4 DEF At
    <3>2. d.nodeUsed[n] = c.nodeUsed[n]
      BY <2>4, <1>1, <1>6 DEF ClusterStates
    <3>3. At(d, n) = At(c, n)
      BY <3>1, <1>10
    <3> QED
      BY <3>2, <3>3, <2>2
  <2> QED
    BY <2>3, <2>4
<1>12. WithinResources(d)
  BY <1>1, ObjType, RemovePodWithin DEF Tidy
<1> QED
  BY <1>1, <1>8, <1>9, <1>10, <1>11, <1>12 DEF Holds, Tidy

(* The cloud node is one.                                                  *)
LEMMA TheCloudType == TheCloud \in CloudNode
  BY CloudIsThere DEF TheCloud

(* A pod that is not there has no entries.                                 *)
LEMMA AbsentEntries ==
  ASSUME NEW c, Tidy(c), NEW p \in Pod \ Present(c)
  PROVE  c.edgePods[Obj(p)] = 0 /\ c.cloudPods[Obj(p)] = 0
<1>1. c \in ClusterStates
  BY DEF Tidy
<1>2. ~(c.edgePods[Obj(p)] > 0) /\ ~(c.cloudPods[Obj(p)] > 0)
  BY <1>1, Sides DEF Tidy, Present
<1> QED
  BY <1>1, <1>2, EntryTypes

(* DeployCloud puts a pod on the cloud.                                    *)
LEMMA CloudOne ==
  ASSUME NEW c, Tidy(c), NEW p \in Pod \ Present(c)
  PROVE  Holds(DeployCloud(c, Obj(p), TheCloud), EdgePods(c), CloudPods(c) \cup {p}, [n \in EdgeNode |-> At(c, n)])
<1> DEFINE o == Obj(p)
           d == DeployCloud(c, o, TheCloud)
<1>1. c \in ClusterStates /\ d \in ClusterStates /\ TheCloud \in Node
  BY TheCloudType, ObjType, DeployCloudType DEF Tidy, Node
<1>2. o \in PodObj /\ Id(o) = p /\ p \in Pod
  BY ObjType
<1>3. c.edgePods[o] = 0 /\ c.cloudPods[o] = 0
  BY AbsentEntries
<1>4. /\ d.node = [c.node EXCEPT ![o] = TheCloud]
      /\ d.podsMap = [c.podsMap EXCEPT ![p] = o]
      /\ d.edgePods = c.edgePods
      /\ d.cloudPods = [c.cloudPods EXCEPT ![o] = c.cloudPods[o] + 1]
      /\ d.nodeUsed = c.nodeUsed
  BY <1>1, <1>2 DEF DeployCloud, ClusterStates
<1>5. /\ \A q \in Pod \ {p} : /\ d.edgePods[Obj(q)] = c.edgePods[Obj(q)]
                              /\ d.cloudPods[Obj(q)] = c.cloudPods[Obj(q)]
                              /\ d.node[Obj(q)] = c.node[Obj(q)]
                              /\ d.podsMap[q] = c.podsMap[q]
      /\ d.edgePods[o] = 0 /\ d.cloudPods[o] = 1 /\ d.podsMap[p] = o
  <2>1. /\ c.edgePods \in [PodObj -> Nat] /\ c.cloudPods \in [PodObj -> Nat]
        /\ DOMAIN c.node = PodObj /\ DOMAIN c.podsMap = Pod
    BY <1>1 DEF ClusterStates
  <2>2. \A q \in Pod \ {p} : Obj(q) # o /\ Obj(q) \in PodObj
    BY ObjType, ObjDistinct
  <2> HIDE DEF o, d
  <2> QED
    BY <1>2, <1>3, <1>4, <2>1, <2>2
<1>6. OneObject(d)
  <2>1. \A x \in PodObj : x[2] # 1 => d.edgePods[x] = c.edgePods[x] /\ d.cloudPods[x] = c.cloudPods[x]
    <3>1. c.edgePods \in [PodObj -> Nat] /\ c.cloudPods \in [PodObj -> Nat] /\ o[2] = 1
      BY <1>1, ObjType DEF ClusterStates
    <3> HIDE DEF o, d
    <3> QED
      BY <1>4, <3>1
  <2> QED
    BY <2>1 DEF Tidy, OneObject
<1>7. OneEntry(d) /\ Placed(d) /\ Mapped(d)
  <2>1. OneEntry(c) /\ Placed(c) /\ Mapped(c)
    BY DEF Tidy
  <2> HIDE DEF o, d
  <2> QED
    BY <1>5, <2>1 DEF OneEntry, Placed, Mapped, o
<1>8. /\ EdgePods(d) = EdgePods(c) /\ CloudPods(d) = CloudPods(c) \cup {p}
      /\ \A n \in EdgeNode : At(d, n) = At(c, n)
  <2>1. /\ EdgePods(c) = {q \in Pod : c.edgePods[Obj(q)] > 0}
        /\ CloudPods(c) = {q \in Pod : c.cloudPods[Obj(q)] > 0}
        /\ EdgePods(d) = {q \in Pod : d.edgePods[Obj(q)] > 0}
        /\ CloudPods(d) = {q \in Pod : d.cloudPods[Obj(q)] > 0}
    BY <1>1, <1>6, Sides DEF Tidy
  <2>2. EdgePods(d) = EdgePods(c)
    BY <1>4, <2>1
  <2>3. CloudPods(d) = CloudPods(c) \cup {p}
    BY <1>5, <2>1
  <2>4. \A n \in EdgeNode : At(d, n) = At(c, n)
    BY <1>3, <1>5 DEF At
  <2> QED
    BY <2>2, <2>3, <2>4
<1>9. Booked(d)
  BY <1>4, <1>8 DEF Tidy, Booked
<1>10. WithinResources(d)
  BY <1>1, ObjType, TheCloudType, DeployCloudWithin DEF Tidy
<1> QED
  BY <1>1, <1>6, <1>7, <1>8, <1>9, <1>10 DEF Holds, Tidy

(* DeployEdge puts a pod that fits on its node.                            *)
LEMMA EdgeOne ==
  ASSUME NEW c, Tidy(c), NEW p \in Pod \ Present(c), NEW m \in EdgeNode, Fits(c, p, m)
  PROVE  Holds(DeployEdge(c, Obj(p), m), EdgePods(c) \cup {p}, CloudPods(c),
               [n \in EdgeNode |-> IF n = m THEN At(c, n) \cup {p} ELSE At(c, n)])
<1> DEFINE o == Obj(p)
           d == DeployEdge(c, o, m)
<1>1. c \in ClusterStates /\ d \in ClusterStates
  BY ObjType, DeployEdgeType DEF Tidy
<1>2. o \in PodObj /\ Id(o) = p /\ p \in Pod /\ Dep(o) = DeploymentOf[p]
  BY ObjType
<1>3. c.edgePods[o] = 0 /\ c.cloudPods[o] = 0
  BY AbsentEntries
<1>4. /\ d.node = [c.node EXCEPT ![o] = m]
      /\ d.podsMap = [c.podsMap EXCEPT ![p] = o]
      /\ d.edgePods = [c.edgePods EXCEPT ![o] = c.edgePods[o] + 1]
      /\ d.cloudPods = c.cloudPods
      /\ d.nodeUsed = [c.nodeUsed EXCEPT ![m] = [r \in Resource |-> @[r] + ResourcesRequired[Dep(o)][r]]]
  BY <1>1, <1>2 DEF DeployEdge, ClusterStates
<1>5. /\ \A q \in Pod \ {p} : /\ d.edgePods[Obj(q)] = c.edgePods[Obj(q)]
                              /\ d.cloudPods[Obj(q)] = c.cloudPods[Obj(q)]
                              /\ d.node[Obj(q)] = c.node[Obj(q)]
                              /\ d.podsMap[q] = c.podsMap[q]
      /\ d.edgePods[o] = 1 /\ d.cloudPods[o] = 0 /\ d.podsMap[p] = o /\ d.node[o] = m
  <2>1. /\ c.edgePods \in [PodObj -> Nat] /\ c.cloudPods \in [PodObj -> Nat]
        /\ DOMAIN c.node = PodObj /\ DOMAIN c.podsMap = Pod
    BY <1>1 DEF ClusterStates
  <2>2. \A q \in Pod \ {p} : Obj(q) # o /\ Obj(q) \in PodObj
    BY ObjType, ObjDistinct
  <2> HIDE DEF o, d
  <2> QED
    BY <1>2, <1>3, <1>4, <2>1, <2>2
<1>6. OneObject(d)
  <2>1. \A x \in PodObj : x[2] # 1 => d.edgePods[x] = c.edgePods[x] /\ d.cloudPods[x] = c.cloudPods[x]
    <3>1. c.edgePods \in [PodObj -> Nat] /\ c.cloudPods \in [PodObj -> Nat] /\ o[2] = 1
      BY <1>1, ObjType DEF ClusterStates
    <3> HIDE DEF o, d
    <3> QED
      BY <1>4, <3>1
  <2> QED
    BY <2>1 DEF Tidy, OneObject
<1>7. OneEntry(d) /\ Placed(d) /\ Mapped(d)
  <2>1. OneEntry(c) /\ Placed(c) /\ Mapped(c)
    BY DEF Tidy
  <2> HIDE DEF o, d
  <2> QED
    BY <1>5, <2>1 DEF OneEntry, Placed, Mapped, o
<1>8. /\ EdgePods(d) = EdgePods(c) \cup {p} /\ CloudPods(d) = CloudPods(c)
      /\ \A n \in EdgeNode : At(d, n) = IF n = m THEN At(c, n) \cup {p} ELSE At(c, n)
  <2>1. /\ EdgePods(c) = {q \in Pod : c.edgePods[Obj(q)] > 0}
        /\ CloudPods(c) = {q \in Pod : c.cloudPods[Obj(q)] > 0}
        /\ EdgePods(d) = {q \in Pod : d.edgePods[Obj(q)] > 0}
        /\ CloudPods(d) = {q \in Pod : d.cloudPods[Obj(q)] > 0}
    BY <1>1, <1>6, Sides DEF Tidy
  <2>2. EdgePods(d) = EdgePods(c) \cup {p}
    BY <1>5, <2>1
  <2>3. CloudPods(d) = CloudPods(c)
    BY <1>4, <2>1
  <2>4. \A n \in EdgeNode : At(d, n) = IF n = m THEN At(c, n) \cup {p} ELSE At(c, n)
    <3> HIDE DEF d
    <3> QED
      BY <1>3, <1>5 DEF At
  <2> QED
    BY <2>2, <2>3, <2>4
<1>9. Booked(d)
  <2>1. SUFFICES ASSUME NEW n \in EdgeNode, NEW r \in Resource
                 PROVE  d.nodeUsed[n][r] = TotalSize(At(d, n))[r]
    BY DEF Booked
  <2>2. c.nodeUsed[n][r] = TotalSize(At(c, n))[r]
    BY DEF Tidy, Booked
  <2>3. CASE n = m
    <3>1. At(c, n) \in SUBSET Pod /\ p \in Pod \ At(c, n)
      BY <1>3 DEF At
    <3>2. TotalSize(At(c, n) \cup {p})[r] = TotalSize(At(c, n))[r] + Size(p)[r]
      BY <3>1, TotalAdd
    <3>3. d.nodeUsed[n][r] = c.nodeUsed[n][r] + Size(p)[r]
      BY <2>3, <1>1, <1>2, <1>4 DEF ClusterStates, Size
    <3>4. TotalSize(At(d, n)) = TotalSize(At(c, n) \cup {p})
      BY <2>3, <1>8
    <3> QED
      BY ONLY <2>2, <3>2, <3>3, <3>4
  <2>4. CASE n # m
    <3>1. d.nodeUsed[n] = c.nodeUsed[n]
      BY <2>4, <1>1, <1>4 DEF ClusterStates
    <3>2. At(d, n) = At(c, n)
      BY <2>4, <1>8
    <3> QED
      BY <3>1, <3>2, <2>2
  <2> QED
    BY <2>3, <2>4
<1>10. WithinResources(d)
  BY <1>1, ObjType, DeployEdgeWithin DEF Tidy
<1> QED
  BY <1>1, <1>6, <1>7, <1>8, <1>9, <1>10 DEF Holds, Tidy

(* A new object of a pod that is not there changes nothing that counts.    *)
LEMMA NewOne ==
  ASSUME NEW c, Tidy(c), NEW p \in Pod \ Present(c)
  PROVE  Holds(NewPod(c, Obj(p), "RUNNING"), EdgePods(c), CloudPods(c), [n \in EdgeNode |-> At(c, n)])
<1> DEFINE o == Obj(p)
           d == NewPod(c, o, "RUNNING")
<1>1. c \in ClusterStates /\ d \in ClusterStates
  BY ObjType, NewPodType DEF Tidy, Status
<1>2. c.edgePods[o] = 0
  BY AbsentEntries
<1>3. /\ d.node = [c.node EXCEPT ![o] = Nil]
      /\ d.podsMap = c.podsMap /\ d.edgePods = c.edgePods /\ d.cloudPods = c.cloudPods
      /\ d.nodeUsed = c.nodeUsed
  BY <1>1 DEF NewPod, ClusterStates
<1>4. \A q \in Pod \ {p} : d.node[Obj(q)] = c.node[Obj(q)]
  <2>1. DOMAIN c.node = PodObj
    BY <1>1 DEF ClusterStates
  <2>2. \A q \in Pod \ {p} : Obj(q) # o /\ Obj(q) \in PodObj
    BY ObjType, ObjDistinct
  <2> HIDE DEF o, d
  <2> QED
    BY <1>3, <2>1, <2>2
<1>5. OneObject(d) /\ OneEntry(d) /\ Mapped(d) /\ Placed(d)
  <2>1. OneObject(c) /\ OneEntry(c) /\ Placed(c) /\ Mapped(c)
    BY DEF Tidy
  <2>2. OneObject(d) /\ OneEntry(d) /\ Mapped(d)
    BY <1>3, <2>1 DEF OneObject, OneEntry, Mapped
  <2>3. Placed(d)
    <3> HIDE DEF d
    <3> QED
      BY <1>2, <1>3, <1>4, <2>1 DEF Placed
  <2> QED
    BY <2>2, <2>3
<1>6. /\ EdgePods(d) = EdgePods(c) /\ CloudPods(d) = CloudPods(c)
      /\ \A n \in EdgeNode : At(d, n) = At(c, n)
  <2>1. EdgePods(d) = EdgePods(c) /\ CloudPods(d) = CloudPods(c)
    BY <1>3 DEF EdgePods, CloudPods, OnEdge, OnCloud
  <2>2. \A n \in EdgeNode : At(d, n) = At(c, n)
    <3> HIDE DEF d
    <3> QED
      BY <1>2, <1>3, <1>4 DEF At
  <2> QED
    BY <2>1, <2>2
<1>7. Booked(d) /\ WithinResources(d)
  BY <1>3, <1>6 DEF Tidy, Booked, WithinResources
<1> QED
  BY <1>1, <1>5, <1>6, <1>7 DEF Holds, Tidy

-----------------------------------------------------------------------------
(* The calls for a set of pods, one after another.                         *)

Picks(S) == [s \in SUBSET S |-> Pick(s)]

(* Picking chooses.                                                        *)
LEMMA PicksChoose == ASSUME NEW S PROVE Chooses(Picks(S), S)
  BY PickIsElement DEF Chooses, Picks

StateStep(F, c, S, g) == [s \in SUBSET S |-> IF s = {} THEN c ELSE F[<<Pick(s), g[s \ {Pick(s)}]>>]]

(* A fold over pods that keeps to cluster states has a solution.           *)
LEMMA StateFold ==
  ASSUME NEW S \in SUBSET Pod, NEW c \in ClusterStates,
         NEW F, \A p \in S, v \in ClusterStates : F[<<p, v>>] \in ClusterStates
  PROVE  \E g : g = StateStep(F, c, S, g) /\ \A s \in SUBSET S : g[s] \in ClusterStates
<1> DEFINE ch == Picks(S)
           W  == [s \in SUBSET S |-> ClusterStates]
<1>1. IsFiniteSet(S) /\ Chooses(ch, S)
  BY PodsFinite, PicksChoose
<1>2. PICK g : FoldSolves(F, c, ch, S, g)
  <2> HIDE DEF ch
  <2> QED
    BY <1>1, FoldSolvable
<1>3. \A s \in SUBSET S : g[s] = IF s = {} THEN c ELSE F[<<ch[s], g[s \ {ch[s]}]>>]
  BY <1>2 DEF FoldSolves, FoldStep
<1>4. \A s \in SUBSET S : g[s] \in W[s]
  <2>1. g[{}] \in W[{}]
    <3>1. {} \in SUBSET S
      OBVIOUS
    <3> QED
      BY <1>3, <3>1
  <2>2. ASSUME NEW s \in SUBSET S, s # {}, g[s \ {ch[s]}] \in W[s \ {ch[s]}]
        PROVE  g[s] \in W[s]
    <3>1. ch[s] \in S
      BY <1>1, <2>2 DEF Chooses
    <3>2. g[s \ {ch[s]}] \in ClusterStates
      BY <2>2
    <3>3. g[s] = F[<<ch[s], g[s \ {ch[s]}]>>]
      BY <1>3, <2>2
    <3> HIDE DEF ch
    <3> QED
      BY <3>1, <3>2, <3>3
  <2> HIDE DEF ch, W
  <2> QED
    BY <1>1, <2>1, <2>2, FoldInduction
<1>5. \A s \in SUBSET S : ch[s] = Pick(s)
  BY DEF Picks
<1>6. g = StateStep(F, c, S, g)
  <2> HIDE DEF ch
  <2> QED
    BY <1>2, <1>5 DEF FoldSolves, FoldStep, StateStep
<1> QED
  BY <1>4, <1>6

(* What holds for c, and after a pod for the set with it if before for the *)
(* set without it, holds in the end.                                       *)
LEMMA StateInduction ==
  ASSUME NEW S \in SUBSET Pod, NEW g, NEW W, g[{}] \in W[{}],
         \A s \in SUBSET S : s # {} /\ g[s \ {Pick(s)}] \in W[s \ {Pick(s)}] => g[s] \in W[s]
  PROVE  g[S] \in W[S]
<1>1. IsFiniteSet(S) /\ Chooses(Picks(S), S)
  BY PodsFinite, PicksChoose
<1>2. \A s \in SUBSET S : Picks(S)[s] = Pick(s)
  BY DEF Picks
<1>3. \A s \in SUBSET S : s # {} /\ g[s \ {Picks(S)[s]}] \in W[s \ {Picks(S)[s]}] => g[s] \in W[s]
  BY <1>2
<1>4. \A s \in SUBSET S : g[s] \in W[s]
  BY <1>1, <1>3, FoldInduction
<1> QED
  BY <1>4

RemovedStep(c, S, g) ==
    [s \in SUBSET S |->
        IF s = {} THEN c ELSE CHOOSE d \in RemovePod(g[s \ {Pick(s)}], Obj(Pick(s))) : TRUE]

RemovedBy(c, S) == CHOOSE g : g = RemovedStep(c, S, g)

(* RemovePod always returns.                                               *)
LEMMA RemovePodReturns ==
  ASSUME NEW c, NEW p
  PROVE  (CHOOSE d \in RemovePod(c, Obj(p)) : TRUE) \in RemovePod(c, Obj(p))
<1>1. RemovePod(c, Obj(p)) # {}
  BY DEF RemovePod, OnEdge, OnCloud
<1> QED
  BY <1>1

(* Removed, one pod after another.                                         *)
LEMMA RemovedSolves ==
  ASSUME NEW c \in ClusterStates, NEW S \in SUBSET Pod
  PROVE  /\ Removed(c, S) = RemovedBy(c, S)[S]
         /\ RemovedBy(c, S) = RemovedStep(c, S, RemovedBy(c, S))
<1>1. Removed(c, S) = RemovedBy(c, S)[S]
  BY DEF Removed, FoldSet, MapThenFoldSet, RemovedBy, RemovedStep, Pick
<1> DEFINE F == [y \in S \X ClusterStates |-> CHOOSE d \in RemovePod(y[2], Obj(y[1])) : TRUE]
<1>2. ASSUME NEW p \in S, NEW v \in ClusterStates
      PROVE  /\ F[<<p, v>>] = CHOOSE d \in RemovePod(v, Obj(p)) : TRUE
             /\ F[<<p, v>>] \in ClusterStates
  <2>1. F[<<p, v>>] = CHOOSE d \in RemovePod(v, Obj(p)) : TRUE
    OBVIOUS
  <2>2. Obj(p) \in PodObj
    BY ObjType
  <2> HIDE DEF F
  <2> QED
    BY <2>1, <2>2, RemovePodReturns, RemovePodType
<1>3. PICK g : g = StateStep(F, c, S, g) /\ \A s \in SUBSET S : g[s] \in ClusterStates
  <2> HIDE DEF F
  <2> QED
    BY <1>2, StateFold
<1>4. ASSUME NEW s \in SUBSET S, s # {}
      PROVE  F[<<Pick(s), g[s \ {Pick(s)}]>>] = CHOOSE d \in RemovePod(g[s \ {Pick(s)}], Obj(Pick(s))) : TRUE
  <2>1. Pick(s) \in S /\ g[s \ {Pick(s)}] \in ClusterStates
    BY <1>3, <1>4, PickIsElement
  <2> HIDE DEF F
  <2> QED
    BY <1>2, <2>1
<1>5. g = RemovedStep(c, S, g)
  <2> HIDE DEF F
  <2> QED
    BY <1>3, <1>4 DEF RemovedStep, StateStep
<1> QED
  BY <1>1, <1>5 DEF RemovedBy

(* Removed takes the pods off their sides.                                 *)
LEMMA RemovedHolds ==
  ASSUME NEW c, Tidy(c), NEW S \in SUBSET Pod
  PROVE  Holds(Removed(c, S), EdgePods(c) \ S, CloudPods(c) \ S, [n \in EdgeNode |-> At(c, n) \ S])
<1> DEFINE g == RemovedBy(c, S)
           Is(d, s) == Holds(d, EdgePods(c) \ s, CloudPods(c) \ s, [n \in EdgeNode |-> At(c, n) \ s])
           W == [s \in SUBSET S |-> {d \in ClusterStates : Is(d, s)}]
<1>1. c \in ClusterStates
  BY DEF Tidy
<1>2. \A s \in SUBSET S :
        g[s] = IF s = {} THEN c ELSE CHOOSE d \in RemovePod(g[s \ {Pick(s)}], Obj(Pick(s))) : TRUE
  <2>1. g = RemovedStep(c, S, g)
    BY <1>1, RemovedSolves
  <2> HIDE DEF g
  <2> QED
    BY <2>1 DEF RemovedStep
<1>3. g[{}] \in W[{}]
  <2>1. g[{}] = c
    BY <1>2
  <2>2. Is(c, {})
    BY DEF Holds
  <2> QED
    BY <1>1, <2>1, <2>2
<1>4. ASSUME NEW s \in SUBSET S, s # {}, g[s \ {Pick(s)}] \in W[s \ {Pick(s)}]
      PROVE  g[s] \in W[s]
  <2>1. PICK p, t, v : p = Pick(s) /\ t = s \ {p} /\ v = g[t]
    OBVIOUS
  <2>2. p \in s /\ p \in Pod /\ t \in SUBSET S
    BY <1>4, <2>1, PickIsElement
  <2>3. v \in ClusterStates /\ Is(v, t)
    BY <1>4, <2>1, <2>2
  <2>4. g[s] \in RemovePod(v, Obj(p))
    <3> HIDE DEF g
    <3> QED
      BY <1>2, <1>4, <2>1, RemovePodReturns
  <2>5. Holds(g[s], EdgePods(v) \ {p}, CloudPods(v) \ {p}, [n \in EdgeNode |-> At(v, n) \ {p}])
    <3>1. Tidy(v)
      BY <2>3 DEF Holds
    <3> HIDE DEF g
    <3> QED
      BY <2>2, <2>4, <3>1, RemoveOne
  <2>6. Is(g[s], s)
    <3>1. s = t \cup {p}
      BY <2>1, <2>2
    <3> HIDE DEF g
    <3> QED
      BY <2>3, <2>5, <3>1 DEF Holds
  <2>7. g[s] \in ClusterStates
    BY <2>6 DEF Holds, Tidy
  <2> QED
    BY <2>6, <2>7
<1>5. g[S] \in W[S]
  <2> HIDE DEF g, W
  <2> QED
    BY <1>3, <1>4, StateInduction
<1> QED
  BY <1>1, <1>5, RemovedSolves

OnTheCloudStep(c, S, g) ==
    [s \in SUBSET S |-> IF s = {} THEN c ELSE DeployCloud(g[s \ {Pick(s)}], Obj(Pick(s)), TheCloud)]

OnTheCloudBy(c, S) == CHOOSE g : g = OnTheCloudStep(c, S, g)

(* OnTheCloud, one pod after another.                                     *)
LEMMA OnTheCloudSolves ==
  ASSUME NEW c \in ClusterStates, NEW S \in SUBSET Pod
  PROVE  /\ OnTheCloud(c, S) = OnTheCloudBy(c, S)[S]
         /\ OnTheCloudBy(c, S) = OnTheCloudStep(c, S, OnTheCloudBy(c, S))
<1>1. OnTheCloud(c, S) = OnTheCloudBy(c, S)[S]
  BY DEF OnTheCloud, FoldSet, MapThenFoldSet, OnTheCloudBy, OnTheCloudStep, Pick
<1> DEFINE F == [y \in S \X ClusterStates |-> DeployCloud(y[2], Obj(y[1]), TheCloud)]
<1>2. ASSUME NEW p \in S, NEW v \in ClusterStates
      PROVE  F[<<p, v>>] = DeployCloud(v, Obj(p), TheCloud) /\ F[<<p, v>>] \in ClusterStates
  <2>1. F[<<p, v>>] = DeployCloud(v, Obj(p), TheCloud)
    OBVIOUS
  <2>2. Obj(p) \in PodObj /\ TheCloud \in CloudNode
    BY ObjType, TheCloudType
  <2> HIDE DEF F
  <2> QED
    BY <2>1, <2>2, DeployCloudType
<1>3. PICK g : g = StateStep(F, c, S, g) /\ \A s \in SUBSET S : g[s] \in ClusterStates
  <2> HIDE DEF F
  <2> QED
    BY <1>2, StateFold
<1>4. ASSUME NEW s \in SUBSET S, s # {}
      PROVE  F[<<Pick(s), g[s \ {Pick(s)}]>>] = DeployCloud(g[s \ {Pick(s)}], Obj(Pick(s)), TheCloud)
  <2>1. Pick(s) \in S /\ g[s \ {Pick(s)}] \in ClusterStates
    BY <1>3, <1>4, PickIsElement
  <2> HIDE DEF F
  <2> QED
    BY <1>2, <2>1
<1>5. g = OnTheCloudStep(c, S, g)
  <2> HIDE DEF F
  <2> QED
    BY <1>3, <1>4 DEF OnTheCloudStep, StateStep
<1> QED
  BY <1>1, <1>5 DEF OnTheCloudBy

(* OnTheCloud puts the pods on the cloud.                                 *)
LEMMA OnTheCloudHolds ==
  ASSUME NEW c, Tidy(c), NEW S \in SUBSET (Pod \ Present(c))
  PROVE  Holds(OnTheCloud(c, S), EdgePods(c), CloudPods(c) \cup S, [n \in EdgeNode |-> At(c, n)])
<1> DEFINE g == OnTheCloudBy(c, S)
           Is(d, s) == Holds(d, EdgePods(c), CloudPods(c) \cup s, [n \in EdgeNode |-> At(c, n)])
           W == [s \in SUBSET S |-> {d \in ClusterStates : Is(d, s)}]
<1>1. c \in ClusterStates
  BY DEF Tidy
<1>2. \A s \in SUBSET S : g[s] = IF s = {} THEN c ELSE DeployCloud(g[s \ {Pick(s)}], Obj(Pick(s)), TheCloud)
  <2>1. g = OnTheCloudStep(c, S, g)
    BY <1>1, OnTheCloudSolves
  <2> HIDE DEF g
  <2> QED
    BY <2>1 DEF OnTheCloudStep
<1>3. g[{}] \in W[{}]
  <2>1. g[{}] = c
    BY <1>2
  <2>2. Is(c, {})
    BY DEF Holds
  <2> QED
    BY <1>1, <2>1, <2>2
<1>4. ASSUME NEW s \in SUBSET S, s # {}, g[s \ {Pick(s)}] \in W[s \ {Pick(s)}]
      PROVE  g[s] \in W[s]
  <2>1. PICK p, t, v : p = Pick(s) /\ t = s \ {p} /\ v = g[t]
    OBVIOUS
  <2>2. p \in s /\ p \in Pod /\ t \in SUBSET S /\ s = t \cup {p} /\ p \notin t
    BY <1>4, <2>1, PickIsElement
  <2>3. v \in ClusterStates /\ Is(v, t)
    BY <1>4, <2>1, <2>2
  <2>4. g[s] = DeployCloud(v, Obj(p), TheCloud)
    <3> HIDE DEF g
    <3> QED
      BY <1>2, <1>4, <2>1
  <2>5. Tidy(v) /\ p \in Pod \ Present(v)
    BY <2>2, <2>3 DEF Holds, Present
  <2>6. Holds(g[s], EdgePods(v), CloudPods(v) \cup {p}, [n \in EdgeNode |-> At(v, n)])
    BY <2>4, <2>5, CloudOne
  <2>7. Is(g[s], s)
    <3> HIDE DEF g
    <3> QED
      BY <2>2, <2>3, <2>6 DEF Holds
  <2>8. g[s] \in ClusterStates
    BY <2>7 DEF Holds, Tidy
  <2> QED
    BY <2>7, <2>8
<1>5. g[S] \in W[S]
  <2> HIDE DEF g, W
  <2> QED
    BY <1>3, <1>4, StateInduction
<1> QED
  BY <1>1, <1>5, OnTheCloudSolves

BuiltStep(c, S, g) ==
    [s \in SUBSET S |-> IF s = {} THEN c ELSE NewPod(g[s \ {Pick(s)}], Obj(Pick(s)), "RUNNING")]

BuiltBy(c, S) == CHOOSE g : g = BuiltStep(c, S, g)

(* Built, one pod after another.                                          *)
LEMMA BuiltSolves ==
  ASSUME NEW c \in ClusterStates, NEW S \in SUBSET Pod
  PROVE  /\ Built(c, S) = BuiltBy(c, S)[S]
         /\ BuiltBy(c, S) = BuiltStep(c, S, BuiltBy(c, S))
<1>1. Built(c, S) = BuiltBy(c, S)[S]
  BY DEF Built, FoldSet, MapThenFoldSet, BuiltBy, BuiltStep, Pick
<1> DEFINE F == [y \in S \X ClusterStates |-> NewPod(y[2], Obj(y[1]), "RUNNING")]
<1>2. ASSUME NEW p \in S, NEW v \in ClusterStates
      PROVE  F[<<p, v>>] = NewPod(v, Obj(p), "RUNNING") /\ F[<<p, v>>] \in ClusterStates
  <2>1. F[<<p, v>>] = NewPod(v, Obj(p), "RUNNING")
    OBVIOUS
  <2>2. Obj(p) \in PodObj /\ "RUNNING" \in Status
    BY ObjType DEF Status
  <2> HIDE DEF F
  <2> QED
    BY <2>1, <2>2, NewPodType
<1>3. PICK g : g = StateStep(F, c, S, g) /\ \A s \in SUBSET S : g[s] \in ClusterStates
  <2> HIDE DEF F
  <2> QED
    BY <1>2, StateFold
<1>4. ASSUME NEW s \in SUBSET S, s # {}
      PROVE  F[<<Pick(s), g[s \ {Pick(s)}]>>] = NewPod(g[s \ {Pick(s)}], Obj(Pick(s)), "RUNNING")
  <2>1. Pick(s) \in S /\ g[s \ {Pick(s)}] \in ClusterStates
    BY <1>3, <1>4, PickIsElement
  <2> HIDE DEF F
  <2> QED
    BY <1>2, <2>1
<1>5. g = BuiltStep(c, S, g)
  <2> HIDE DEF F
  <2> QED
    BY <1>3, <1>4 DEF BuiltStep, StateStep
<1> QED
  BY <1>1, <1>5 DEF BuiltBy

(* Built puts the pods nowhere yet.                                       *)
LEMMA BuiltHolds ==
  ASSUME NEW c, Tidy(c), NEW S \in SUBSET (Pod \ Present(c))
  PROVE  Holds(Built(c, S), EdgePods(c), CloudPods(c), [n \in EdgeNode |-> At(c, n)])
<1> DEFINE g == BuiltBy(c, S)
           Is(d, s) == Holds(d, EdgePods(c), CloudPods(c), [n \in EdgeNode |-> At(c, n)])
           W == [s \in SUBSET S |-> {d \in ClusterStates : Is(d, s)}]
<1>1. c \in ClusterStates
  BY DEF Tidy
<1>2. \A s \in SUBSET S : g[s] = IF s = {} THEN c ELSE NewPod(g[s \ {Pick(s)}], Obj(Pick(s)), "RUNNING")
  <2>1. g = BuiltStep(c, S, g)
    BY <1>1, BuiltSolves
  <2> HIDE DEF g
  <2> QED
    BY <2>1 DEF BuiltStep
<1>3. g[{}] \in W[{}]
  <2>1. g[{}] = c
    BY <1>2
  <2>2. Is(c, {})
    BY DEF Holds
  <2> QED
    BY <1>1, <2>1, <2>2
<1>4. ASSUME NEW s \in SUBSET S, s # {}, g[s \ {Pick(s)}] \in W[s \ {Pick(s)}]
      PROVE  g[s] \in W[s]
  <2>1. PICK p, t, v : p = Pick(s) /\ t = s \ {p} /\ v = g[t]
    OBVIOUS
  <2>2. p \in s /\ p \in Pod /\ t \in SUBSET S /\ s = t \cup {p} /\ p \notin t
    BY <1>4, <2>1, PickIsElement
  <2>3. v \in ClusterStates /\ Is(v, t)
    BY <1>4, <2>1, <2>2
  <2>4. g[s] = NewPod(v, Obj(p), "RUNNING")
    <3> HIDE DEF g
    <3> QED
      BY <1>2, <1>4, <2>1
  <2>5. Tidy(v) /\ p \in Pod \ Present(v)
    BY <2>2, <2>3 DEF Holds, Present
  <2>6. Holds(g[s], EdgePods(v), CloudPods(v), [n \in EdgeNode |-> At(v, n)])
    BY <2>4, <2>5, NewOne
  <2>7. Is(g[s], s)
    <3> HIDE DEF g
    <3> QED
      BY <2>2, <2>3, <2>6 DEF Holds
  <2>8. g[s] \in ClusterStates
    BY <2>7 DEF Holds, Tidy
  <2> QED
    BY <2>7, <2>8
<1>5. g[S] \in W[S]
  <2> HIDE DEF g, W
  <2> QED
    BY <1>3, <1>4, StateInduction
<1> QED
  BY <1>1, <1>5, BuiltSolves

OnTheEdgeStep(c, f, g) ==
    [s \in SUBSET DOMAIN f |-> IF s = {} THEN c ELSE DeployEdge(g[s \ {Pick(s)}], Obj(Pick(s)), f[Pick(s)])]

OnTheEdgeBy(c, f) == CHOOSE g : g = OnTheEdgeStep(c, f, g)

(* OnTheEdge, one pod after another.                                      *)
LEMMA OnTheEdgeSolves ==
  ASSUME NEW c \in ClusterStates, NEW D \in SUBSET Pod, NEW f \in [D -> EdgeNode]
  PROVE  /\ OnTheEdge(c, f) = OnTheEdgeBy(c, f)[DOMAIN f]
         /\ OnTheEdgeBy(c, f) = OnTheEdgeStep(c, f, OnTheEdgeBy(c, f))
<1>0. DOMAIN f = D
  OBVIOUS
<1>1. OnTheEdge(c, f) = OnTheEdgeBy(c, f)[DOMAIN f]
  BY DEF OnTheEdge, FoldSet, MapThenFoldSet, OnTheEdgeBy, OnTheEdgeStep, Pick
<1> DEFINE F == [y \in D \X ClusterStates |-> DeployEdge(y[2], Obj(y[1]), f[y[1]])]
<1>2. ASSUME NEW p \in D, NEW v \in ClusterStates
      PROVE  F[<<p, v>>] = DeployEdge(v, Obj(p), f[p]) /\ F[<<p, v>>] \in ClusterStates
  <2>1. F[<<p, v>>] = DeployEdge(v, Obj(p), f[p])
    OBVIOUS
  <2>2. Obj(p) \in PodObj /\ f[p] \in EdgeNode
    BY ObjType, <1>0
  <2> HIDE DEF F
  <2> QED
    BY <2>1, <2>2, DeployEdgeType
<1>3. PICK g : g = StateStep(F, c, D, g) /\ \A s \in SUBSET D : g[s] \in ClusterStates
  <2> HIDE DEF F
  <2> QED
    BY <1>2, StateFold
<1>4. ASSUME NEW s \in SUBSET D, s # {}
      PROVE  F[<<Pick(s), g[s \ {Pick(s)}]>>] = DeployEdge(g[s \ {Pick(s)}], Obj(Pick(s)), f[Pick(s)])
  <2>1. Pick(s) \in D /\ g[s \ {Pick(s)}] \in ClusterStates
    BY <1>3, <1>4, PickIsElement
  <2> HIDE DEF F
  <2> QED
    BY <1>2, <2>1
<1>5. g = OnTheEdgeStep(c, f, g)
  <2> HIDE DEF F
  <2> QED
    BY <1>3, <1>4, <1>0 DEF OnTheEdgeStep, StateStep
<1> QED
  BY <1>1, <1>5 DEF OnTheEdgeBy

(* OnTheEdge puts the pods on their nodes if these have room for them all. *)
LEMMA OnTheEdgeHolds ==
  ASSUME NEW c, Tidy(c), NEW D \in SUBSET (Pod \ Present(c)), NEW f \in [D -> EdgeNode],
         \A n \in EdgeNode, r \in Resource : TotalSize(Sent(f, n))[r] <= Remaining(c, n, r)
  PROVE  Holds(OnTheEdge(c, f), EdgePods(c) \cup D, CloudPods(c), [n \in EdgeNode |-> At(c, n) \cup Sent(f, n)])
<1> DEFINE g == OnTheEdgeBy(c, f)
           Is(d, s) == Holds(d, EdgePods(c) \cup s, CloudPods(c), [n \in EdgeNode |-> At(c, n) \cup (Sent(f, n) \cap s)])
           W == [s \in SUBSET D |-> {d \in ClusterStates : Is(d, s)}]
<1>1. c \in ClusterStates /\ DOMAIN f = D
  BY DEF Tidy
<1>2. \A s \in SUBSET D : g[s] = IF s = {} THEN c ELSE DeployEdge(g[s \ {Pick(s)}], Obj(Pick(s)), f[Pick(s)])
  <2>1. g = OnTheEdgeStep(c, f, g)
    BY <1>1, OnTheEdgeSolves
  <2> HIDE DEF g
  <2> QED
    BY <1>1, <2>1 DEF OnTheEdgeStep
<1>3. g[{}] \in W[{}]
  <2>1. g[{}] = c
    BY <1>2
  <2>2. Is(c, {})
    BY DEF Holds
  <2> QED
    BY <1>1, <2>1, <2>2
<1>4. ASSUME NEW s \in SUBSET D, s # {}, g[s \ {Pick(s)}] \in W[s \ {Pick(s)}]
      PROVE  g[s] \in W[s]
  <2>1. PICK p, t, v : p = Pick(s) /\ t = s \ {p} /\ v = g[t]
    OBVIOUS
  <2>2. p \in s /\ p \in Pod /\ t \in SUBSET D /\ s = t \cup {p} /\ p \notin t
    BY <1>4, <2>1, PickIsElement
  <2>3. v \in ClusterStates /\ Is(v, t)
    BY <1>4, <2>1, <2>2
  <2>4. g[s] = DeployEdge(v, Obj(p), f[p])
    <3> HIDE DEF g
    <3> QED
      BY <1>2, <1>4, <2>1
  <2>5. Tidy(v) /\ p \in Pod \ Present(v)
    BY <2>2, <2>3 DEF Holds, Present
  <2>6. Holds(g[s], EdgePods(v) \cup {p}, CloudPods(v),
              [n \in EdgeNode |-> IF n = f[p] THEN At(v, n) \cup {p} ELSE At(v, n)])
    <3>1. f[p] \in EdgeNode
      BY <2>2
    <3>2. Fits(v, p, f[p])
      <4>1. PICK m : m = f[p] /\ m \in EdgeNode
        BY <3>1
      <4>2. SUFFICES ASSUME NEW r \in Resource
                     PROVE  Size(p)[r] <= Remaining(v, m, r)
        BY <4>1 DEF Fits, Size
      <4> DEFINE A == Sent(f, m) \cap t
      <4>3. A \cup {p} \in SUBSET Sent(f, m) /\ Sent(f, m) \in SUBSET Pod /\ p \in Pod \ A /\ A \in SUBSET Pod
        BY <2>2, <4>1, <1>1 DEF Sent
      <4>4. At(c, m) \in SUBSET Pod /\ At(c, m) \cap A = {}
        <5>1. At(c, m) \subseteq EdgePods(c)
          BY <1>1, Sides DEF At, Tidy
        <5> QED
          BY <2>2, <5>1 DEF At, Present
      <4>5. At(v, m) = At(c, m) \cup A
        BY <2>3, <4>1 DEF Holds
      <4>6. TotalSize(A \cup {p})[r] <= TotalSize(Sent(f, m))[r]
        BY <4>3, TotalSubset
      <4>7. TotalSize(A \cup {p})[r] = TotalSize(A)[r] + Size(p)[r]
        BY <4>3, TotalAdd
      <4>8. TotalSize(At(c, m) \cup A)[r] = TotalSize(At(c, m))[r] + TotalSize(A)[r]
        BY <4>3, <4>4, TotalUnion
      <4>9. /\ v.nodeUsed[m][r] = TotalSize(At(v, m))[r]
            /\ c.nodeUsed[m][r] = TotalSize(At(c, m))[r]
        BY <2>5, <4>1 DEF Tidy, Booked
      <4>10. /\ TotalSize(A)[r] \in Nat /\ TotalSize(At(c, m))[r] \in Nat /\ Size(p)[r] \in Nat
             /\ TotalSize(Sent(f, m))[r] \in Nat /\ Resources[m][r] \in Nat
        <5> HIDE DEF A
        <5>1. TotalSize(A) \in [Resource -> Nat] /\ TotalSize(At(c, m)) \in [Resource -> Nat]
          BY <4>3, <4>4, TotalType
        <5>2. TotalSize(Sent(f, m)) \in [Resource -> Nat] /\ Size(p)[r] \in Nat
          BY <4>3, TotalType, SizeType
        <5> QED
          BY <4>1, <5>1, <5>2, ResourcesAreVectors
      <4>11. TotalSize(Sent(f, m))[r] <= Resources[m][r] - c.nodeUsed[m][r]
        BY <4>1 DEF Remaining
      <4>12. Remaining(v, m, r) = Resources[m][r] - v.nodeUsed[m][r]
        BY DEF Remaining
      <4>13. TotalSize(At(v, m))[r] = TotalSize(At(c, m) \cup A)[r]
        BY <4>5
      <4> HIDE DEF A
      <4> QED
        BY ONLY <4>6, <4>7, <4>8, <4>9, <4>10, <4>11, <4>12, <4>13
    <3> QED
      BY <2>4, <2>5, <3>1, <3>2, EdgeOne
  <2>7. Is(g[s], s)
    <3> HIDE DEF g
    <3>1. \A n \in EdgeNode : Sent(f, n) \cap s = IF n = f[p] THEN (Sent(f, n) \cap t) \cup {p} ELSE Sent(f, n) \cap t
      BY <2>2, <1>1 DEF Sent
    <3>2. \A n \in EdgeNode : At(g[s], n) = At(c, n) \cup (Sent(f, n) \cap s)
      BY <2>3, <2>6, <3>1 DEF Holds
    <3>3. EdgePods(g[s]) = EdgePods(c) \cup s
      BY <2>2, <2>3, <2>6 DEF Holds
    <3> QED
      BY <2>3, <2>6, <3>2, <3>3 DEF Holds
  <2>8. g[s] \in ClusterStates
    BY <2>7 DEF Holds, Tidy
  <2> QED
    BY <2>7, <2>8
<1>5. g[D] \in W[D]
  <2> HIDE DEF g, W
  <2> QED
    BY <1>3, <1>4, StateInduction
<1>6. Is(g[D], D)
  BY <1>5
<1>7. OnTheEdge(c, f) = g[D]
  BY <1>1, OnTheEdgeSolves
<1>8. \A n \in EdgeNode : Sent(f, n) \cap D = Sent(f, n)
  BY <1>1 DEF Sent
<1> HIDE DEF g
<1> QED
  BY <1>6, <1>7, <1>8 DEF Holds

-----------------------------------------------------------------------------
(* TestingApplyDecision carries a decision out.                            *)

(* F leaves the edge and m moves pods on it, and every node has room.      *)
Movable(c, F, m) ==
    /\ F \subseteq EdgePods(c)
    /\ DOMAIN m \subseteq EdgePods(c) \ F /\ m \in [DOMAIN m -> EdgeNode]
    /\ \A n \in EdgeNode, r \in Resource :
         TotalSize(Sent(m, n))[r] + TotalSize((At(c, n) \ F) \ DOMAIN m)[r] <= Resources[n][r]

(* Where the pods of a tidy cluster are.                                   *)
LEMMA TidySides ==
  ASSUME NEW c, Tidy(c)
  PROVE  /\ c \in ClusterStates /\ WithinResources(c)
         /\ EdgePods(c) \in SUBSET Pod /\ CloudPods(c) \in SUBSET Pod /\ EdgePods(c) \cap CloudPods(c) = {}
         /\ \A n \in EdgeNode : At(c, n) \in SUBSET EdgePods(c)
         /\ \A p \in EdgePods(c) : NodeOf(c, p) \in EdgeNode /\ \A n \in EdgeNode : NodeOf(c, p) = n <=> p \in At(c, n)
<1>1. c \in ClusterStates /\ WithinResources(c)
  BY DEF Tidy
<1>2. /\ EdgePods(c) = {p \in Pod : c.edgePods[Obj(p)] > 0}
      /\ CloudPods(c) = {p \in Pod : c.cloudPods[Obj(p)] > 0}
  BY <1>1, Sides DEF Tidy
<1>3. \A p \in Pod : /\ c.edgePods[Obj(p)] \in Nat /\ c.cloudPods[Obj(p)] \in Nat
                     /\ c.edgePods[Obj(p)] + c.cloudPods[Obj(p)] <= 1
  BY <1>1, EntryTypes DEF Tidy, OneEntry
<1>4. EdgePods(c) \in SUBSET Pod /\ CloudPods(c) \in SUBSET Pod
  BY <1>2
<1>5. EdgePods(c) \cap CloudPods(c) = {}
  BY <1>2, <1>3
<1>6. \A n \in EdgeNode : At(c, n) \in SUBSET EdgePods(c)
  BY <1>2 DEF At
<1>7. ASSUME NEW p \in EdgePods(c)
      PROVE  NodeOf(c, p) \in EdgeNode /\ \A n \in EdgeNode : NodeOf(c, p) = n <=> p \in At(c, n)
  <2>1. p \in Pod /\ c.edgePods[Obj(p)] > 0
    BY <1>2
  <2>2. c.edgePods[Obj(p)] + c.cloudPods[Obj(p)] > 0
    BY <1>3, <2>1
  <2>3. c.podsMap[p] = Obj(p) /\ c.node[Obj(p)] \in EdgeNode
    BY <2>1, <2>2 DEF Tidy, Mapped, Placed
  <2> QED
    BY <2>1, <2>3 DEF NodeOf, At
<1> QED
  BY <1>1, <1>4, <1>5, <1>6, <1>7

(* What remains of a node of a tidy cluster.                               *)
LEMMA TidyRemaining ==
  ASSUME NEW c, Tidy(c), NEW n \in EdgeNode, NEW r \in Resource
  PROVE  /\ TotalSize(At(c, n))[r] \in Nat /\ Resources[n][r] \in Nat
         /\ Remaining(c, n, r) = Resources[n][r] - TotalSize(At(c, n))[r]
         /\ TotalSize(At(c, n))[r] <= Resources[n][r]
<1>1. PICK A : A = At(c, n) /\ A \in SUBSET Pod
  BY DEF At
<1>2. TotalSize(A)[r] \in Nat
  BY <1>1, TotalType
<1>3. Resources[n][r] \in Nat
  BY ResourcesAreVectors
<1>4. c.nodeUsed[n][r] = TotalSize(A)[r]
  BY <1>1 DEF Tidy, Booked
<1>5. c.nodeUsed[n][r] <= Resources[n][r]
  BY DEF Tidy, WithinResources
<1> QED
  BY <1>1, <1>2, <1>3, <1>4, <1>5 DEF Remaining

(* What a decision moves can be moved.                                     *)
LEMMA FeasibleMoves ==
  ASSUME NEW c, Tidy(c), NEW new, NEW d, Feasible(c, new, d)
  PROVE  Movable(c, d.freed, d.migrations)
<1>1. PICK F : F = d.freed /\ F \subseteq EdgePods(c) /\ F \in SUBSET Pod
  BY TidySides DEF Feasible
<1>2. PICK m : m = d.migrations
  OBVIOUS
<1>3. CASE m = <<>>
  <2>1. DOMAIN m = {} /\ m \in [DOMAIN m -> EdgeNode]
    BY <1>3
  <2>2. ASSUME NEW n \in EdgeNode, NEW r \in Resource
        PROVE  TotalSize(Sent(m, n))[r] + TotalSize((At(c, n) \ F) \ DOMAIN m)[r] <= Resources[n][r]
    <3>1. PICK e : e = {} /\ Sent(m, n) = e
      BY <2>1 DEF Sent
    <3>2. PICK A, B : A = At(c, n) /\ B = (A \ F) \ DOMAIN m /\ A \in SUBSET Pod /\ B \in SUBSET A
      <4>1. PICK A : A = At(c, n) /\ A \in SUBSET Pod
        BY DEF At
      <4>2. PICK B : B = (A \ F) \ DOMAIN m /\ B \in SUBSET A
        OBVIOUS
      <4> QED
        BY <4>1, <4>2
    <3>3. TotalSize(e)[r] = 0
      BY <3>1, TotalEmpty
    <3>4. TotalSize(B)[r] <= TotalSize(A)[r]
      BY <3>2, TotalSubset
    <3>5. TotalSize(A)[r] <= Resources[n][r] /\ TotalSize(A)[r] \in Nat /\ Resources[n][r] \in Nat
      BY <3>2, TidyRemaining
    <3>6. TotalSize(B)[r] \in Nat
      BY <3>2, TotalType
    <3>7. 0 + TotalSize(B)[r] <= Resources[n][r]
      BY ONLY <3>4, <3>5, <3>6
    <3> QED
      BY <3>1, <3>2, <3>3, <3>7
  <2> QED
    BY <1>1, <1>2, <2>1, <2>2 DEF Movable
<1>4. CASE m # <<>>
  <2>1. m \in CalcMigrations(c, F)
    BY <1>1, <1>2, <1>4 DEF Feasible
  <2>2. /\ DOMAIN m \subseteq EdgePods(c) \ F /\ m \in [DOMAIN m -> EdgeNode]
        /\ HasRoomFor(GivenBack(GivenBack(RemainingOf(c), c, F), c, DOMAIN m), m)
    BY <1>1, <1>4, <2>1, TidySides, CalcMigrationsFit
  <2>3. PICK M : M = DOMAIN m /\ M \subseteq EdgePods(c) \ F /\ M \in SUBSET Pod
    BY <2>2, TidySides
  <2>4. ASSUME NEW n \in EdgeNode, NEW r \in Resource
        PROVE  TotalSize(Sent(m, n))[r] + TotalSize((At(c, n) \ F) \ M)[r] <= Resources[n][r]
    <3>1. PICK R, Q : R = RemainingOf(c) /\ Q = GivenBack(R, c, F)
      OBVIOUS
    <3>2. R \in Remainders /\ R[n][r] = Remaining(c, n, r)
      BY <3>1, RemainingType, TidySides DEF RemainingOf
    <3>3. Q \in Remainders /\ Q[n][r] = R[n][r] + TotalSize(AtNode(c, F, n))[r]
      BY <1>1, <3>1, <3>2, GivenBackType
    <3>4. GivenBack(Q, c, M)[n][r] = Q[n][r] + TotalSize(AtNode(c, M, n))[r]
      BY <2>3, <3>3, GivenBackType
    <3>5. TotalSize(Sent(m, n))[r] <= GivenBack(Q, c, M)[n][r]
      BY <2>2, <2>3, <3>1 DEF HasRoomFor
    <3>6. PICK A, B, C, D : /\ A = At(c, n) /\ B = AtNode(c, F, n) /\ C = AtNode(c, M, n) /\ D = (A \ F) \ M
      OBVIOUS
    <3>7. /\ A \in SUBSET Pod /\ B \in SUBSET Pod /\ C \in SUBSET Pod /\ D \in SUBSET Pod
          /\ B \cap C = {} /\ (B \cup C) \cap D = {} /\ A = (B \cup C) \cup D
      <4>1. B = A \cap F /\ C = A \cap M
        BY <1>1, <2>3, <3>6, TidySides DEF AtNode
      <4>2. A \in SUBSET Pod
        BY <3>6 DEF At
      <4> QED
        BY <2>3, <3>6, <4>1, <4>2
    <3>8. PICK BC : BC = B \cup C /\ BC \in SUBSET Pod
      BY <3>7
    <3>9. TotalSize(BC)[r] = TotalSize(B)[r] + TotalSize(C)[r]
      BY <3>7, <3>8, TotalUnion
    <3>10. TotalSize(A)[r] = TotalSize(BC)[r] + TotalSize(D)[r]
      BY <3>7, <3>8, TotalUnion
    <3>11. /\ Remaining(c, n, r) = Resources[n][r] - TotalSize(A)[r]
           /\ TotalSize(A)[r] \in Nat /\ Resources[n][r] \in Nat
      BY <3>6, TidyRemaining
    <3>12. /\ TotalSize(B)[r] \in Nat /\ TotalSize(C)[r] \in Nat /\ TotalSize(D)[r] \in Nat
           /\ TotalSize(BC)[r] \in Nat
      BY <3>7, <3>8, TotalType
    <3>13. TotalSize(Sent(m, n))[r] \in Nat
      <4>1. PICK S : S = Sent(m, n) /\ S \in SUBSET Pod
        BY <2>3 DEF Sent
      <4> QED
        BY <4>1, TotalType
    <3>14. TotalSize(Sent(m, n))[r] <= Resources[n][r] - TotalSize(A)[r] + TotalSize(B)[r] + TotalSize(C)[r]
      BY <3>2, <3>3, <3>4, <3>5, <3>6, <3>11
    <3>15. TotalSize(Sent(m, n))[r] + TotalSize(D)[r] <= Resources[n][r]
      BY ONLY <3>9, <3>10, <3>11, <3>12, <3>13, <3>14
    <3> QED
      BY <3>6, <3>15
  <2> QED
    BY <1>1, <1>2, <2>2, <2>3, <2>4 DEF Movable
<1> QED
  BY <1>3, <1>4

(* OnTheEdge, for a mapping there is room for.                             *)
LEMMA OnTheEdgeFits ==
  ASSUME NEW c, Tidy(c), NEW D \in SUBSET (Pod \ Present(c)), NEW f \in [D -> EdgeNode],
         HasRoomFor(RemainingOf(c), f)
  PROVE  /\ Tidy(OnTheEdge(c, f)) /\ EdgePods(OnTheEdge(c, f)) = EdgePods(c) \cup D
         /\ CloudPods(OnTheEdge(c, f)) = CloudPods(c)
<1>1. \A n \in EdgeNode, r \in Resource : TotalSize(Sent(f, n))[r] <= Remaining(c, n, r)
  BY DEF HasRoomFor, RemainingOf
<1>2. Holds(OnTheEdge(c, f), EdgePods(c) \cup D, CloudPods(c), [n \in EdgeNode |-> At(c, n) \cup Sent(f, n)])
  BY ONLY <1>1, Tidy(c), D \in SUBSET (Pod \ Present(c)), f \in [D -> EdgeNode], OnTheEdgeHolds
<1> QED
  BY <1>2 DEF Holds

(* A decision that can be carried out is, and no pod gets lost.            *)
LEMMA ApplyHolds ==
  ASSUME NEW c, Tidy(c), NEW new \in SUBSET (Pod \ Present(c)), NEW d,
         Movable(c, d.freed, d.migrations), d.toEdge \subseteq new, d.toCloud = new \ d.toEdge,
         NEW result \in TestingApplyDecision(c, d)
  PROVE  Tidy(result) /\ Present(result) = Present(c) \cup new /\ ~Panics(c, d, result)
<1>1. PICK F, m, M, T : F = d.freed /\ m = d.migrations /\ M = DOMAIN m /\ T = d.toEdge
  OBVIOUS
<1>2. PICK E, C : E = EdgePods(c) /\ C = CloudPods(c)
  OBVIOUS
<1>3. /\ F \subseteq E /\ M \subseteq E \ F /\ m \in [M -> EdgeNode]
      /\ \A n \in EdgeNode, r \in Resource :
           TotalSize(Sent(m, n))[r] + TotalSize((At(c, n) \ F) \ M)[r] <= Resources[n][r]
  BY <1>1, <1>2 DEF Movable
<1>4. E \in SUBSET Pod /\ C \in SUBSET Pod /\ E \cap C = {} /\ Present(c) = E \cup C
  BY <1>2, TidySides DEF Present
<1>5. PICK c1 : c1 = Removed(c, F)
  OBVIOUS
<1>6. Tidy(c1) /\ EdgePods(c1) = E \ F /\ CloudPods(c1) = C \ F /\ \A n \in EdgeNode : At(c1, n) = At(c, n) \ F
  BY <1>2, <1>3, <1>4, <1>5, RemovedHolds DEF Holds
<1>7. F \in SUBSET (Pod \ Present(c1))
  BY <1>3, <1>4, <1>6 DEF Present
<1>8. PICK c2 : c2 = OnTheCloud(c1, F)
  OBVIOUS
<1>9. /\ Tidy(c2) /\ EdgePods(c2) = E \ F /\ CloudPods(c2) = C \cup F
      /\ \A n \in EdgeNode : At(c2, n) = At(c, n) \ F
  <2>1. Holds(c2, EdgePods(c1), CloudPods(c1) \cup F, [n \in EdgeNode |-> At(c1, n)])
    BY <1>6, <1>7, <1>8, OnTheCloudHolds
  <2> QED
    BY <1>3, <1>4, <1>6, <2>1 DEF Holds
<1>10. PICK c3 : c3 = Removed(c2, M)
  OBVIOUS
<1>11. /\ Tidy(c3) /\ EdgePods(c3) = (E \ F) \ M /\ CloudPods(c3) = C \cup F
       /\ \A n \in EdgeNode : At(c3, n) = (At(c, n) \ F) \ M
  <2>1. M \in SUBSET Pod
    BY <1>3, <1>4
  <2>2. Holds(c3, EdgePods(c2) \ M, CloudPods(c2) \ M, [n \in EdgeNode |-> At(c2, n) \ M])
    BY <1>9, <1>10, <2>1, RemovedHolds
  <2> QED
    BY <1>3, <1>4, <1>9, <2>2 DEF Holds
<1>12. PICK c4 : c4 = OnTheEdge(c3, m)
  OBVIOUS
<1>13. Tidy(c4) /\ EdgePods(c4) = E \ F /\ CloudPods(c4) = C \cup F
  <2>1. M \in SUBSET (Pod \ Present(c3))
    BY <1>3, <1>4, <1>11 DEF Present
  <2>2. \A n \in EdgeNode, r \in Resource : TotalSize(Sent(m, n))[r] <= Remaining(c3, n, r)
    <3> SUFFICES ASSUME NEW n \in EdgeNode, NEW r \in Resource
                 PROVE  TotalSize(Sent(m, n))[r] <= Remaining(c3, n, r)
      OBVIOUS
    <3>1. PICK B : B = (At(c, n) \ F) \ M /\ B = At(c3, n)
      BY <1>11
    <3>2. /\ TotalSize(B)[r] \in Nat /\ Resources[n][r] \in Nat
          /\ Remaining(c3, n, r) = Resources[n][r] - TotalSize(B)[r]
      BY <1>11, <3>1, TidyRemaining, ZenonT(30)
    <3>3. TotalSize(Sent(m, n))[r] + TotalSize(B)[r] <= Resources[n][r]
      BY <1>3, <3>1
    <3>4. PICK S : S = Sent(m, n) /\ S \in SUBSET Pod
      <4>1. Sent(m, n) \subseteq M
        BY <1>1 DEF Sent
      <4> QED
        BY <1>3, <1>4, <4>1
    <3>5. TotalSize(S)[r] \in Nat
      BY <3>4, TotalType
    <3> QED
      BY ONLY <3>2, <3>3, <3>4, <3>5
  <2>3. HasRoomFor(RemainingOf(c3), m)
    BY <2>2 DEF HasRoomFor, RemainingOf
  <2>4. Tidy(c4) /\ EdgePods(c4) = EdgePods(c3) \cup M /\ CloudPods(c4) = CloudPods(c3)
    BY <1>3, <1>11, <1>12, <2>1, <2>3, OnTheEdgeFits
  <2> QED
    BY <1>3, <1>4, <1>11, <2>4
<1>14. PICK c5 : c5 = OnTheCloud(c4, new \ T)
  OBVIOUS
<1>15. Tidy(c5) /\ EdgePods(c5) = E \ F /\ CloudPods(c5) = C \cup F \cup (new \ T)
  <2>1. (new \ T) \in SUBSET (Pod \ Present(c4))
    BY <1>3, <1>4, <1>13 DEF Present
  <2>2. Holds(c5, EdgePods(c4), CloudPods(c4) \cup (new \ T), [n \in EdgeNode |-> At(c4, n)])
    BY <1>13, <1>14, <2>1, OnTheCloudHolds
  <2> QED
    BY <1>13, <2>2 DEF Holds
<1>16. PICK f \in MapPodToEdge(c5, T, {}, <<>>) : result = OnTheCloud(OnTheEdge(c5, f), T \ DOMAIN f)
  BY <1>1, <1>5, <1>8, <1>10, <1>12, <1>14 DEF TestingApplyDecision
<1>17. T \in SUBSET new /\ T \in SUBSET Pod
  BY <1>1
<1>18. f \in MapsOf(T) /\ HasRoomFor(RemainingOf(c5), f)
  BY <1>15, <1>16, <1>17, TidySides, MapPodToEdgeFits
<1>19. PICK D : D = DOMAIN f /\ D \subseteq T /\ f \in [D -> EdgeNode]
  BY <1>18, MapsAre
<1>20. PICK c6 : c6 = OnTheEdge(c5, f)
  OBVIOUS
<1>21. Tidy(c6) /\ EdgePods(c6) = (E \ F) \cup D /\ CloudPods(c6) = C \cup F \cup (new \ T)
  <2>1. D \in SUBSET (Pod \ Present(c5))
    BY <1>3, <1>4, <1>15, <1>17, <1>19 DEF Present
  <2>2. Tidy(c6) /\ EdgePods(c6) = EdgePods(c5) \cup D /\ CloudPods(c6) = CloudPods(c5)
    BY <1>15, <1>18, <1>19, <1>20, <2>1, OnTheEdgeFits
  <2> QED
    BY <1>15, <2>2
<1>22. /\ Tidy(result) /\ EdgePods(result) = (E \ F) \cup D
       /\ CloudPods(result) = C \cup F \cup (new \ T) \cup (T \ D)
  <2>1. (T \ D) \in SUBSET (Pod \ Present(c6))
    BY <1>3, <1>4, <1>17, <1>21 DEF Present
  <2>2. Holds(result, EdgePods(c6), CloudPods(c6) \cup (T \ D), [n \in EdgeNode |-> At(c6, n)])
    BY <1>16, <1>19, <1>20, <1>21, <2>1, OnTheCloudHolds
  <2> QED
    BY <1>21, <2>2 DEF Holds
<1>23. Present(result) = Present(c) \cup new
  BY <1>3, <1>4, <1>17, <1>19, <1>22 DEF Present
<1>24. ~Panics(c, d, result)
  BY <1>1, <1>3, <1>4, <1>17, <1>23 DEF Panics
<1> QED
  BY <1>22, <1>23, <1>24

-----------------------------------------------------------------------------
(* The steps of the simulation.                                            *)

(* What MakeDecisionForNewPods returns can be carried out.                 *)
LEMMA DecideHolds ==
  ASSUME NEW c, Tidy(c), NEW new \in SUBSET (Pod \ Present(c)),
         NEW d \in MakeDecisionForNewPods(c, new, TRUE), NEW result \in TestingApplyDecision(c, d)
  PROVE  Tidy(result) /\ Present(result) = Present(c) \cup new /\ ~Panics(c, d, result)
<1>1. new \in SUBSET (Pod \ EdgePods(c))
  BY DEF Present
<1>2. Feasible(c, new, d)
  BY <1>1, TidySides, DecisionsFeasible
<1>3. Movable(c, d.freed, d.migrations) /\ d.toEdge \subseteq new /\ d.toCloud = new \ d.toEdge
  BY <1>2, FeasibleMoves DEF Feasible
<1> QED
  BY <1>3, ApplyHolds

(* What SuggestReorder returns can be carried out, once the suggested pods *)
(* are off the cloud.                                                      *)
LEMMA SuggestHolds ==
  ASSUME NEW c, Tidy(c), NEW s \in SuggestReorder(c)
  PROVE  /\ s.cloudToEdge \subseteq Present(c)
         /\ \A result \in TestingApplyDecision(Removed(c, s.cloudToEdge), s.decision) :
              /\ Tidy(result) /\ Present(result) = Present(c)
              /\ ~Panics(Removed(c, s.cloudToEdge), s.decision, result)
<1>1. PICK S, d : /\ S \in SuggestCloudToEdge(c) /\ d \in MakeDecisionForNewPods(c, S, TRUE)
                  /\ s.cloudToEdge = S /\ s.decision = d
  <2>1. PICK S \in SuggestCloudToEdge(c) :
          s \in {[cloudToEdge |-> S, decision |-> d] : d \in MakeDecisionForNewPods(c, S, TRUE)}
    BY DEF SuggestReorder
  <2>2. PICK d \in MakeDecisionForNewPods(c, S, TRUE) : s = [cloudToEdge |-> S, decision |-> d]
    BY <2>1
  <2> QED
    BY <2>2
<1>2. S \subseteq CloudPods(c) /\ S \in SUBSET Pod
  BY <1>1, SuggestedAreCloud, TidySides
<1>3. S \in SUBSET (Pod \ EdgePods(c))
  BY <1>2, TidySides
<1>4. Feasible(c, S, d)
  BY <1>1, <1>3, TidySides, DecisionsFeasible
<1>5. Movable(c, d.freed, d.migrations) /\ d.toEdge \subseteq S /\ d.toCloud = S \ d.toEdge
  BY <1>4, FeasibleMoves DEF Feasible
<1>6. PICK b : b = Removed(c, S)
  OBVIOUS
<1>7. /\ Tidy(b) /\ EdgePods(b) = EdgePods(c) /\ CloudPods(b) = CloudPods(c) \ S
      /\ \A n \in EdgeNode : At(b, n) = At(c, n)
  <2>1. Holds(b, EdgePods(c) \ S, CloudPods(c) \ S, [n \in EdgeNode |-> At(c, n) \ S])
    BY <1>2, <1>6, RemovedHolds
  <2>2. EdgePods(c) \ S = EdgePods(c) /\ \A n \in EdgeNode : At(c, n) \ S = At(c, n)
    BY <1>2, TidySides
  <2> QED
    BY <2>1, <2>2 DEF Holds
<1>8. Movable(b, d.freed, d.migrations)
  BY <1>5, <1>7 DEF Movable
<1>9. S \in SUBSET (Pod \ Present(b)) /\ Present(b) \cup S = Present(c) /\ S \subseteq Present(c)
  BY <1>2, <1>3, <1>7 DEF Present
<1>10. \A result \in TestingApplyDecision(b, d) :
         Tidy(result) /\ Present(result) = Present(c) /\ ~Panics(b, d, result)
  BY <1>5, <1>7, <1>8, <1>9, ApplyHolds
<1> QED
  BY <1>1, <1>6, <1>9, <1>10

(* An empty cluster is tidy.                                               *)
LEMMA BeginsTidy == Tidy(NewClusterState) /\ Present(NewClusterState) = {}
<1>1. PICK c : c = NewClusterState
  OBVIOUS
<1>2. c \in ClusterStates /\ WithinResources(c)
  BY <1>1, NewClusterStateType, NewClusterStateWithin
<1>3. \A o \in PodObj : c.edgePods[o] = 0 /\ c.cloudPods[o] = 0
  BY <1>1 DEF NewClusterState
<1>4. \A p \in Pod : c.edgePods[Obj(p)] = 0 /\ c.cloudPods[Obj(p)] = 0
  BY <1>3, ObjType
<1>5. OneObject(c) /\ OneEntry(c) /\ Placed(c) /\ Mapped(c)
  BY <1>3, <1>4 DEF OneObject, OneEntry, Placed, Mapped
<1>6. Booked(c)
  <2> SUFFICES ASSUME NEW n \in EdgeNode, NEW r \in Resource
               PROVE  c.nodeUsed[n][r] = TotalSize(At(c, n))[r]
    BY DEF Booked
  <2>1. PICK e : e = {} /\ At(c, n) = e
    <3>1. At(c, n) = {}
      BY <1>4 DEF At
    <3> QED
      BY <3>1
  <2>2. c.nodeUsed[n][r] = 0
    BY <1>1 DEF NewClusterState
  <2> QED
    BY <2>1, <2>2, TotalEmpty
<1>7. Tidy(c)
  BY <1>2, <1>5, <1>6 DEF Tidy
<1>8. Present(c) = {}
  BY <1>2, <1>4, <1>5, Sides DEF Present
<1> QED
  BY <1>1, <1>7, <1>8

(* A new pod is put where it fits.                                         *)
LEMMA FirstFitFits ==
  ASSUME NEW p \in Pod, NEW n \in FirstFit(p)
  PROVE  n \in EdgeNode /\ Fits(cluster, p, n)
<1>1. PICK i \in DOMAIN Nodes : n = Nodes[i] /\ LEThan(Size(p), RemainingOf(cluster)[Nodes[i]])
  BY DEF FirstFit
<1>2. n \in EdgeNode
  BY <1>1, NodesAre
<1>3. \A r \in Resource : Size(p)[r] <= Remaining(cluster, n, r)
  BY <1>1, <1>2 DEF LEThan, RemainingOf
<1> QED
  BY <1>2, <1>3 DEF Fits, Size

-----------------------------------------------------------------------------
(* The inductive invariant: the cluster is tidy, holds none of the new     *)
(* pods, and there are none but while they are being placed.               *)

SimulationInv ==
    /\ Tidy(cluster)
    /\ newPods \in SUBSET (Pod \ Present(cluster))
    /\ stage # "panic"
    /\ stage \in {"frame", "suggest"} => newPods = {}

Kept == Present(cluster') \cup newPods' = Present(cluster) \cup newPods

(* A frame brings new pods, deletes others, and panics never.              *)
LEMMA ReadFrameKeeps ==
  ASSUME SimulationInv, ReadFrame
  PROVE  SimulationInv'
<1>1. newPods = {} /\ Tidy(cluster)
  BY DEF SimulationInv, ReadFrame
<1>2. PICK N \in SUBSET (Pod \ Present(cluster)), D \in SUBSET Present(cluster) :
        /\ newPods' = N /\ cluster' = Removed(Built(cluster, N), D)
        /\ stage' = IF algorithm = "QASRE" THEN "decide" ELSE IF N = {} THEN "frame" ELSE "default"
  BY DEF ReadFrame, Deletable
<1>3. PICK b : b = Built(cluster, N)
  OBVIOUS
<1>4. Tidy(b) /\ EdgePods(b) = EdgePods(cluster) /\ CloudPods(b) = CloudPods(cluster)
  BY <1>1, <1>3, BuiltHolds DEF Holds
<1>5. D \in SUBSET Pod
  BY <1>1, TidySides DEF Present
<1>6. Tidy(cluster') /\ Present(cluster') \subseteq Present(cluster)
  <2>1. Holds(cluster', EdgePods(b) \ D, CloudPods(b) \ D, [n \in EdgeNode |-> At(b, n) \ D])
    BY <1>2, <1>3, <1>4, <1>5, RemovedHolds
  <2> QED
    BY <1>4, <2>1 DEF Holds, Present
<1>7. newPods' \in SUBSET (Pod \ Present(cluster'))
  BY <1>2, <1>6
<1>8. stage' # "panic" /\ (stage' \in {"frame", "suggest"} => newPods' = {})
  BY <1>2
<1> QED
  BY <1>6, <1>7, <1>8 DEF SimulationInv

(* A decision is carried out.                                              *)
LEMMA DecideKeeps ==
  ASSUME SimulationInv, Decide
  PROVE  SimulationInv' /\ Kept
<1>1. Tidy(cluster) /\ newPods \in SUBSET (Pod \ Present(cluster))
  BY DEF SimulationInv
<1>2. PICK d \in MakeDecisionForNewPods(cluster, newPods, TRUE) : Apply(cluster, d, rounds)
  BY DEF Decide
<1>3. PICK result \in TestingApplyDecision(cluster, d) :
        /\ stage' = IF Panics(cluster, d, result) THEN "panic" ELSE AfterRound(rounds)
        /\ cluster' = IF Panics(cluster, d, result) THEN cluster ELSE result
  BY <1>2 DEF Apply
<1>4. Tidy(result) /\ Present(result) = Present(cluster) \cup newPods /\ ~Panics(cluster, d, result)
  BY <1>1, <1>2, <1>3, DecideHolds
<1>5. cluster' = result /\ stage' # "panic" /\ newPods' = {}
  BY <1>3, <1>4 DEF AfterRound, Decide
<1> QED
  BY <1>4, <1>5 DEF SimulationInv, Kept

(* A suggestion is carried out.                                            *)
LEMMA SuggestKeeps ==
  ASSUME SimulationInv, Suggest
  PROVE  SimulationInv' /\ Kept
<1>1. Tidy(cluster) /\ newPods = {} /\ newPods' = {}
  BY DEF SimulationInv, Suggest
<1>2. PICK s \in SuggestReorder(cluster) :
        IF s.cloudToEdge \subseteq Present(cluster)
        THEN Apply(Removed(cluster, s.cloudToEdge), s.decision, rounds')
        ELSE stage' = "panic" /\ UNCHANGED cluster
  BY DEF Suggest
<1>3. PICK b, d : b = Removed(cluster, s.cloudToEdge) /\ d = s.decision
  OBVIOUS
<1>4. /\ s.cloudToEdge \subseteq Present(cluster)
      /\ \A result \in TestingApplyDecision(b, d) :
           Tidy(result) /\ Present(result) = Present(cluster) /\ ~Panics(b, d, result)
  BY <1>1, <1>2, <1>3, SuggestHolds
<1>5. Apply(b, d, rounds')
  BY <1>2, <1>3, <1>4
<1>6. PICK result \in TestingApplyDecision(b, d) :
        /\ stage' = IF Panics(b, d, result) THEN "panic" ELSE AfterRound(rounds')
        /\ cluster' = IF Panics(b, d, result) THEN b ELSE result
  BY <1>5 DEF Apply
<1>7. cluster' = result /\ stage' # "panic"
  BY <1>4, <1>6 DEF AfterRound
<1> QED
  BY <1>1, <1>4, <1>7 DEF SimulationInv, Kept

(* The first-fit loop places a pod.                                        *)
LEMMA DefaultPlaceKeeps ==
  ASSUME SimulationInv, DefaultPlace
  PROVE  SimulationInv' /\ Kept
<1>1. Tidy(cluster) /\ newPods \in SUBSET (Pod \ Present(cluster))
  BY DEF SimulationInv
<1>2. PICK p \in newPods :
        /\ cluster' = IF FirstFit(p) = {} THEN DeployCloud(cluster, Obj(p), TheCloud)
                      ELSE DeployEdge(cluster, Obj(p), CHOOSE n \in FirstFit(p) : TRUE)
        /\ newPods' = newPods \ {p}
        /\ stage' = IF newPods = {p} THEN "frame" ELSE "default"
  BY DEF DefaultPlace
<1>3. p \in Pod \ Present(cluster)
  BY <1>1, <1>2
<1>4. Tidy(cluster') /\ Present(cluster') = Present(cluster) \cup {p}
  <2>1. CASE FirstFit(p) = {}
    <3>1. Holds(cluster', EdgePods(cluster), CloudPods(cluster) \cup {p}, [n \in EdgeNode |-> At(cluster, n)])
      BY <1>1, <1>2, <1>3, <2>1, CloudOne
    <3> QED
      BY <3>1 DEF Holds, Present
  <2>2. CASE FirstFit(p) # {}
    <3>1. PICK m \in FirstFit(p) : cluster' = DeployEdge(cluster, Obj(p), m)
      BY <1>2, <2>2
    <3>2. m \in EdgeNode /\ Fits(cluster, p, m)
      BY <1>3, <3>1, FirstFitFits
    <3>3. Holds(cluster', EdgePods(cluster) \cup {p}, CloudPods(cluster),
                [n \in EdgeNode |-> IF n = m THEN At(cluster, n) \cup {p} ELSE At(cluster, n)])
      BY <1>1, <1>3, <3>1, <3>2, EdgeOne
    <3> QED
      BY <3>3 DEF Holds, Present
  <2> QED
    BY <2>1, <2>2
<1>5. newPods' \in SUBSET (Pod \ Present(cluster'))
  BY <1>1, <1>2, <1>4
<1>6. stage' # "panic" /\ (stage' \in {"frame", "suggest"} => newPods' = {})
  BY <1>2
<1> QED
  BY <1>2, <1>4, <1>5, <1>6 DEF SimulationInv, Kept

(* The simulation begins with an empty cluster.                            *)
LEMMA SimulationBegins == Init => SimulationInv
  BY BeginsTidy DEF Init, SimulationInv

(* Every step keeps the invariant, and the pods unless it reads a frame.   *)
LEMMA SimulationKeeps ==
  ASSUME SimulationInv, [Next]_vars
  PROVE  SimulationInv' /\ (stage # "frame" => Kept)
<1>1. CASE ReadFrame
  BY <1>1, ReadFrameKeeps DEF ReadFrame
<1>2. CASE Decide
  BY <1>2, DecideKeeps
<1>3. CASE Suggest
  BY <1>3, SuggestKeeps
<1>4. CASE DefaultPlace
  BY <1>4, DefaultPlaceKeeps
<1>5. CASE UNCHANGED vars
  <2>1. cluster' = cluster /\ newPods' = newPods /\ stage' = stage
    BY <1>5 DEF vars
  <2> QED
    BY <2>1 DEF SimulationInv, Kept
<1> QED
  BY <1>1, <1>2, <1>3, <1>4, <1>5 DEF Next

(* The invariant, for every script, whatever pods and nodes there are.     *)
THEOREM SimulationIsTidy == Spec => []SimulationInv
<1>1. SimulationInv /\ [Next]_vars => SimulationInv'
  BY SimulationKeeps
<1> QED
  BY SimulationBegins, <1>1, PTL DEF Spec

(* The tools of sim and of alg's tests never panic: every decision removes *)
(* pods that are there, and every mapping, for migrations and for new pods,*)
(* respects what TestingApplyDecision's own moves have left of each node.  *)
THEOREM TheSimulatorNeverPanics == Spec => []NeverPanics
<1>1. SimulationInv => NeverPanics
  BY DEF SimulationInv, NeverPanics
<1> QED
  BY SimulationIsTidy, <1>1, PTL

(* No pod gets lost between two frames.                                    *)
THEOREM TheSimulatorForgetsNoPod == Spec => NoPodIsForgotten
<1>1. SimulationInv /\ [Next]_vars
        => [stage # "frame" => Present(cluster') \cup newPods' = Present(cluster) \cup newPods]_vars
  BY SimulationKeeps DEF Kept
<1> QED
  BY SimulationIsTidy, <1>1, PTL DEF Spec, NoPodIsForgotten

(* The beginning of a sequence.                                            *)
LEMMA BeginningIs ==
  ASSUME NEW S, NEW s \in Seq(S), NEW n \in Nat, n <= Len(s)
  PROVE  /\ SubSeq(s, 1, n) \in Seq(S) /\ DOMAIN SubSeq(s, 1, n) = 1..n
         /\ \A i \in 1..n : SubSeq(s, 1, n)[i] = s[i]
<1>1. SubSeq(s, 1, n) \in Seq(S) /\ Len(SubSeq(s, 1, n)) = n
  OBVIOUS
<1>2. \A i \in 1..n : SubSeq(s, 1, n)[i] = s[i]
  OBVIOUS
<1> QED
  BY <1>1, <1>2

(* Permutations enumerates the orders of a slice as the placement          *)
(* algorithms need them, in whatever state the simulation is.              *)
THEOREM TheOrdersAreEmittedOnce == Spec => []EveryOrderOnce
<1>1. ASSUME SimulationInv PROVE EveryOrderOnce
  <2>1. PICK S : S = Present(cluster) \cup newPods /\ S \in SUBSET Pod
    <3>1. Present(cluster) \in SUBSET Pod /\ newPods \in SUBSET Pod
      BY <1>1, TidySides DEF SimulationInv, Present
    <3> QED
      BY <3>1
  <2>2. PICK arr : arr = SetToSeq(S) /\ arr \in Seq(Pod) /\ IsInjective(arr)
    BY <2>1, SetToSeqType, SetToSeqOnce
  <2>3. PICK n : n = Min({Len(arr), 4}) /\ n \in Nat /\ n <= Len(arr)
    <3>1. Len(arr) \in Nat
      BY ONLY <2>2
    <3>2. PICK m : m = IF Len(arr) <= 4 THEN Len(arr) ELSE 4
      OBVIOUS
    <3>3. m \in {Len(arr), 4} /\ m <= Len(arr) /\ m <= 4 /\ m \in Nat
      BY ONLY <3>1, <3>2
    <3>4. \A x \in {Len(arr), 4} : (\A y \in {Len(arr), 4} : x <= y) => x = m
      BY ONLY <3>1, <3>3
    <3>5. Min({Len(arr), 4}) = m
      BY <3>1, <3>3, <3>4 DEF Min
    <3> QED
      BY <3>3, <3>5
  <2>4. PICK few : few = SubSeq(arr, 1, n) /\ few \in Seq(Pod) /\ IsInjective(few)
    <3>1. SubSeq(arr, 1, n) \in Seq(Pod)
      BY ONLY <2>2, <2>3, BeginningIs
    <3>2. DOMAIN SubSeq(arr, 1, n) = 1..n /\ \A i \in 1..n : SubSeq(arr, 1, n)[i] = arr[i]
      BY ONLY <2>2, <2>3, BeginningIs, ZenonT(30)
    <3>3. \A i \in 1..n : i \in DOMAIN arr
      BY ONLY <2>2, <2>3
    <3>4. IsInjective(SubSeq(arr, 1, n))
      BY <2>2, <3>2, <3>3, ZenonT(30) DEF IsInjective
    <3> QED
      BY <3>1, <3>4
  <2>5. few # <<>> => /\ ToSet(EveryOrder(few)) = SetToSeqs(ToSet(few))
                      /\ Len(EveryOrder(few)) = Cardinality(SetToSeqs(ToSet(few)))
    BY <2>4, EveryOrderIsEveryOrder
  <2> QED
    BY <2>1, <2>2, <2>3, <2>4, <2>5 DEF EveryOrderOnce
<1> QED
  BY SimulationIsTidy, <1>1, PTL

-----------------------------------------------------------------------------
(* The table and the mappings, as the properties state them.               *)

(* SumImage, with its function, its renaming and its set as parameters.    *)
Renames(f, g, h, S) ==
    /\ IsFiniteSet(S)
    /\ \A x \in S : f[x] \in Int /\ g[h[x]] = f[x]
    /\ \A x, y \in S : h[x] = h[y] => x = y

SameSum(f, g, h, S) == SumFunctionOnSet(g, {h[x] : x \in S}) = SumFunctionOnSet(f, S)

(* A sum does not depend on the names of what is summed.                   *)
LEMMA SumRenamed == \A f, g, h, S : Renames(f, g, h, S) => SameSum(f, g, h, S)
  BY SumImage DEF Renames, SameSum

(* The total that a property has is the worth of all the nodes.            *)
TotalAt(rem, f) ==
    [n \in EdgeNode |-> CalcDeFragmentation(Filled(rem, n, TotalSize({p \in DOMAIN f : f[p] = n})), Resources[n])]

TotalOverStep(rem, f, g) ==
    [s \in SUBSET EdgeNode |->
        IF s = {} THEN 0
        ELSE CalcDeFragmentation(Filled(rem, Pick(s), TotalSize({p \in DOMAIN f : f[p] = Pick(s)})), Resources[Pick(s)])
             + g[s \ {Pick(s)}]]

TotalOver(rem, f) == CHOOSE g : g = TotalOverStep(rem, f, g)

(* The fold over the nodes is the sum over their places in the list.       *)
LEMMA TotalIs ==
  ASSUME NEW rem \in Remainders, Bounded(rem), NEW f, DOMAIN f \subseteq Pod
  PROVE  Total(rem, f) = AllWorth(rem, f)
<1>1. Total(rem, f) = TotalOver(rem, f)[EdgeNode]
  BY DEF Total, MapThenSumSet, MapThenFoldSet, TotalOver, TotalOverStep, Pick
<1>2. PICK u : u = TotalAt(rem, f)
  OBVIOUS
<1>3. IsFiniteSet(EdgeNode)
  BY NodesAreListed
<1>4. ASSUME NEW g
      PROVE  TotalOverStep(rem, f, g) = SumStep(u, EdgeNode, g)
  <2>1. \A s \in SUBSET EdgeNode : s # {} =>
          CalcDeFragmentation(Filled(rem, Pick(s), TotalSize({p \in DOMAIN f : f[p] = Pick(s)})), Resources[Pick(s)]) = u[Pick(s)]
    BY <1>2, PickIsElement DEF TotalAt
  <2> QED
    BY <2>1 DEF TotalOverStep, SumStep
<1>5. PICK h : Solves(u, EdgeNode, h)
  BY <1>3, PartialSolves
<1>6. h = TotalOverStep(rem, f, h)
  BY <1>4, <1>5 DEF Solves
<1>7. PICK k : k = TotalOver(rem, f) /\ k = TotalOverStep(rem, f, k)
  BY <1>6 DEF TotalOver
<1>8. Solves(u, EdgeNode, k)
  BY <1>4, <1>7 DEF Solves
<1>9. k[EdgeNode] = SumFunctionOnSet(u, EdgeNode)
  BY <1>3, <1>8, AnySolution
<1>10. PICK m, w : m = Len(Nodes) /\ m \in Nat /\ w = Uses(rem, f)
  BY NodesAre
<1>11. \A i \in 1..m : w[i] \in Int /\ u[Nodes[i]] = w[i]
  <2>1. \A i \in 1..m : w[i] \in Int
    BY <1>10, WorthType
  <2>2. \A i \in 1..m : Nodes[i] \in EdgeNode
    BY <1>10, NodesAre
  <2>3. \A i \in 1..m : u[Nodes[i]] = w[i]
    BY <1>2, <1>10, <2>2 DEF TotalAt, Uses, Use, Sent
  <2> QED
    BY <2>1, <2>3
<1>12. {Nodes[i] : i \in 1..m} = EdgeNode
  <2>1. \A i \in 1..m : Nodes[i] \in EdgeNode
    BY <1>10, NodesAre
  <2>2. \A n \in EdgeNode : \E i \in 1..m : Nodes[i] = n
    BY <1>10, IndexIs
  <2> QED
    BY <2>1, <2>2
<1>13. SumFunctionOnSet(u, {Nodes[i] : i \in 1..m}) = SumFunctionOnSet(w, 1..m)
  <2>1. \A i, j \in 1..m : Nodes[i] = Nodes[j] => i = j
    BY <1>10, NodesAre
  <2>2. IsFiniteSet(1..m)
    BY <1>10, CountUpTo
  <2>3. Renames(w, u, Nodes, 1..m)
    BY ONLY <1>11, <2>1, <2>2 DEF Renames
  <2>4. SameSum(w, u, Nodes, 1..m)
    BY ONLY <2>3, SumRenamed, Zenon
  <2> QED
    BY ONLY <2>4 DEF SameSum
<1> QED
  BY <1>1, <1>7, <1>9, <1>10, <1>12, <1>13 DEF AllWorth, Worth

(* Room for a mapping, once more.                                          *)
LEMMA HasRoomIs ==
  ASSUME NEW rem, NEW f
  PROVE  HasRoom(rem, f) <=> HasRoomFor(rem, f)
  BY DEF HasRoom, HasRoomFor, LEThan, Sent

(* What remains of a tidy cluster is not more than its nodes have.         *)
LEMMA TidyBounds ==
  ASSUME NEW c, Tidy(c)
  PROVE  c \in ClusterStates /\ RemainingOf(c) \in Remainders /\ Bounded(RemainingOf(c))
<1>1. c \in ClusterStates
  BY DEF Tidy
<1>2. ASSUME NEW n \in EdgeNode, NEW r \in Resource
      PROVE  0 <= RemainingOf(c)[n][r] /\ RemainingOf(c)[n][r] <= Resources[n][r]
  <2>1. PICK a, b : a = Resources[n][r] /\ b = TotalSize(At(c, n))[r]
    OBVIOUS
  <2>2. a \in Nat /\ b \in Nat /\ b <= a /\ RemainingOf(c)[n][r] = a - b
    BY <2>1, TidyRemaining DEF RemainingOf
  <2> QED
    BY <2>1, <2>2
<1> QED
  BY <1>1, <1>2, RemainingType DEF Bounded

(* The table of FitInEdge is optimal in every state at rest.               *)
THEOREM TheTableIsAlwaysOptimal == Spec => []TheTableIsOptimal
<1>1. ASSUME SimulationInv PROVE TheTableIsOptimal
  <2>1. PICK rem : rem = RemainingOf(cluster) /\ rem \in Remainders /\ Bounded(rem)
    BY <1>1, TidyBounds DEF SimulationInv
  <2>2. ASSUME NEW N \in Batches
        PROVE  FitInEdge(SetToSeq(N), rem).value =
                 Max({-1} \cup {Total(rem, f) : f \in
                    {f \in [ToSet(SetToSeq(N)) -> EdgeNode] :
                       /\ \A i, j \in DOMAIN SetToSeq(N) :
                            i <= j => Index(f[SetToSeq(N)[i]]) <= Index(f[SetToSeq(N)[j]])
                       /\ HasRoom(rem, f)}})
    <3>1. N \in SUBSET Pod
      BY DEF Batches
    <3>2. PICK q : q = SetToSeq(N) /\ q \in Seq(Pod) /\ IsInjective(q) /\ ToSet(q) = N
      BY <3>1, SetToSeqType, SetToSeqOnce
    <3>3. PICK l : l = Len(q) /\ l \in Nat /\ DOMAIN q = 1..l
      BY ONLY <3>2
    <3>4. PICK C : C = {f \in [ToSet(q) -> EdgeNode] :
                          /\ \A i, j \in DOMAIN q : i <= j => Index(f[q[i]]) <= Index(f[q[j]])
                          /\ HasRoom(rem, f)}
      OBVIOUS
    <3>5. C = AllParts(q, rem, l)
      <4>1. Segment(q, 0, l) = ToSet(q)
        BY <3>2, <3>3, SegmentEnds
      <4>2. NodesOf(1..Len(Nodes)) = EdgeNode
        BY AllNodes
      <4>3. AllParts(q, rem, l) = {f \in [ToSet(q) -> EdgeNode] :
                          /\ \A i, j \in 1..l : i <= j => Index(f[q[i]]) <= Index(f[q[j]])
                          /\ HasRoomFor(rem, f)}
        BY <4>1, <4>2 DEF AllParts, Partitions
      <4> QED
        BY <3>3, <3>4, <4>3, HasRoomIs
    <3>6. PICK v, m : v = FitInEdge(q, rem).value /\ BestCell(q, rem, 1..Len(Nodes), l, [value |-> v, mapping |-> m])
      BY <2>1, <3>2, <3>3, FitInEdgeIsOptimal
    <3>7. /\ v \in Int /\ v >= -1
          /\ v >= 0 => m \in C /\ v = AllWorth(rem, m)
          /\ \A f \in C : AllWorth(rem, f) <= v
      <4>1. v \in Int
        <5>1. NoDebts(rem)
          BY <2>1 DEF Bounded, NoDebts
        <5> QED
          BY <2>1, <3>2, <3>6, <5>1, FitInEdgeFits
      <4> QED
        BY <3>5, <3>6, <4>1 DEF BestCell, AllParts, AllWorth
    <3>8. \A f \in C : Total(rem, f) = AllWorth(rem, f) /\ AllWorth(rem, f) \in Nat
      <4>1. ASSUME NEW f \in C PROVE Total(rem, f) = AllWorth(rem, f) /\ AllWorth(rem, f) \in Nat
        <5>1. DOMAIN f \subseteq Pod
          BY <3>1, <3>2, <3>4
        <5>2. 1..Len(Nodes) \in SUBSET (1..Len(Nodes))
          OBVIOUS
        <5> QED
          BY <2>1, <5>1, <5>2, TotalIs, WorthType DEF AllWorth
      <4> QED
        BY <4>1
    <3>9. PICK S : S = {-1} \cup {Total(rem, f) : f \in C}
      OBVIOUS
    <3>10. \A y \in S : y \in Int /\ y <= v
      BY <3>7, <3>8, <3>9
    <3>11. v \in S
      <4>1. CASE v >= 0
        BY <3>7, <3>8, <3>9, <4>1
      <4>2. CASE ~(v >= 0)
        BY <3>7, <3>9, <4>2
      <4> QED
        BY <4>1, <4>2
    <3>12. Max(S) = v
      <4>1. \A x \in S : (\A y \in S : x >= y) => x = v
        BY ONLY <3>7, <3>10, <3>11
      <4>2. \A y \in S : v >= y
        BY ONLY <3>7, <3>10
      <4> QED
        BY <3>11, <4>1, <4>2 DEF Max
    <3> QED
      BY <3>2, <3>4, <3>6, <3>9, <3>12
  <2> QED
    BY <2>1, <2>2 DEF TheTableIsOptimal, Index
<1> QED
  BY SimulationIsTidy, <1>1, PTL

-----------------------------------------------------------------------------
(* The same mappings by index, as Placement has them, and by pod.          *)

Objects(q) == [i \in DOMAIN q |-> Obj(q[i])]

(* The h of indices has the nodes of the f of pods.                        *)
SameMapping(q, h, f) ==
    /\ h \in UNION {[T -> EdgeNode] : T \in SUBSET DOMAIN q}
    /\ f \in MapsOf(ToSet(q))
    /\ DOMAIN f = {q[i] : i \in DOMAIN h}
    /\ \A i \in DOMAIN h : h[i] = f[q[i]]

(* What the objects of a list need is the total of their pods' sizes.      *)
LEMMA NeedIs ==
  ASSUME NEW q \in Seq(Pod), IsInjective(q), NEW I \in SUBSET DOMAIN q, NEW r \in Resource,
         NEW S, S = {q[i] : i \in I}
  PROVE  Need(Objects(q), I, r) = TotalSize(S)[r]
<1>1. PICK l : l = Len(q) /\ l \in Nat /\ DOMAIN q = 1..l
  OBVIOUS
<1>2. \A i \in I : q[i] \in Pod
  BY <1>1
<1>3. PICK w : w = [i \in I |-> ResourcesRequired[Dep(Objects(q)[i])][r]]
  OBVIOUS
<1>4. \A i \in I : w[i] \in Int /\ SizeOf(r)[q[i]] = w[i]
  <2>1. ASSUME NEW i \in I PROVE w[i] \in Int /\ SizeOf(r)[q[i]] = w[i]
    <3>1. PICK p : p = q[i] /\ p \in Pod /\ Objects(q)[i] = Obj(p)
      BY <1>2 DEF Objects
    <3>2. Dep(Obj(p)) = DeploymentOf[p]
      BY <3>1, ObjType
    <3>3. w[i] = Size(p)[r]
      BY <1>3, <3>1, <3>2 DEF Size
    <3> QED
      BY <3>1, <3>3, SizeType DEF SizeOf
  <2> QED
    BY <2>1
<1>5. \A i, j \in I : q[i] = q[j] => i = j
  BY DEF IsInjective
<1>6. IsFiniteSet(I)
  BY <1>1, CountUpTo, FS_Subset
<1>7. Renames(w, SizeOf(r), q, I)
  BY ONLY <1>4, <1>5, <1>6 DEF Renames
<1>8. SameSum(w, SizeOf(r), q, I)
  BY ONLY <1>7, SumRenamed, Zenon
<1>9. SumFunctionOnSet(SizeOf(r), S) = SumFunctionOnSet(w, I)
  BY <1>8 DEF SameSum
<1>10. TotalSize(S)[r] = SumFunctionOnSet(SizeOf(r), S)
  BY <1>2, TotalSizeIs
<1>11. Need(Objects(q), I, r) = SumFunctionOnSet(w, I)
  BY <1>3 DEF Need
<1> QED
  BY <1>9, <1>10, <1>11

(* The one respects the nodes if the other has room on them.               *)
LEMMA RespectIsRoom ==
  ASSUME NEW q \in Seq(Pod), IsInjective(q), NEW rem, NEW h, NEW f, SameMapping(q, h, f)
  PROVE  Respects(rem, Objects(q), h) <=> HasRoomFor(rem, f)
<1>1. ASSUME NEW n \in EdgeNode, NEW r \in Resource
      PROVE  Need(Objects(q), {i \in DOMAIN h : h[i] = n}, r) = TotalSize(Sent(f, n))[r]
  <2>1. PICK I, S : I = {i \in DOMAIN h : h[i] = n} /\ S = {q[i] : i \in I}
    OBVIOUS
  <2>2. I \in SUBSET DOMAIN q
    BY <2>1 DEF SameMapping
  <2>3. S = Sent(f, n)
    BY <2>1 DEF SameMapping, Sent
  <2>4. Need(Objects(q), I, r) = TotalSize(S)[r]
    BY <2>1, <2>2, NeedIs
  <2> QED
    BY <2>1, <2>3, <2>4
<1> QED
  BY <1>1 DEF Respects, HasRoomFor

(* And both map as many.                                                   *)
LEMMA SameMappingSize ==
  ASSUME NEW q \in Seq(Pod), IsInjective(q), NEW h, NEW f, SameMapping(q, h, f)
  PROVE  Cardinality(DOMAIN h) = Cardinality(DOMAIN f)
<1>1. PICK I, S : I = DOMAIN h /\ S = DOMAIN f /\ S = {q[i] : i \in I} /\ I \in SUBSET DOMAIN q
  BY DEF SameMapping
<1>2. PICK l : l = Len(q) /\ l \in Nat /\ DOMAIN q = 1..l
  OBVIOUS
<1>3. IsFiniteSet(I)
  BY <1>1, <1>2, CountUpTo, FS_Subset
<1>4. PICK u : u = [i \in I |-> q[i]]
  OBVIOUS
<1>5. u \in [I -> S] /\ (\A p \in S : \E i \in I : u[i] = p)
  BY <1>1, <1>4
<1>6. IsInjective(u)
  BY <1>1, <1>4 DEF IsInjective
<1>7. u \in Bijection(I, S)
  BY <1>5, <1>6 DEF Bijection, Injection, Surjection
<1> QED
  BY <1>1, <1>3, <1>7, FS_Bijection DEF ExistsBijection

(* MapPodToEdge's mappings are Placement's EdgeMappings, and the best that *)
(* there are for a batch that the edge has room for.                       *)
THEOREM TheMappingsAreAlwaysCovered == Spec => []MappingsAreCovered
<1>1. ASSUME SimulationInv PROVE MappingsAreCovered
  <2>1. PICK rem : rem = RemainingOf(cluster) /\ rem \in Remainders /\ Bounded(rem)
    BY <1>1, TidyBounds DEF SimulationInv
  <2>2. cluster \in ClusterStates /\ WithinResources(cluster)
    BY <1>1 DEF SimulationInv, Tidy
  <2>3. ASSUME NEW N \in Batches, NEW f \in MapPodToEdge(cluster, N, {}, <<>>)
        PROVE  /\ [i \in {i \in DOMAIN SetToSeq(N) : SetToSeq(N)[i] \in DOMAIN f} |-> f[SetToSeq(N)[i]]]
                    \in EdgeMappings(rem, [i \in DOMAIN SetToSeq(N) |-> Obj(SetToSeq(N)[i])], DOMAIN SetToSeq(N))
               /\ DOMAIN f = N => \A g \in {h \in [N -> EdgeNode] : HasRoom(rem, h)} : Total(rem, g) <= Total(rem, f)
    <3>1. N \in SUBSET Pod /\ N # {}
      BY FS_EmptySet DEF Batches
    <3>2. PICK q : q = SetToSeq(N) /\ q \in Seq(Pod) /\ IsInjective(q) /\ ToSet(q) = N
      BY <3>1, SetToSeqType, SetToSeqOnce
    <3>3. f \in MapsOf(N) /\ HasRoomFor(rem, f)
      BY <2>1, <2>2, <3>1, MapPodToEdgeFits
    <3>4. DOMAIN f \in SUBSET N /\ f \in [DOMAIN f -> EdgeNode]
      BY <3>3 DEF MapsOf
    <3>5. \A T \in SUBSET N : \A g \in [T -> EdgeNode] :
              HasRoomFor(rem, g) => Cardinality(T) <= Cardinality(DOMAIN f)
      BY <2>1, <2>2, <3>1, MappingsAreBest
    <3>6. DOMAIN f = N => \A g \in [N -> EdgeNode] :
              HasRoomFor(rem, g) => AllWorth(rem, g) <= AllWorth(rem, f)
      BY <2>1, <2>2, <3>1, MappingsAreBest
    <3>7. PICK h : h = [i \in {i \in DOMAIN q : q[i] \in DOMAIN f} |-> f[q[i]]]
      OBVIOUS
    <3>8. SameMapping(q, h, f)
      <4>1. h \in UNION {[T -> EdgeNode] : T \in SUBSET DOMAIN q}
        <5>1. DOMAIN h = {i \in DOMAIN q : q[i] \in DOMAIN f}
          BY ONLY <3>7
        <5>2. DOMAIN h \in SUBSET DOMAIN q
          BY ONLY <5>1
        <5>3. \A i \in DOMAIN h : h[i] \in EdgeNode
          BY ONLY <3>4, <3>7, <5>1
        <5>4. h \in [DOMAIN h -> EdgeNode]
          BY ONLY <3>7, <5>1, <5>3
        <5> QED
          BY ONLY <5>2, <5>4
      <4>2. DOMAIN f = {q[i] : i \in DOMAIN h}
        <5>1. DOMAIN h = {i \in DOMAIN q : q[i] \in DOMAIN f}
          BY <3>7
        <5>2. \A p \in N : \E i \in DOMAIN q : q[i] = p
          BY <3>2 DEF ToSet
        <5>3. \A p \in DOMAIN f : \E i \in DOMAIN h : q[i] = p
          BY ONLY <3>4, <5>1, <5>2
        <5> QED
          BY ONLY <5>1, <5>3
      <4> QED
        BY <3>2, <3>3, <3>7, <4>1, <4>2 DEF SameMapping
    <3>9. h \in Assignments(rem, Objects(q), DOMAIN q)
      BY <3>2, <3>3, <3>8, RespectIsRoom DEF Assignments, SameMapping
    <3>10. ASSUME NEW g \in Assignments(rem, Objects(q), DOMAIN q)
           PROVE  Cardinality(DOMAIN g) <= Cardinality(DOMAIN h)
      <4>1. PICK T : T = {q[i] : i \in DOMAIN g}
        OBVIOUS
      <4>2. g \in UNION {[U -> EdgeNode] : U \in SUBSET DOMAIN q} /\ Respects(rem, Objects(q), g)
        BY DEF Assignments
      <4>3. T \in SUBSET N
        BY <3>2, <4>1, <4>2 DEF ToSet
      <4>4. PICK e : e = [p \in T |-> g[CHOOSE i \in DOMAIN g : q[i] = p]]
        OBVIOUS
      <4>5. \A i \in DOMAIN g : g[i] = e[q[i]]
        BY <3>2, <4>1, <4>2, <4>4 DEF IsInjective
      <4>6. e \in [T -> EdgeNode]
        BY <4>1, <4>2, <4>4, <4>5
      <4>7. SameMapping(q, g, e)
        BY <3>2, <4>1, <4>2, <4>3, <4>5, <4>6 DEF SameMapping, MapsOf
      <4>8. HasRoomFor(rem, e)
        BY <3>2, <4>2, <4>7, RespectIsRoom
      <4>9. Cardinality(T) <= Cardinality(DOMAIN f)
        BY <3>5, <4>3, <4>6, <4>8
      <4>10. Cardinality(DOMAIN g) = Cardinality(T)
        BY <3>2, <4>6, <4>7, SameMappingSize
      <4>11. Cardinality(DOMAIN h) = Cardinality(DOMAIN f)
        BY <3>2, <3>8, SameMappingSize
      <4> QED
        BY <4>9, <4>10, <4>11
    <3>11. h \in EdgeMappings(rem, Objects(q), DOMAIN q)
      BY <3>9, <3>10 DEF EdgeMappings
    <3>12. ASSUME DOMAIN f = N, NEW g \in [N -> EdgeNode], HasRoom(rem, g)
           PROVE  Total(rem, g) <= Total(rem, f)
      <4>1. HasRoomFor(rem, g)
        BY <3>12, HasRoomIs
      <4>2. AllWorth(rem, g) <= AllWorth(rem, f)
        BY <3>6, <3>12, <4>1
      <4>3. Total(rem, g) = AllWorth(rem, g) /\ Total(rem, f) = AllWorth(rem, f)
        BY <2>1, <3>1, <3>12, TotalIs
      <4> QED
        BY <4>2, <4>3
    <3> QED
      BY <3>2, <3>7, <3>11, <3>12 DEF Objects
  <2> QED
    BY <2>1, <2>3 DEF MappingsAreCovered
<1> QED
  BY SimulationIsTidy, <1>1, PTL

-----------------------------------------------------------------------------
(* The decision has the best quality of service, so no pod stays on the    *)
(* cloud that the edge as a whole has room for too.                        *)

(* More pods on the edge score more.                                       *)
LEMMA MorePodsScoreMore ==
  ASSUME NEW all \in SUBSET Pod, NEW more \in SUBSET all, NEW edge \in SUBSET more, edge # more
  PROVE  QualitiesSum(all, edge) < QualitiesSum(all, more)
<1>1. PICK f, g, L : f = QualityOf(all, edge) /\ g = QualityOf(all, more) /\ L = Labels(all)
  OBVIOUS
<1>2. edge \in SUBSET all
  OBVIOUS
<1>3. IsFiniteSet(L) /\ L \subseteq Deployment /\ \A d \in L : f[d] \in Int
  BY <1>1, <1>2, QualitiesAre
<1>4. \A d \in L : g[d] \in Int
  BY <1>1, QualitiesAre
<1>5. ASSUME NEW d \in L
      PROVE  /\ f[d] <= g[d]
             /\ (\E p \in more \ edge : DeploymentOf[p] = d) => f[d] < g[d]
  <2>1. PICK n, e, k : n = CountIn(all, d) /\ e = CountIn(edge, d) /\ k = CountIn(more, d)
    OBVIOUS
  <2>2. n \in 1..Cardinality(Pod) /\ e \in 0..n
    BY <1>1, <1>2, <2>1, CountsAre
  <2>3. k \in 0..n /\ d \in Deployment
    BY <1>1, <2>1, CountsAre
  <2>4. f[d] = QoS[d][n][e] /\ g[d] = QoS[d][n][k]
    BY <1>1, <2>1, <2>3 DEF QualityOf
  <2>5. PICK A, B : A = {p \in edge : DeploymentOf[p] = d} /\ B = {p \in more : DeploymentOf[p] = d}
    OBVIOUS
  <2>6. e = Cardinality(A) /\ k = Cardinality(B)
    BY <2>1, <2>5 DEF CountIn
  <2>7. A \in SUBSET B /\ IsFiniteSet(B)
    BY <2>5, PodsFinite
  <2>8. e <= k /\ (k = e => B = A)
    BY <2>6, <2>7, FS_Subset
  <2>9. e \in Int /\ k \in Int
    <3>1. Cardinality(A) \in Nat /\ Cardinality(B) \in Nat
      BY <2>7, FS_CardinalityType, FS_Subset
    <3> QED
      BY <2>6, <3>1
  <2>10. e < k => f[d] < g[d]
    BY <2>2, <2>3, <2>4, QualityGrows
  <2>11. e = k => f[d] = g[d]
    BY <2>4
  <2>12. (\E p \in more \ edge : DeploymentOf[p] = d) => e # k
    BY <2>5, <2>8
  <2>13. f[d] \in Int /\ g[d] \in Int
    BY <1>3, <1>4
  <2> QED
    BY ONLY <2>8, <2>9, <2>10, <2>11, <2>12, <2>13
<1>6. PICK d \in L : f[d] < g[d]
  <2>1. PICK p \in more : p \notin edge
    OBVIOUS
  <2>2. DeploymentOf[p] \in L
    BY <1>1 DEF Labels
  <2> QED
    BY <1>5, <2>1, <2>2
<1>7. SumFunctionOnSet(f, L) < SumFunctionOnSet(g, L)
  BY <1>3, <1>4, <1>5, <1>6, SumStrict
<1> QED
  BY <1>1, <1>7 DEF QualitiesSum

(* So does a decision that sends more pods there.                          *)
LEMMA ScoreGrows ==
  ASSUME NEW c, NEW new \in SUBSET (Pod \ EdgePods(c)),
         NEW G \in SUBSET new, NEW E \in SUBSET G, E # G
  PROVE  ScoreOf(c, new, E, {}) < ScoreOf(c, new, G, {})
<1>1. PICK C, D : C = CloudPods(c) /\ D = EdgePods(c) /\ C \in SUBSET Pod /\ D \in SUBSET Pod
  BY ZenonT(30) DEF CloudPods, EdgePods
<1>2. PICK X, Y : X = new \ E /\ Y = new \ G
  OBVIOUS
<1>3. X \in SUBSET Pod /\ Y \in SUBSET Pod /\ E \in SUBSET Pod /\ G \in SUBSET Pod
  BY <1>2
<1>4. PICK all : all = Listed(C, D, X, E) /\ all = Listed(C, D, Y, G)
  BY <1>2 DEF Listed
<1>5. PICK e, m : e = StayOnEdge(D, X, E) /\ m = StayOnEdge(D, Y, G)
  OBVIOUS
<1>6. e = D \cup E /\ m = D \cup G
  BY <1>1, <1>2, <1>5 DEF StayOnEdge
<1>7. all \in SUBSET Pod /\ m \in SUBSET all /\ e \in SUBSET m /\ e # m
  BY <1>1, <1>2, <1>3, <1>4, <1>6 DEF Listed
<1>8. QualitiesSum(all, e) < QualitiesSum(all, m)
  BY <1>7, MorePodsScoreMore
<1>9. ScoreOf(c, new, E, {}) = QualitiesSum(all, e)
  <2>1. {} \cup (new \ E) = X
    BY <1>2
  <2>2. ScoreOf(c, new, E, {}) = CalcNumberOfQosSatisfactions(C, D, X, E).score
    BY <1>1, <2>1 DEF ScoreOf
  <2>3. CalcNumberOfQosSatisfactions(C, D, X, E).score = QualitiesSum(Listed(C, D, X, E), StayOnEdge(D, X, E))
    BY ONLY <1>1, <1>3, ScoreIs
  <2> QED
    BY <1>4, <1>5, <2>2, <2>3
<1>10. ScoreOf(c, new, G, {}) = QualitiesSum(all, m)
  <2>1. {} \cup (new \ G) = Y
    BY <1>2
  <2>2. ScoreOf(c, new, G, {}) = CalcNumberOfQosSatisfactions(C, D, Y, G).score
    BY <1>1, <2>1 DEF ScoreOf
  <2>3. CalcNumberOfQosSatisfactions(C, D, Y, G).score = QualitiesSum(Listed(C, D, Y, G), StayOnEdge(D, Y, G))
    BY ONLY <1>1, <1>3, ScoreIs
  <2> QED
    BY <1>4, <1>5, <2>2, <2>3
<1> QED
  BY <1>8, <1>9, <1>10

(* The masks with outcomes, and none of them frees a pod.                  *)
MasksAre(c, new, canMigrate, S) ==
    /\ {} \in S
    /\ \A E \in S : E \in SUBSET new /\ Outcomes(c, E, canMigrate) # {}
    /\ \A E \in SUBSET new : \A o \in Outcomes(c, E, canMigrate) : E \in S /\ o.freed = {}

(* Where no outcome frees a pod, the decision is for a mask that no other  *)
(* one with an outcome contains.                                           *)
LEMMA BestMask ==
  ASSUME NEW c \in ClusterStates, WithinResources(c), EdgePods(c) \cap CloudPods(c) = {},
         NEW new \in SUBSET (Pod \ EdgePods(c)), NEW canMigrate \in BOOLEAN,
         NEW S, MasksAre(c, new, canMigrate, S),
         NEW d \in MakeDecisionForNewPods(c, new, canMigrate)
  PROVE  \E E \in S : /\ \E o \in Outcomes(c, E, canMigrate) : d = DecisionOf(new, E, o)
                      /\ \A G \in S : E \subseteq G => G = E
<1> /\ {} \in S
    /\ \A E \in S : E \in SUBSET new /\ Outcomes(c, E, canMigrate) # {}
    /\ \A E \in SUBSET new : \A o \in Outcomes(c, E, canMigrate) : E \in S /\ o.freed = {}
  BY DEF MasksAre
<1>1. PICK results : results = UNION {Scored(c, new, canMigrate, E) : E \in SUBSET new}
  OBVIOUS
<1>2. PICK score : score = [E \in SUBSET new |-> ScoreOf(c, new, E, {})]
  OBVIOUS
<1>3. \A E \in S : E \in SUBSET new /\ score[E] \in Int
  <2>1. ASSUME NEW E \in S PROVE E \in SUBSET new /\ score[E] \in Int
    <3>1. ScoreOf(c, new, E, {}) \in Int
      BY ScoreType DEF ScoreOf, EdgePods, CloudPods
    <3> QED
      BY <1>2, <3>1
  <2> QED
    BY <2>1
<1>4. ASSUME NEW x \in results
      PROVE  \E E \in S : \E o \in Outcomes(c, E, canMigrate) :
               x.decision = DecisionOf(new, E, o) /\ x.value = score[E]
  <2>1. PICK E \in SUBSET new : x \in Scored(c, new, canMigrate, E)
    BY <1>1
  <2>2. PICK o \in Outcomes(c, E, canMigrate) :
          x.decision = DecisionOf(new, E, o) /\ x.value = ScoreOf(c, new, E, o.freed)
    BY <2>1, ScoredIs
  <2>3. E \in S /\ o.freed = {}
    OBVIOUS
  <2> QED
    BY <1>2, <2>2, <2>3
<1>5. ASSUME NEW E \in S
      PROVE  \E x \in results : x.value = score[E]
  <2>1. PICK o \in Outcomes(c, E, canMigrate) : o.freed = {}
    OBVIOUS
  <2>2. E \in SUBSET new
    OBVIOUS
  <2>3. \A p \in Outcomes(c, E, canMigrate) : \E x \in Scored(c, new, canMigrate, E) :
              x.decision = DecisionOf(new, E, p) /\ x.value = ScoreOf(c, new, E, p.freed)
    BY <2>2, ScoredIs
  <2>4. PICK x \in Scored(c, new, canMigrate, E) : x.value = ScoreOf(c, new, E, o.freed)
    BY <2>3
  <2> QED
    BY <1>1, <1>2, <2>1, <2>2, <2>4
<1>6. HighestValue(results) # {}
  <2>1. IsFiniteSet(S)
    <3>1. IsFiniteSet(SUBSET Pod)
      BY PodsAreFinite, FS_SUBSET
    <3>2. S \in SUBSET SUBSET Pod
      BY <1>3
    <3> QED
      BY <3>1, <3>2, FS_Subset
  <2>2. S # {}
    OBVIOUS
  <2>3. \E E \in S : \A G \in S : score[G] <= score[E]
    BY ONLY <1>3, <2>1, <2>2, BestOf
  <2>4. PICK E \in S : \A G \in S : score[G] <= score[E]
    BY <2>3
  <2>5. PICK x \in results : x.value = score[E]
    BY <1>5
  <2>6. \A y \in results : y.value <= x.value
    BY <1>4, <2>4, <2>5
  <2> QED
    BY <2>6 DEF HighestValue
<1>7. PICK x \in results : d = x.decision /\ \A y \in results : y.value <= x.value
  <2>1. d \in OrElse({s.decision : s \in HighestValue(results)}, NoDecision)
    BY <1>1 DEF MakeDecisionForNewPods, Masks
  <2>2. PICK s : s \in HighestValue(results) /\ d = s.decision
    BY <1>6, <2>1 DEF OrElse
  <2> QED
    BY <2>2 DEF HighestValue
<1>8. PICK E : /\ E \in S /\ x.value = score[E]
               /\ \E o \in Outcomes(c, E, canMigrate) : d = DecisionOf(new, E, o)
  BY <1>4, <1>7
<1>9. ASSUME NEW G \in S, E \subseteq G, G # E
      PROVE  FALSE
  <2>1. score[E] < score[G]
    BY <1>2, <1>3, <1>8, <1>9, ScoreGrows
  <2>2. PICK y \in results : y.value = score[G]
    BY <1>5
  <2>3. score[G] <= score[E]
    BY <1>7, <1>8, <2>2
  <2> QED
    BY <1>3, <1>8, <2>1, <2>3
<1> QED
  BY <1>8, <1>9

(* Indices fit the edge together if their pods do.                         *)
LEMMA FitTogetherIs ==
  ASSUME NEW c, NEW q \in Seq(Pod), IsInjective(q), NEW I \in SUBSET DOMAIN q, NEW S, S = {q[i] : i \in I}
  PROVE  FitTogether(c, Objects(q), I) <=> LEThan(TotalSize(S), EdgeFree(c))
<1>1. PICK l : l = Len(q) /\ l \in Nat /\ DOMAIN q = 1..l
  OBVIOUS
<1>2. \A i \in DOMAIN q : Id(Objects(q)[i]) = q[i] /\ DOMAIN Objects(q) = DOMAIN q
  BY ObjType DEF Objects
<1>3. SameSide(Objects(q), I)
  BY <1>2 DEF SameSide, IsInjective, Objects
<1>4. \A r \in Resource : Need(Objects(q), I, r) = TotalSize(S)[r]
  BY NeedIs
<1>5. \A r \in Resource : EdgeFree(c)[r] = EdgeRemaining(c, r)
  BY EdgeFreeIs
<1> QED
  BY <1>3, <1>4, <1>5 DEF FitTogether, LEThan

(* No pod fits the edge if no pod is there.                                *)
LEMMA NothingFits ==
  ASSUME NEW c \in ClusterStates, WithinResources(c)
  PROVE  LEThan(TotalSize({}), EdgeFree(c))
<1>1. \A r \in Resource : TotalSize({})[r] = 0
  BY TotalEmpty
<1>2. \A r \in Resource : EdgeFree(c)[r] \in Nat
  BY EdgeFreeType
<1> QED
  BY <1>1, <1>2 DEF LEThan

(* A decision that must not migrate.                                       *)
LEMMA StillDecision ==
  ASSUME NEW c \in ClusterStates, WithinResources(c), EdgePods(c) \cap CloudPods(c) = {},
         NEW new \in SUBSET (Pod \ EdgePods(c)), NEW d \in MakeDecisionForNewPods(c, new, FALSE)
  PROVE  /\ d.freed = {} /\ d.migrations = <<>> /\ d.toCloud = new \ d.toEdge
         /\ d.toEdge \in SUBSET new /\ LEThan(TotalSize(d.toEdge), EdgeFree(c))
         /\ \A G \in SUBSET new : LEThan(TotalSize(G), EdgeFree(c)) /\ d.toEdge \subseteq G => G = d.toEdge
<1>1. PICK S : S = {E \in SUBSET new : LEThan(TotalSize(E), EdgeFree(c))}
  OBVIOUS
<1>2. {} \in S
  BY <1>1, NothingFits
<1>3. PICK still : still = [freed |-> {}, migrations |-> <<>>]
  OBVIOUS
<1>4. PICK no : no = FALSE /\ no \in BOOLEAN
  OBVIOUS
<1>5. still.freed = {} /\ still.migrations = <<>>
  BY <1>3
<1>6. \A E \in S : E \in SUBSET new /\ Outcomes(c, E, no) # {}
  <2>1. ASSUME NEW E \in S PROVE E \in SUBSET new /\ Outcomes(c, E, no) # {}
    BY <1>1, <1>4 DEF Outcomes
  <2> QED
    BY <2>1
<1>7. ASSUME NEW E \in SUBSET new, NEW o \in Outcomes(c, E, no)
      PROVE  E \in S /\ o = still
  <2>1. LEThan(TotalSize(E), EdgeFree(c)) /\ o = still
    BY <1>3, <1>4 DEF Outcomes
  <2> QED
    BY <1>1, <2>1
<1>8. \A E \in SUBSET new : \A o \in Outcomes(c, E, no) : E \in S /\ o.freed = {}
  BY <1>5, <1>7
<1>9. d \in MakeDecisionForNewPods(c, new, no)
  BY <1>4
<1>10. PICK E \in S : /\ \E o \in Outcomes(c, E, no) : d = DecisionOf(new, E, o)
                      /\ \A G \in S : E \subseteq G => G = E
  <2>1. MasksAre(c, new, no, S)
    BY <1>2, <1>6, <1>8 DEF MasksAre
  <2> QED
    BY <1>4, <1>9, <2>1, BestMask
<1>11. d = DecisionOf(new, E, still)
  <2>1. PICK o \in Outcomes(c, E, no) : d = DecisionOf(new, E, o)
    BY <1>10
  <2>2. o = still
    BY <1>1, <1>7, <1>10
  <2> QED
    BY <2>1, <2>2
<1>12. d.freed = {} /\ d.toEdge = E /\ d.toCloud = new \ E /\ d.migrations = <<>>
  BY <1>5, <1>11 DEF DecisionOf
<1> QED
  BY <1>1, <1>10, <1>12

(* MakeDecisionForNewPods' edge subsets are Placement's, when it must not  *)
(* migrate, and it frees and moves nothing.                                *)
THEOREM TheDecisionsAreAlwaysCovered == Spec => []DecisionsAreCovered
<1>1. ASSUME SimulationInv PROVE DecisionsAreCovered
  <2>1. /\ cluster \in ClusterStates /\ WithinResources(cluster)
        /\ EdgePods(cluster) \cap CloudPods(cluster) = {}
    BY <1>1, TidySides DEF SimulationInv, Tidy
  <2>2. ASSUME NEW N \in Batches, NEW d \in MakeDecisionForNewPods(cluster, N, FALSE)
        PROVE  /\ {i \in DOMAIN SetToSeq(N) : SetToSeq(N)[i] \in d.toEdge}
                    \in EdgeSubsets(cluster, [i \in DOMAIN SetToSeq(N) |-> Obj(SetToSeq(N)[i])])
               /\ d.toCloud = N \ d.toEdge
               /\ d.freed = {} /\ d.migrations = <<>>
    <3>1. N \in SUBSET Pod /\ N \in SUBSET (Pod \ EdgePods(cluster))
      BY DEF Batches, Present
    <3>2. PICK q : q = SetToSeq(N) /\ q \in Seq(Pod) /\ IsInjective(q) /\ ToSet(q) = N
      BY <3>1, SetToSeqType, SetToSeqOnce
    <3>3. /\ d.freed = {} /\ d.migrations = <<>> /\ d.toCloud = N \ d.toEdge
          /\ d.toEdge \in SUBSET N /\ LEThan(TotalSize(d.toEdge), EdgeFree(cluster))
          /\ \A G \in SUBSET N : LEThan(TotalSize(G), EdgeFree(cluster)) /\ d.toEdge \subseteq G => G = d.toEdge
      BY <2>1, <3>1, StillDecision
    <3>4. PICK E : E = d.toEdge /\ E \in SUBSET N
      BY <3>3
    <3>5. PICK I : I = {i \in DOMAIN q : q[i] \in E} /\ I \in SUBSET DOMAIN q
      OBVIOUS
    <3>6. \A p \in N : \E i \in DOMAIN q : q[i] = p
      BY <3>2 DEF ToSet
    <3>7. E = {q[i] : i \in I}
      BY <3>4, <3>5, <3>6
    <3>8. FitTogether(cluster, Objects(q), I)
      BY <3>2, <3>3, <3>4, <3>5, <3>7, FitTogetherIs
    <3>9. ASSUME NEW J \in SUBSET DOMAIN q, I \subseteq J, I # J
          PROVE  ~FitTogether(cluster, Objects(q), J)
      <4>1. PICK G : G = {q[i] : i \in J}
        OBVIOUS
      <4>2. \A i \in DOMAIN q : q[i] \in N
        BY <3>2 DEF ToSet
      <4>3. G \in SUBSET N /\ E \subseteq G
        BY <3>7, <3>9, <4>1, <4>2
      <4>4. PICK j \in J : j \notin I
        BY <3>9
      <4>5. q[j] \in G /\ q[j] \notin E
        BY <3>5, <4>1, <4>4
      <4>6. ~LEThan(TotalSize(G), EdgeFree(cluster))
        BY <3>3, <3>4, <4>3, <4>5
      <4> QED
        BY <3>2, <4>1, <4>6, FitTogetherIs
    <3>10. DOMAIN Objects(q) = DOMAIN q
      BY DEF Objects
    <3>11. I \in EdgeSubsets(cluster, Objects(q))
      BY <3>5, <3>8, <3>9, <3>10 DEF EdgeSubsets
    <3> QED
      BY <3>2, <3>3, <3>4, <3>5, <3>11 DEF Objects
  <2> QED
    BY <2>2 DEF DecisionsAreCovered
<1> QED
  BY SimulationIsTidy, <1>1, PTL

-----------------------------------------------------------------------------
(* SuggestCloudToEdge: the loop takes pods until enough are taken or no    *)
(* willing one is left, and what it once left out never fits again.        *)

FitsEdge(c, S) == LEThan(TotalSize(S), EdgeFree(c))

FreeBeyond(c, S) == [r \in Resource |-> EdgeFree(c)[r] - TotalSize(S)[r]]

Willing(c, S) == {p \in S : c.numRunning[DeploymentOf[p]] # 1}

Stopped(c, s) == Willing(c, s.left) = {} \/ Cardinality(s.taken) >= MaximumCloudOffload

(* What holds of the loop after m of its turns.                            *)
Greedy(c, s, m) ==
    /\ s.taken \subseteq Willing(c, CloudPods(c)) /\ s.left \cap s.taken = {}
    /\ FitsEdge(c, s.taken) /\ Cardinality(s.taken) <= MaximumCloudOffload
    /\ \A p \in Willing(c, CloudPods(c)) : p \in s.left \/ p \in s.taken \/ ~FitsEdge(c, s.taken \cup {p})
    /\ Stopped(c, s) \/ Cardinality(s.left) + m <= Cardinality(CloudPods(c))

(* A larger set of pods fits less.                                         *)
LEMMA FitsLess ==
  ASSUME NEW c \in ClusterStates, WithinResources(c), NEW S \in SUBSET Pod, NEW T \in SUBSET S, FitsEdge(c, S)
  PROVE  FitsEdge(c, T)
<1>1. ASSUME NEW r \in Resource
      PROVE  TotalSize(T)[r] <= EdgeFree(c)[r]
  <2>1. PICK a, b, e : a = TotalSize(T)[r] /\ b = TotalSize(S)[r] /\ e = EdgeFree(c)[r]
    OBVIOUS
  <2>2. a \in Int /\ b \in Int /\ e \in Int
    BY <2>1, TotalType, EdgeFreeType
  <2>3. a <= b
    BY <2>1, TotalSubset
  <2>4. b <= e
    BY <2>1 DEF FitsEdge, LEThan
  <2> QED
    BY ONLY <2>1, <2>2, <2>3, <2>4
<1> QED
  BY <1>1 DEF FitsEdge, LEThan

(* The test of one pod against what the taken ones leave.                  *)
LEMMA FitsOneMore ==
  ASSUME NEW c \in ClusterStates, WithinResources(c), NEW S \in SUBSET Pod, NEW p \in Pod \ S
  PROVE  LEThan(Size(p), FreeBeyond(c, S)) <=> FitsEdge(c, S \cup {p})
<1>1. ASSUME NEW r \in Resource
      PROVE  Size(p)[r] <= EdgeFree(c)[r] - TotalSize(S)[r] <=> TotalSize(S \cup {p})[r] <= EdgeFree(c)[r]
  <2>1. PICK a, b, e : a = TotalSize(S)[r] /\ b = Size(p)[r] /\ e = EdgeFree(c)[r]
    OBVIOUS
  <2>2. a \in Int /\ b \in Int /\ e \in Int
    BY <2>1, TotalType, EdgeFreeType, SizeType
  <2>3. TotalSize(S \cup {p})[r] = a + b
    BY <2>1, TotalAdd
  <2> QED
    BY ONLY <2>1, <2>2, <2>3
<1> QED
  BY <1>1 DEF FitsEdge, LEThan, FreeBeyond

(* One turn of the loop.                                                   *)
Turn(c, s, t) ==
    \/ Stopped(c, s) /\ t = s
    \/ ~Stopped(c, s) /\ \E p \in Willing(c, s.left) :
         /\ t.left = s.left \ {p}
         /\ t.taken = IF LEThan(Size(p), FreeBeyond(c, s.taken)) THEN s.taken \cup {p} ELSE s.taken

(* TakeNext makes one.                                                     *)
LEMMA TurnIs ==
  ASSUME NEW c, NEW qos, NEW s \in Takes(c), NEW t \in TakeNext(c, qos, s)
  PROVE  Turn(c, s, t)
<1>1. PICK W : W = Willing(c, s.left) /\ W = {p \in s.left : c.numRunning[DeploymentOf[p]] # 1}
  BY DEF Willing
<1>2. PICK free : free = FreeBeyond(c, s.taken) /\ free = [r \in Resource |-> EdgeFree(c)[r] - TotalSize(s.taken)[r]]
  BY DEF FreeBeyond
<1>3. PICK gain : gain = [p \in W |-> Gain(qos, p, qos.onEdge[DeploymentOf[p]] + CountIn(s.taken, DeploymentOf[p]), 1)]
  OBVIOUS
<1>4. HighestScore(gain) \subseteq W
  BY <1>3 DEF HighestScore
<1>5. TakeNext(c, qos, s) =
        IF W = {} \/ Cardinality(s.taken) >= MaximumCloudOffload THEN {s}
        ELSE {[left |-> s.left \ {p}, taken |-> IF LEThan(Size(p), free) THEN s.taken \cup {p} ELSE s.taken]
               : p \in HighestScore(gain)}
  BY <1>1, <1>2, <1>3 DEF TakeNext
<1>6. CASE Stopped(c, s)
  BY <1>1, <1>5, <1>6 DEF Stopped, Turn
<1>7. CASE ~Stopped(c, s)
  <2>1. PICK p \in HighestScore(gain) :
          t = [left |-> s.left \ {p}, taken |-> IF LEThan(Size(p), free) THEN s.taken \cup {p} ELSE s.taken]
    BY <1>1, <1>5, <1>7 DEF Stopped
  <2>2. /\ t.left = s.left \ {p} /\ p \in Willing(c, s.left)
        /\ t.taken = IF LEThan(Size(p), free) THEN s.taken \cup {p} ELSE s.taken
    BY <1>1, <1>4, <2>1
  <2> QED
    BY <1>2, <1>7, <2>2 DEF Turn
<1> QED
  BY <1>6, <1>7

(* A turn keeps what holds of the loop.                                    *)
LEMMA TurnIsGreedy ==
  ASSUME NEW c \in ClusterStates, WithinResources(c), NEW qos, NEW s \in Takes(c), NEW t \in TakeNext(c, qos, s),
         NEW m \in Nat, Greedy(c, s, m)
  PROVE  Greedy(c, t, m + 1)
<1>1. PICK C, L, T : C = CloudPods(c) /\ L = s.left /\ T = s.taken
  OBVIOUS
<1>2. C \in SUBSET Pod /\ L \in SUBSET C /\ T \in SUBSET C /\ L \in SUBSET Pod /\ T \in SUBSET Pod
  BY <1>1 DEF Takes, CloudPods
<1>3. IsFiniteSet(C) /\ IsFiniteSet(L) /\ IsFiniteSet(T)
  BY <1>2, PodsFinite
<1>4. Cardinality(C) \in Nat /\ Cardinality(L) \in Nat /\ Cardinality(T) \in Nat /\ MaximumCloudOffload \in Nat
  BY <1>3, FS_CardinalityType, PlacementBounds
<1>5. CASE Stopped(c, s) /\ t = s
  BY <1>5 DEF Greedy
<1>6. ASSUME ~Stopped(c, s),
             NEW p \in Willing(c, s.left), t.left = s.left \ {p},
             t.taken = IF LEThan(Size(p), FreeBeyond(c, s.taken)) THEN s.taken \cup {p} ELSE s.taken
      PROVE  Greedy(c, t, m + 1)
  <2>1. p \in L /\ p \in Willing(c, C) /\ p \in Pod
    BY <1>1, <1>2 DEF Willing
  <2>2. p \notin T
    BY <1>1, <2>1 DEF Greedy
  <2>3. t.taken = IF FitsEdge(c, T \cup {p}) THEN T \cup {p} ELSE T
    BY <1>1, <1>2, <1>6, <2>1, <2>2, FitsOneMore
  <2>4. t.left = L \ {p}
    BY <1>1, <1>6
  <2>5. Cardinality(T) < MaximumCloudOffload /\ Cardinality(L) + m <= Cardinality(C)
    BY <1>1, <1>4, <1>6 DEF Stopped, Greedy
  <2>6. Cardinality(L \ {p}) = Cardinality(L) - 1
    BY <1>3, <2>1, FS_RemoveElement
  <2>7. Cardinality(t.left) + (m + 1) <= Cardinality(C)
    BY <1>4, <2>4, <2>5, <2>6
  <2>8. /\ T \subseteq Willing(c, C) /\ L \cap T = {} /\ FitsEdge(c, T)
        /\ \A q \in Willing(c, C) : q \in L \/ q \in T \/ ~FitsEdge(c, T \cup {q})
    BY <1>1 DEF Greedy
  <2>9. CASE FitsEdge(c, T \cup {p})
    <3>1. t.taken = T \cup {p}
      BY <2>3, <2>9
    <3>2. Cardinality(T \cup {p}) = Cardinality(T) + 1
      BY <1>3, <2>2, FS_AddElement
    <3>3. Cardinality(t.taken) <= MaximumCloudOffload
      BY <1>4, <2>5, <3>1, <3>2
    <3>4. ASSUME NEW q \in Willing(c, C), q \notin t.left, q \notin t.taken
          PROVE  ~FitsEdge(c, t.taken \cup {q})
      <4>1. q \in Pod /\ q \notin L /\ q \notin T
        BY <1>2, <2>4, <3>1, <3>4 DEF Willing
      <4>2. ~FitsEdge(c, T \cup {q})
        BY <2>8, <4>1
      <4>3. PICK A, B : A = T \cup {q} /\ B = t.taken \cup {q}
        OBVIOUS
      <4>4. B \in SUBSET Pod /\ A \in SUBSET B
        BY <1>2, <2>1, <3>1, <4>1, <4>3
      <4> QED
        BY <4>2, <4>3, <4>4, FitsLess
    <3> QED
      BY <1>1, <2>1, <2>4, <2>7, <2>8, <2>9, <3>1, <3>3, <3>4 DEF Greedy
  <2>10. CASE ~FitsEdge(c, T \cup {p})
    <3>1. t.taken = T
      BY <2>3, <2>10
    <3>2. \A q \in Willing(c, C) : q \in L \ {p} \/ q \in T \/ ~FitsEdge(c, T \cup {q})
      BY <2>8, <2>10
    <3>3. Cardinality(T) <= MaximumCloudOffload
      BY <1>4, <2>5
    <3> QED
      BY <1>1, <2>4, <2>7, <2>8, <3>1, <3>2, <3>3 DEF Greedy
  <2> QED
    BY <2>9, <2>10
<1>7. Turn(c, s, t)
  BY TurnIs
<1> QED
  BY <1>5, <1>6, <1>7 DEF Turn

(* What SuggestCloudToEdge returns: the loop has stopped.                  *)
LEMMA SuggestedAreGreedy ==
  ASSUME NEW c \in ClusterStates, WithinResources(c), EdgePods(c) \cap CloudPods(c) = {},
         NEW S \in SuggestCloudToEdge(c)
  PROVE  \E s \in Takes(c) : S = s.taken /\ Greedy(c, s, Cardinality(CloudPods(c)))
<1>1. PICK qos : qos = QoSNow(c)
  OBVIOUS
<1>2. S \in Taken(c, qos)
  <2>1. QoSNow(c).ok
    BY DEF QoSNow, CalcNumberOfQosSatisfactions
  <2> QED
    BY <1>1, <2>1 DEF SuggestCloudToEdge
<1>3. PICK q : q = SetToSeq(CloudPods(c)) /\ q \in Seq(Pod) /\ Len(q) = Cardinality(CloudPods(c))
  BY SetToSeqType DEF CloudPods
<1>4. PICK n : n = Len(q) /\ n \in Nat /\ DOMAIN q = 1..n
  BY <1>3
<1>5. PICK k : k = TakenOf(c, qos, q) /\ k = TakenStep(c, qos, q, k)
  BY <1>3, TakenSolves
<1>6. PICK start : start = [left |-> CloudPods(c), taken |-> {}] /\ start \in Takes(c)
  BY TakesBegin
<1>7. \A t \in SUBSET (1..n) :
        k[t] = IF t = {} THEN {start} ELSE UNION {TakeNext(c, qos, s) : s \in k[t \ {Max(t)}]}
  BY <1>4, <1>5, <1>6 DEF TakenStep
<1>8. Taken(c, qos) = {s.taken : s \in k[1..n]}
  BY <1>3, <1>4, <1>5, TakenIs
<1>9. Greedy(c, start, 0)
  <2>1. PICK C : C = CloudPods(c) /\ C \in SUBSET Pod
    BY DEF CloudPods
  <2>2. start.left = C /\ start.taken = {}
    BY <1>6, <2>1
  <2>3. Cardinality({}) <= MaximumCloudOffload
    BY FS_EmptySet, PlacementBounds
  <2>4. FitsEdge(c, {})
    BY NothingFits DEF FitsEdge
  <2>5. Cardinality(C) + 0 <= Cardinality(C)
    <3>1. Cardinality(C) \in Nat
      BY <2>1, PodsFinite, FS_CardinalityType
    <3> QED
      BY <3>1
  <2>6. \A p \in Willing(c, C) : p \in C
    BY DEF Willing
  <2> QED
    BY <2>1, <2>2, <2>3, <2>4, <2>5, <2>6 DEF Greedy
<1>10. \A t \in SUBSET (1..n) : IsFiniteSet(t) /\ Cardinality(t) \in Nat
  <2>1. IsFiniteSet(1..n)
    BY <1>4, CountUpTo
  <2> QED
    BY <2>1, FS_Subset, FS_CardinalityType
<1>11. \A s \in k[1..n] : s \in Takes(c) /\ Greedy(c, s, n)
  <2> DEFINE W == [t \in SUBSET (1..n) |-> SUBSET {s \in Takes(c) : Greedy(c, s, Cardinality(t))}]
  <2>1. k[{}] \in W[{}]
    <3>1. {} \in SUBSET (1..n) /\ Cardinality({}) = 0
      BY FS_EmptySet
    <3> QED
      BY <1>6, <1>7, <1>9, <3>1
  <2>2. ASSUME NEW t \in SUBSET (1..n), t # {}, k[t \ {Max(t)}] \in W[t \ {Max(t)}]
        PROVE  k[t] \in W[t]
    <3>1. PICK u, v, m : u = t \ {Max(t)} /\ v = k[u] /\ m = Cardinality(u)
      OBVIOUS
    <3>2. u \in SUBSET (1..n) /\ m \in Nat
      BY <1>10, <2>2, <3>1
    <3>3. \A s \in v : s \in Takes(c) /\ Greedy(c, s, m)
      BY <2>2, <3>1, <3>2
    <3>4. k[t] = UNION {TakeNext(c, qos, s) : s \in v}
      BY <1>7, <2>2, <3>1
    <3>5. Cardinality(t) = m + 1
      <4>1. Max(t) \in t
        BY <1>4, <2>2, TopsChoose DEF Chooses, Tops
      <4>2. Cardinality(u) = Cardinality(t) - 1
        BY <1>10, <2>2, <3>1, <4>1, FS_RemoveElement
      <4> QED
        BY <1>10, <2>2, <3>1, <4>2
    <3>6. ASSUME NEW x \in k[t]
          PROVE  x \in Takes(c) /\ Greedy(c, x, m + 1)
      <4>1. PICK s \in v : x \in TakeNext(c, qos, s)
        BY <3>4
      <4>2. s \in Takes(c) /\ Greedy(c, s, m)
        BY <3>3
      <4> QED
        BY <3>2, <4>1, <4>2, TakeNextType, TurnIsGreedy
    <3> QED
      BY <2>2, <3>5, <3>6
  <2>3. \A t \in SUBSET (1..n) : k[t] \in W[t]
    <3> HIDE DEF W
    <3> QED
      BY <1>4, <2>1, <2>2, SeqInduction
  <2>4. 1..n \in SUBSET (1..n) /\ Cardinality(1..n) = n
    BY <1>4, CountUpTo
  <2> QED
    BY <2>3, <2>4
<1> QED
  BY <1>2, <1>3, <1>4, <1>8, <1>11

(* These are pods that run elsewhere too and fit the edge, and no more of  *)
(* them do, or may be taken.                                               *)
LEMMA SuggestedAreMost ==
  ASSUME NEW c \in ClusterStates, WithinResources(c), EdgePods(c) \cap CloudPods(c) = {},
         NEW S \in SuggestCloudToEdge(c)
  PROVE  /\ S \in SUBSET Willing(c, CloudPods(c)) /\ FitsEdge(c, S) /\ Cardinality(S) <= MaximumCloudOffload
         /\ \A T \in SUBSET Willing(c, CloudPods(c)) :
              FitsEdge(c, T) /\ Cardinality(T) <= MaximumCloudOffload /\ S \subseteq T => S = T
<1>1. PICK s \in Takes(c) : S = s.taken /\ Greedy(c, s, Cardinality(CloudPods(c)))
  BY SuggestedAreGreedy
<1>2. PICK C, L : C = CloudPods(c) /\ L = s.left
  OBVIOUS
<1>3. C \in SUBSET Pod /\ L \in SUBSET C
  BY <1>2 DEF CloudPods, Takes
<1>4. /\ S \in SUBSET Willing(c, C) /\ FitsEdge(c, S) /\ Cardinality(S) <= MaximumCloudOffload
      /\ \A p \in Willing(c, C) : p \in L \/ p \in S \/ ~FitsEdge(c, S \cup {p})
      /\ Stopped(c, s) \/ Cardinality(L) + Cardinality(C) <= Cardinality(C)
  BY <1>1, <1>2 DEF Greedy
<1>5. Willing(c, L) = {} \/ Cardinality(S) >= MaximumCloudOffload
  <2>1. CASE Stopped(c, s)
    BY <1>1, <1>2, <2>1 DEF Stopped
  <2>2. CASE ~Stopped(c, s)
    <3>1. IsFiniteSet(L) /\ Cardinality(L) \in Nat /\ Cardinality(C) \in Nat
      BY <1>3, PodsFinite, FS_CardinalityType
    <3>2. Cardinality(L) = 0
      BY <1>4, <2>2, <3>1
    <3>3. L = {}
      BY <3>1, <3>2, FS_EmptySet
    <3> QED
      BY <3>3 DEF Willing
  <2> QED
    BY <2>1, <2>2
<1>6. ASSUME NEW T \in SUBSET Willing(c, C), FitsEdge(c, T), Cardinality(T) <= MaximumCloudOffload,
             S \subseteq T, S # T
      PROVE  FALSE
  <2>1. T \in SUBSET Pod /\ S \in SUBSET T /\ IsFiniteSet(T) /\ IsFiniteSet(S)
    <3>1. Willing(c, C) \subseteq C
      BY DEF Willing
    <3>2. T \in SUBSET Pod /\ S \in SUBSET T /\ S \in SUBSET Pod
      BY <1>3, <1>6, <3>1
    <3> QED
      BY <3>2, PodsFinite
  <2>2. CASE Cardinality(S) >= MaximumCloudOffload
    <3>1. Cardinality(S) <= Cardinality(T) /\ Cardinality(S) # Cardinality(T)
      BY <1>6, <2>1, FS_Subset
    <3>2. Cardinality(S) \in Nat /\ Cardinality(T) \in Nat /\ MaximumCloudOffload \in Nat
      BY <2>1, FS_CardinalityType, PlacementBounds
    <3> QED
      BY <1>6, <2>2, <3>1, <3>2
  <2>3. CASE Willing(c, L) = {}
    <3>1. PICK p \in T : p \notin S
      BY <1>6
    <3>2. p \in Willing(c, C) /\ p \notin L
      BY <1>6, <2>3, <3>1 DEF Willing
    <3>3. ~FitsEdge(c, S \cup {p})
      BY <1>4, <3>1, <3>2
    <3>4. PICK A : A = S \cup {p} /\ A \in SUBSET T
      BY <1>6, <3>1
    <3> QED
      BY <1>6, <2>1, <3>3, <3>4, FitsLess
  <2> QED
    BY <1>5, <2>2, <2>3
<1> QED
  BY <1>2, <1>4, <1>6

(* Nothing need be freed for pods that fit the edge.                       *)
LEMMA OutcomesThatFit ==
  ASSUME NEW c, Tidy(c), NEW E \in SUBSET Pod, FitsEdge(c, E)
  PROVE  /\ Outcomes(c, E, TRUE) # {}
         /\ \A o \in Outcomes(c, E, TRUE) : o.freed = {} /\ o.migrations \in CalcMigrations(c, {})
<1>1. c \in ClusterStates /\ WithinResources(c)
  BY TidySides
<1>2. PICK least : least = TotalSize(E) /\ least \in [Resource -> Nat]
  BY TotalType
<1>3. PICK free : free = EdgeFree(c) /\ free \in [Resource -> Nat]
  BY <1>1, EdgeFreeType
<1>4. \A r \in Resource : least[r] <= free[r]
  BY <1>2, <1>3 DEF FitsEdge, LEThan
<1>5. PICK need : need = [r \in Resource |-> least[r] - free[r]]
  OBVIOUS
<1>6. need \in [Resource -> Int] /\ \A r \in Resource : need[r] <= 0
  BY <1>2, <1>3, <1>4, <1>5
<1>7. EvalFreePods(c, least) = IF ~QoSNow(c).ok THEN {{}} ELSE Freed(c, need, QoSNow(c))
  BY <1>3, <1>5 DEF EvalFreePods
<1>8. EvalFreePods(c, least) = {{}}
  BY <1>6, <1>7, FreedType
<1>9. ~LThan(EdgeResources, least)
  <2>1. ASSUME NEW r \in Resource
        PROVE  least[r] <= EdgeResources[r]
    <3>1. \A n \in EdgeNode : c.nodeUsed[n][r] >= 0
      <4>1. ASSUME NEW n \in EdgeNode PROVE c.nodeUsed[n][r] >= 0
        <5>1. TotalSize(At(c, n))[r] \in Nat
          BY TidyRemaining
        <5>2. c.nodeUsed[n][r] = TotalSize(At(c, n))[r]
          BY DEF Tidy, Booked
        <5> QED
          BY ONLY <5>1, <5>2
      <4> QED
        BY <4>1
    <3>2. free[r] <= EdgeResources[r]
      BY <1>1, <1>3, <3>1, FreeIsLess
    <3>3. least[r] \in Nat /\ free[r] \in Nat /\ EdgeResources[r] \in Nat /\ least[r] <= free[r]
      BY <1>2, <1>3, <1>4, EdgeResourcesType
    <3> QED
      BY ONLY <3>2, <3>3
  <2> QED
    BY <2>1 DEF LThan, LEThan
<1>10. Outcomes(c, E, TRUE) = {[freed |-> {}, migrations |-> m] : m \in CalcMigrations(c, {})}
  BY <1>2, <1>8, <1>9 DEF Outcomes
<1>11. PICK m : m \in CalcMigrations(c, {})
  BY DEF CalcMigrations, OrElse, HighestValue
<1>12. \A o \in Outcomes(c, E, TRUE) : \E x \in CalcMigrations(c, {}) : o = [freed |-> {}, migrations |-> x]
  BY <1>10
<1>13. ASSUME NEW o \in Outcomes(c, E, TRUE)
       PROVE  o.freed = {} /\ o.migrations \in CalcMigrations(c, {})
  <2>1. PICK x \in CalcMigrations(c, {}) : o = [freed |-> {}, migrations |-> x]
    BY <1>12
  <2>2. o.freed = {} /\ o.migrations = x
    BY <2>1
  <2> QED
    BY <2>2
<1>14. [freed |-> {}, migrations |-> m] \in Outcomes(c, E, TRUE)
  BY <1>10, <1>11
<1> QED
  BY <1>13, <1>14

(* If no outcome frees a pod and every mask has one, all pods are sent.    *)
LEMMA WholeMask ==
  ASSUME NEW c \in ClusterStates, WithinResources(c), EdgePods(c) \cap CloudPods(c) = {},
         NEW new \in SUBSET (Pod \ EdgePods(c)), NEW canMigrate \in BOOLEAN,
         NEW d \in MakeDecisionForNewPods(c, new, canMigrate), MasksAre(c, new, canMigrate, SUBSET new)
  PROVE  \E o \in Outcomes(c, new, canMigrate) : d = DecisionOf(new, new, o)
<1>1. PICK S : S = SUBSET new
  OBVIOUS
<1>2. MasksAre(c, new, canMigrate, S)
  BY <1>1
<1>3. PICK E \in S : /\ \E o \in Outcomes(c, E, canMigrate) : d = DecisionOf(new, E, o)
                     /\ \A G \in S : E \subseteq G => G = E
  BY <1>2, BestMask
<1>4. E = new
  BY <1>1, <1>3
<1> QED
  BY <1>3, <1>4

(* The decision of a suggestion sends all that is suggested to the edge.   *)
LEMMA SuggestedDecision ==
  ASSUME NEW c, Tidy(c), NEW S \in SUBSET CloudPods(c), FitsEdge(c, S),
         NEW d \in MakeDecisionForNewPods(c, S, TRUE)
  PROVE  /\ d.toEdge = S /\ d.toCloud = {} /\ d.freed = {}
         /\ d.migrations = <<>> \/ (S # {} /\ d.migrations \in CalcMigrations(c, {}))
<1>1. /\ c \in ClusterStates /\ WithinResources(c) /\ EdgePods(c) \cap CloudPods(c) = {}
      /\ S \in SUBSET (Pod \ EdgePods(c)) /\ S \in SUBSET Pod
  BY TidySides
<1>2. PICK masks : masks = SUBSET S
  OBVIOUS
<1>3. MasksAre(c, S, TRUE, masks)
  <2>1. ASSUME NEW E \in masks
        PROVE  /\ E \in SUBSET S /\ Outcomes(c, E, TRUE) # {}
               /\ \A o \in Outcomes(c, E, TRUE) : o.freed = {}
    <3>1. E \in SUBSET S /\ E \in SUBSET Pod
      BY <1>1, <1>2
    <3>2. FitsEdge(c, E)
      BY <1>1, <3>1, FitsLess
    <3> QED
      BY <3>1, <3>2, OutcomesThatFit
  <2>2. {} \in masks
    BY <1>2
  <2> QED
    BY <1>2, <2>1, <2>2 DEF MasksAre
<1>4. TRUE \in BOOLEAN
  OBVIOUS
<1>5. \E o \in Outcomes(c, S, TRUE) : d = DecisionOf(S, S, o)
  BY <1>1, <1>2, <1>3, <1>4, WholeMask
<1>6. PICK o \in Outcomes(c, S, TRUE) : d = DecisionOf(S, S, o)
  BY <1>5
<1>7. o.freed = {} /\ o.migrations \in CalcMigrations(c, {})
  BY <1>1, OutcomesThatFit
<1> QED
  BY <1>6, <1>7 DEF DecisionOf

-----------------------------------------------------------------------------
(* A clone of a cluster, some of whose pods have another status.           *)

Runners(c, d) == {o \in PodObj : Dep(o) = d /\ c.status[o] = "RUNNING"}

EntriesOf(c) == [o \in PodObj |-> c.edgePods[o] + c.cloudPods[o]]

RunnersStep(c, d, g) ==
    [s \in SUBSET Runners(c, d) |->
        IF s = {} THEN 0 ELSE c.edgePods[Pick(s)] + c.cloudPods[Pick(s)] + g[s \ {Pick(s)}]]

RunnersOf(c, d) == CHOOSE g : g = RunnersStep(c, d, g)

(* The running pods of a clone are the sum of the entries.                 *)
LEMMA NumRunningIs ==
  ASSUME NEW c, NEW d
  PROVE  NumRunningInClone(c, d) = SumFunctionOnSet(EntriesOf(c), Runners(c, d)) /\ IsFiniteSet(Runners(c, d))
<1>1. NumRunningInClone(c, d) = RunnersOf(c, d)[Runners(c, d)]
  BY DEF NumRunningInClone, MapThenSumSet, MapThenFoldSet, RunnersOf, RunnersStep, Runners, Pick
<1>2. IsFiniteSet(PodObj)
  <2>1. IsFiniteSet(1..MaxCopies)
    BY FS_Interval, CopiesArePositive
  <2> QED
    BY <2>1, PodsAreFinite, FS_Product DEF PodObj
<1>3. IsFiniteSet(Runners(c, d))
  BY <1>2, FS_Subset DEF Runners
<1>4. PICK f, R : f = EntriesOf(c) /\ R = Runners(c, d)
  OBVIOUS
<1>5. ASSUME NEW g
      PROVE  RunnersStep(c, d, g) = SumStep(f, R, g)
  <2>1. \A s \in SUBSET R : s # {} => c.edgePods[Pick(s)] + c.cloudPods[Pick(s)] = f[Pick(s)]
    <3>1. ASSUME NEW s \in SUBSET R, s # {}
          PROVE  c.edgePods[Pick(s)] + c.cloudPods[Pick(s)] = f[Pick(s)]
      <4>1. Pick(s) \in PodObj
        BY <1>4, <3>1, PickIsElement DEF Runners
      <4> QED
        BY <1>4, <4>1 DEF EntriesOf
    <3> QED
      BY <3>1
  <2> QED
    BY <1>4, <2>1 DEF RunnersStep, SumStep
<1>6. PICK h : Solves(f, R, h)
  BY <1>3, <1>4, PartialSolves
<1>7. h = RunnersStep(c, d, h)
  BY <1>5, <1>6 DEF Solves
<1>8. PICK k : k = RunnersOf(c, d) /\ k = RunnersStep(c, d, k)
  BY <1>7 DEF RunnersOf
<1>9. Solves(f, R, k)
  BY <1>5, <1>8 DEF Solves
<1>10. k[R] = SumFunctionOnSet(f, R)
  BY <1>3, <1>4, <1>9, AnySolution
<1> QED
  BY <1>1, <1>3, <1>4, <1>8, <1>10

(* The count of a clone is that of its own entries.                        *)
Counted(c) == \A d \in Deployment : c.numRunning[d] = NumRunningInClone(c, d)

(* A clone is tidy and counted.                                            *)
LEMMA CloneIsTidy ==
  ASSUME NEW x, Tidy(x), NEW status \in [PodObj -> Status], NEW c, c = Clone([x EXCEPT !.status = status])
  PROVE  Tidy(c) /\ Counted(c) /\ EdgePods(c) = EdgePods(x) /\ CloudPods(c) = CloudPods(x)
<1>1. x \in ClusterStates
  BY DEF Tidy
<1>2. PICK y : y = [x EXCEPT !.status = status]
  OBVIOUS
<1>3. y \in ClusterStates
  BY <1>1, <1>2 DEF ClusterStates
<1>4. PICK counts : counts = [d \in Deployment |-> NumRunningInClone(y, d)]
  OBVIOUS
<1>5. c = [y EXCEPT !.numRunning = counts]
  BY <1>2, <1>4 DEF Clone
<1>6. /\ c.edgePods = y.edgePods /\ c.cloudPods = y.cloudPods /\ c.status = y.status /\ c.numRunning = counts
      /\ c.nodeUsed = y.nodeUsed /\ c.podsMap = y.podsMap /\ c.node = y.node
  BY <1>3, <1>5 DEF ClusterStates
<1>7. /\ c.edgePods = x.edgePods /\ c.cloudPods = x.cloudPods /\ c.nodeUsed = x.nodeUsed
      /\ c.podsMap = x.podsMap /\ c.node = x.node
  BY <1>1, <1>2, <1>6 DEF ClusterStates
<1>8. ASSUME NEW d \in Deployment
      PROVE  NumRunningInClone(y, d) \in Int /\ NumRunningInClone(c, d) = NumRunningInClone(y, d)
  <2>1. PICK f, R : f = EntriesOf(y) /\ R = Runners(y, d) /\ f = EntriesOf(c) /\ R = Runners(c, d)
    BY <1>6 DEF EntriesOf, Runners
  <2>2. \A o \in R : f[o] \in Nat
    BY <1>3, <2>1, EntryTypes DEF EntriesOf, Runners
  <2>3. IsFiniteSet(R) /\ NumRunningInClone(y, d) = SumFunctionOnSet(f, R)
    BY <2>1, NumRunningIs
  <2>4. NumRunningInClone(c, d) = SumFunctionOnSet(f, R)
    BY <2>1, NumRunningIs
  <2>5. SumFunctionOnSet(f, R) \in Nat
    BY <2>2, <2>3, SumNat
  <2> QED
    BY <2>3, <2>4, <2>5
<1>9. counts \in [Deployment -> Int]
  BY <1>4, <1>8
<1>10. c \in ClusterStates
  BY <1>3, <1>5, <1>9 DEF ClusterStates
<1>11. Counted(c)
  BY <1>4, <1>6, <1>8 DEF Counted
<1>12. \A n : At(c, n) = At(x, n)
  BY <1>7 DEF At
<1>13. OneObject(c) /\ OneEntry(c) /\ Placed(c) /\ Mapped(c) /\ WithinResources(c)
  BY <1>7 DEF Tidy, OneObject, OneEntry, Placed, Mapped, WithinResources
<1>14. Booked(c)
  BY <1>7, <1>12 DEF Tidy, Booked
<1>15. EdgePods(c) = EdgePods(x) /\ CloudPods(c) = CloudPods(x)
  BY <1>7 DEF EdgePods, CloudPods, OnEdge, OnCloud
<1> QED
  BY <1>10, <1>11, <1>13, <1>14, <1>15 DEF Tidy

(* Pods fit the edge in Placement's words too.                             *)
LEMMA PodsFitIs ==
  ASSUME NEW c, NEW S \in SUBSET Pod
  PROVE  PodsFit(c, S) <=> FitsEdge(c, S)
<1>1. ASSUME NEW r \in Resource
      PROVE  MapThenSumSet(LAMBDA p : ResourcesRequired[DeploymentOf[p]][r], S) = TotalSize(S)[r]
  BY DEF TotalSize, Size
<1>2. \A r \in Resource : EdgeFree(c)[r] = EdgeRemaining(c, r)
  BY EdgeFreeIs
<1> QED
  BY <1>1, <1>2 DEF PodsFit, FitsEdge, LEThan

(* What SuggestCloudToEdge returns is one of Placement's choices.          *)
LEMMA SuggestedAreChosen ==
  ASSUME NEW c, Tidy(c), Counted(c), NEW S \in SuggestCloudToEdge(c)
  PROVE  S \in CloudToEdge(c) /\ S \in SUBSET CloudPods(c) /\ FitsEdge(c, S)
<1>1. c \in ClusterStates /\ WithinResources(c) /\ EdgePods(c) \cap CloudPods(c) = {}
  BY TidySides
<1>2. PICK W : W = Willing(c, CloudPods(c)) /\ W \in SUBSET CloudPods(c) /\ W \in SUBSET Pod
  BY DEF Willing, CloudPods
<1>3. Pullable(c) = W
  BY <1>2, PodsAreLabelled DEF Pullable, Willing, CloudPods, Counted
<1>4. /\ S \in SUBSET W /\ FitsEdge(c, S) /\ Cardinality(S) <= MaximumCloudOffload
      /\ \A T \in SUBSET W : FitsEdge(c, T) /\ Cardinality(T) <= MaximumCloudOffload /\ S \subseteq T => S = T
  <2>1. /\ S \in SUBSET Willing(c, CloudPods(c)) /\ FitsEdge(c, S) /\ Cardinality(S) <= MaximumCloudOffload
        /\ \A T \in SUBSET Willing(c, CloudPods(c)) :
             FitsEdge(c, T) /\ Cardinality(T) <= MaximumCloudOffload /\ S \subseteq T => S = T
    BY <1>1, SuggestedAreMost
  <2> QED
    BY <1>2, <2>1
<1>5. \A T \in SUBSET W : PodsFit(c, T) <=> FitsEdge(c, T)
  BY <1>2, PodsFitIs
<1>6. S \in CloudToEdge(c)
  BY <1>3, <1>4, <1>5 DEF CloudToEdge
<1> QED
  BY <1>2, <1>4, <1>6

-----------------------------------------------------------------------------
(* The migrations of a suggestion, in Placement's words.                   *)

(* The objects of some pods, one for each of them.                         *)
ObjOf(P) == {Obj(p) : p \in P}

(* There are as many objects as pods.                                      *)
LEMMA AsManyObjects ==
  ASSUME NEW P \in SUBSET Pod
  PROVE  Cardinality(ObjOf(P)) = Cardinality(P)
<1>1. PICK h : h = [p \in P |-> Obj(p)]
  OBVIOUS
<1>2. h \in Bijection(P, ObjOf(P))
  <2>1. h \in [P -> ObjOf(P)] /\ \A o \in ObjOf(P) : \E p \in P : h[p] = o
    BY <1>1 DEF ObjOf
  <2>2. \A p, q \in P : h[p] = h[q] => p = q
    BY <1>1, ObjDistinct
  <2> QED
    BY <2>1, <2>2 DEF Bijection, Injection, Surjection, IsInjective
<1> QED
  BY <1>2, PodsFinite, FS_Bijection DEF ExistsBijection

(* They need what the pods need.                                           *)
LEMMA NeedOfObjects ==
  ASSUME NEW P \in SUBSET Pod, NEW objs, \A o \in ObjOf(P) : objs[o] = o, NEW r \in Resource
  PROVE  Need(objs, ObjOf(P), r) = TotalSize(P)[r]
<1>1. PICK h : h = [p \in P |-> Obj(p)]
  OBVIOUS
<1>2. PICK I : I = ObjOf(P) /\ I = {h[p] : p \in P}
  BY <1>1 DEF ObjOf
<1>3. PICK g : g = [i \in I |-> ResourcesRequired[Dep(objs[i])][r]]
  OBVIOUS
<1>4. PICK f : f = SizeOf(r)
  OBVIOUS
<1>5. \A p \in P : f[p] \in Int /\ g[h[p]] = f[p]
  <2>1. ASSUME NEW p \in P
        PROVE  f[p] \in Int /\ g[h[p]] = f[p]
    <3>1. h[p] \in I /\ h[p] = Obj(p) /\ objs[Obj(p)] = Obj(p)
      BY <1>1, <1>2
    <3>2. g[h[p]] = ResourcesRequired[DeploymentOf[p]][r]
      BY <1>3, <3>1, ObjType
    <3>3. f[p] = Size(p)[r] /\ Size(p)[r] \in Nat
      BY <1>4, SizeType DEF SizeOf
    <3> QED
      BY <3>2, <3>3 DEF Size
  <2> QED
    BY <2>1
<1>6. \A p, q \in P : h[p] = h[q] => p = q
  BY <1>1, ObjDistinct
<1>7. IsFiniteSet(P)
  BY PodsFinite
<1>8. SumFunctionOnSet(g, {h[p] : p \in P}) = SumFunctionOnSet(f, P)
  BY ONLY <1>5, <1>6, <1>7, SumImage
<1>9. Need(objs, I, r) = SumFunctionOnSet(g, I)
  BY <1>3 DEF Need
<1> QED
  BY <1>2, <1>4, <1>8, <1>9, TotalSizeIs

(* A pod on the edge, and its entry.                                       *)
LEMMA EntryOf ==
  ASSUME NEW c, Tidy(c), NEW p \in EdgePods(c)
  PROVE  /\ p \in Pod /\ Obj(p) \in PodObj /\ c.edgePods[Obj(p)] > 0
         /\ NodeOf(c, p) = c.node[Obj(p)] /\ (Running(c, p) <=> c.status[Obj(p)] = "RUNNING")
<1>1. c \in ClusterStates /\ p \in Pod
  BY TidySides
<1>2. c.edgePods[Obj(p)] > 0
  BY <1>1, Sides DEF Tidy
<1>3. c.podsMap[p] = Obj(p)
  <2>1. c.edgePods[Obj(p)] \in Nat /\ c.cloudPods[Obj(p)] \in Nat
    BY <1>1, EntryTypes
  <2>2. c.edgePods[Obj(p)] + c.cloudPods[Obj(p)] > 0
    BY ONLY <1>2, <2>1
  <2> QED
    BY <1>1, <2>2 DEF Tidy, Mapped
<1> QED
  BY <1>1, <1>2, <1>3, ObjType DEF NodeOf, Running

(* Pods that may move together for CalcMigrations may do so for Placement. *)
LEMMA ChoicesMayMigrate ==
  ASSUME NEW c, Tidy(c), Counted(c), NEW S \in GetPossiblePodChoices(c, {})
  PROVE  ObjOf(S) \in SUBSET {o \in PodObj : c.edgePods[o] > 0} /\ MayMigrate(c, ObjOf(S))
<1>1. /\ S \in SUBSET EdgePods(c) /\ Cardinality(S) <= MaximumMigrations
      /\ isAllowedToMove(c, {}, S)
  BY PlacementBounds DEF GetPossiblePodChoices
<1>2. S \in SUBSET Pod
  BY <1>1, TidySides
<1>3. PICK M : M = ObjOf(S)
  OBVIOUS
<1>4. \A o \in M : o \in PodObj /\ c.edgePods[o] > 0
  BY <1>1, <1>3, EntryOf DEF ObjOf
<1>5. Cardinality(M) <= MaximumMigrations
  BY <1>1, <1>2, <1>3, AsManyObjects
<1>6. \A o, x \in M : Id(o) = Id(x) => o = x
  BY <1>2, <1>3, ObjType DEF ObjOf
<1>7. ASSUME NEW d \in Deployment
      PROVE  RunningIn(c, M, d) = 0 \/ RunningIn(c, M, d) < NumRunningInClone(c, d)
  <2>1. PICK R : R = {q \in {q \in {} \cup S : Running(c, q)} : DeploymentOf[q] = d} /\ R \in SUBSET Pod
    BY <1>2
  <2>2. Cardinality(R) = 0 \/ Cardinality(R) < c.numRunning[d]
    BY <1>1, <2>1 DEF isAllowedToMove, CountIn
  <2>3. {o \in M : Dep(o) = d /\ c.status[o] = "RUNNING"} = ObjOf(R)
    <3>1. \A p \in S : Dep(Obj(p)) = DeploymentOf[p] /\ (Running(c, p) <=> c.status[Obj(p)] = "RUNNING")
      BY <1>1, EntryOf, ObjType
    <3> QED
      BY <1>3, <2>1, <3>1 DEF ObjOf
  <2>4. RunningIn(c, M, d) = Cardinality(R)
    BY <2>1, <2>3, AsManyObjects DEF RunningIn
  <2> QED
    BY <2>2, <2>4 DEF Counted
<1> QED
  BY <1>3, <1>4, <1>5, <1>6, <1>7 DEF MayMigrate

(* Their new nodes have room for them once all of them have left.          *)
LEMMA MigrationsHaveRoom ==
  ASSUME NEW c, Tidy(c), NEW m \in CalcMigrations(c, {}), m # <<>>,
         NEW f, f = [o \in ObjOf(DOMAIN m) |-> m[Id(o)]]
  PROVE  f \in [ObjOf(DOMAIN m) -> EdgeNode] /\ RoomOnceLeft(c, f)
<1>1. c \in ClusterStates /\ WithinResources(c)
  BY TidySides
<1>2. PICK e, P : e = {} /\ P = DOMAIN m /\ e \in SUBSET Pod
  OBVIOUS
<1>3. PICK rem : rem = RemainingOf(c) /\ rem \in Remainders
  BY <1>1, RemainingType
<1>4. PICK back : back = GivenBack(rem, c, e) /\ back \in Remainders
  BY <1>2, <1>3, GivenBackType
<1>5. m \in [P -> EdgeNode] /\ P \in SUBSET EdgePods(c) /\ HasRoomFor(GivenBack(back, c, P), m)
  BY <1>1, <1>2, <1>3, <1>4, CalcMigrationsFit
<1>6. P \in SUBSET Pod
  BY <1>5, TidySides
<1>7. PICK M : M = ObjOf(P) /\ f = [o \in M |-> m[Id(o)]]
  BY <1>2
<1>8. \A p \in P : Obj(p) \in M /\ Id(Obj(p)) = p /\ f[Obj(p)] = m[p] /\ NodeOf(c, p) = c.node[Obj(p)]
  BY <1>5, <1>6, <1>7, ObjType, EntryOf DEF ObjOf
<1>9. f \in [M -> EdgeNode]
  <2>1. ASSUME NEW o \in M
        PROVE  f[o] \in EdgeNode
    <3>1. PICK p \in P : o = Obj(p)
      BY <1>7 DEF ObjOf
    <3>2. m[p] \in EdgeNode
      BY <1>5
    <3> QED
      BY ONLY <1>8, <3>1, <3>2
  <2> QED
    BY ONLY <1>7, <2>1
<1>10. PICK objs : objs = [o \in DOMAIN f |-> o]
  OBVIOUS
<1>11. ASSUME NEW n \in EdgeNode, NEW r \in Resource
       PROVE  Need(objs, {o \in DOMAIN f : f[o] = n}, r) <=
                  Remaining(c, n, r) + Need(objs, {o \in DOMAIN f : c.node[o] = n}, r)
  <2>1. PICK A : A = Sent(m, n)
    OBVIOUS
  <2>2. PICK B : B = AtNode(c, P, n)
    OBVIOUS
  <2>3. A \in SUBSET P /\ B \in SUBSET P
    BY <1>2, <2>1, <2>2 DEF Sent, AtNode
  <2>4. DOMAIN f = {Obj(p) : p \in P}
    BY <1>7 DEF ObjOf
  <2>5. {o \in DOMAIN f : f[o] = n} = ObjOf(A)
    <3>1. \A p \in P : f[Obj(p)] = m[p]
      BY <1>8
    <3>2. A = {p \in P : m[p] = n}
      BY <1>2, <2>1 DEF Sent
    <3> QED
      BY ONLY <2>4, <3>1, <3>2 DEF ObjOf
  <2>6. {o \in DOMAIN f : c.node[o] = n} = ObjOf(B)
    <3>1. \A p \in P : NodeOf(c, p) = c.node[Obj(p)]
      BY <1>8
    <3>2. B = {p \in P : NodeOf(c, p) = n}
      BY <2>2 DEF AtNode
    <3> QED
      BY ONLY <2>4, <3>1, <3>2 DEF ObjOf
  <2>7. \A o \in DOMAIN f : objs[o] = o
    BY <1>10
  <2>8. Need(objs, ObjOf(A), r) = TotalSize(A)[r]
    BY <1>6, <2>3, <2>5, <2>7, NeedOfObjects
  <2>9. Need(objs, ObjOf(B), r) = TotalSize(B)[r]
    BY <1>6, <2>3, <2>6, <2>7, NeedOfObjects
  <2>10. TotalSize(AtNode(c, e, n))[r] = 0
    <3>1. AtNode(c, e, n) = {}
      BY <1>2 DEF AtNode
    <3> QED
      BY <3>1, TotalEmpty
  <2>11. back[n][r] = rem[n][r] + TotalSize(AtNode(c, e, n))[r]
    BY <1>2, <1>3, <1>4, GivenBackType
  <2>12. GivenBack(back, c, P)[n][r] = back[n][r] + TotalSize(B)[r]
    BY <1>4, <1>6, <2>2, GivenBackType
  <2>13. TotalSize(A)[r] <= GivenBack(back, c, P)[n][r]
    BY <1>5, <2>1 DEF HasRoomFor
  <2>14. rem[n][r] = Remaining(c, n, r) /\ rem[n][r] \in Int
    BY <1>3 DEF RemainingOf, Remainders
  <2>15. TotalSize(A)[r] <= Remaining(c, n, r) + TotalSize(B)[r]
    BY ONLY <2>10, <2>11, <2>12, <2>13, <2>14
  <2> QED
    BY ONLY <2>5, <2>6, <2>8, <2>9, <2>15
<1>12. RoomOnceLeft(c, f)
  BY <1>10, <1>11 DEF RoomOnceLeft
<1> QED
  BY <1>2, <1>7, <1>9, <1>12

(* The migrations that m stands for.                                       *)
MovesBy(c, m) == {[pod |-> p, from |-> NodeOf(c, p), to |-> m[p]] : p \in DOMAIN m}

(* They are one of Placement's choices.                                    *)
LEMMA MigrationsAre ==
  ASSUME NEW c, Tidy(c), Counted(c), NEW m \in CalcMigrations(c, {})
  PROVE  MovesBy(c, m) \in MigrationsOf(c)
<1>1. CASE m = <<>>
  <2>1. DOMAIN m = {}
    BY <1>1
  <2> QED
    BY <2>1 DEF MovesBy, MigrationsOf
<1>2. CASE m # <<>>
  <2>1. PICK S \in GetPossiblePodChoices(c, {}) : DOMAIN m = S
    BY <1>2 DEF CalcMigrations, OrElse, HighestValue
  <2>2. PICK M, f : M = ObjOf(S) /\ f = [o \in M |-> m[Id(o)]]
    OBVIOUS
  <2>3. M \in SUBSET {o \in PodObj : c.edgePods[o] > 0} /\ MayMigrate(c, M)
    BY <2>2, ChoicesMayMigrate
  <2>4. f \in [M -> EdgeNode] /\ RoomOnceLeft(c, f)
    BY <1>2, <2>1, <2>2, MigrationsHaveRoom
  <2>5. PICK moves : moves = {[pod |-> Id(o), from |-> c.node[o], to |-> f[o]] : o \in DOMAIN f}
    OBVIOUS
  <2>6. moves \in MigrationsOf(c)
    BY <2>3, <2>4, <2>5 DEF MigrationsOf
  <2>7. ASSUME NEW p \in S
        PROVE  Obj(p) \in M /\ Id(Obj(p)) = p /\ f[Obj(p)] = m[p] /\ NodeOf(c, p) = c.node[Obj(p)]
    <3>1. p \in EdgePods(c)
      BY DEF GetPossiblePodChoices
    <3>2. p \in Pod /\ NodeOf(c, p) = c.node[Obj(p)]
      BY <3>1, EntryOf
    <3>3. Obj(p) \in M
      BY <2>2 DEF ObjOf
    <3> QED
      BY <2>2, <3>2, <3>3, ObjType
  <2>8. MovesBy(c, m) = moves
    <3>1. MovesBy(c, m) = {[pod |-> Id(Obj(p)), from |-> c.node[Obj(p)], to |-> f[Obj(p)]] : p \in S}
      BY <2>1, <2>7 DEF MovesBy
    <3>2. DOMAIN f = {Obj(p) : p \in S}
      BY <2>2 DEF ObjOf
    <3> QED
      BY <2>5, <3>1, <3>2
  <2> QED
    BY <2>6, <2>8
<1> QED
  BY <1>1, <1>2

(* A suggestion for a tidy clone, in the words of the property.            *)
SuggestionIsCovered(c, s) ==
    LET d     == s.decision
        moves == {[pod |-> p, from |-> NodeOf(c, p), to |-> d.migrations[p]] : p \in DOMAIN d.migrations}
    IN /\ d.toEdge = s.cloudToEdge /\ d.toCloud = {} /\ d.freed = {}
       /\ [toEdge |-> d.toEdge, migrations |-> moves] \in Suggestions(c)

(* It is one of Placement's.                                               *)
LEMMA SuggestionIs ==
  ASSUME NEW c, Tidy(c), Counted(c), NEW s \in SuggestReorder(c)
  PROVE  SuggestionIsCovered(c, s)
<1>1. PICK S, d : /\ S \in SuggestCloudToEdge(c) /\ d \in MakeDecisionForNewPods(c, S, TRUE)
                  /\ s = [cloudToEdge |-> S, decision |-> d]
  BY DEF SuggestReorder
<1>2. s.cloudToEdge = S /\ s.decision = d
  BY <1>1
<1>3. S \in CloudToEdge(c) /\ S \in SUBSET CloudPods(c) /\ FitsEdge(c, S)
  BY <1>1, SuggestedAreChosen
<1>4. PICK m : /\ m = d.migrations /\ d.toEdge = S /\ d.toCloud = {} /\ d.freed = {}
               /\ m = <<>> \/ (S # {} /\ m \in CalcMigrations(c, {}))
  <2>1. /\ d.toEdge = S /\ d.toCloud = {} /\ d.freed = {}
        /\ d.migrations = <<>> \/ (S # {} /\ d.migrations \in CalcMigrations(c, {}))
    BY <1>1, <1>3, SuggestedDecision
  <2> QED
    BY ONLY <2>1
<1>5. ~Conflict(c)
  BY TidySides DEF Conflict, EdgePods, CloudPods
<1>6. MovesBy(c, m) \in IF S = {} THEN {{}} ELSE MigrationsOf(c)
  <2>1. CASE m = <<>>
    <3>1. MovesBy(c, m) = {}
      BY <2>1 DEF MovesBy
    <3> QED
      BY <3>1 DEF MigrationsOf
  <2>2. CASE S # {} /\ m \in CalcMigrations(c, {})
    BY <2>2, MigrationsAre
  <2> QED
    BY <1>4, <2>1, <2>2
<1>7. [toEdge |-> S, migrations |-> MovesBy(c, m)] \in Suggestions(c)
  BY <1>3, <1>5, <1>6 DEF Suggestions
<1> QED
  BY <1>2, <1>4, <1>7 DEF SuggestionIsCovered, MovesBy

(* SuggestReorder's suggestions are Placement's, however many pods they    *)
(* migrate: the pods that are pulled from the cloud fit the edge, no more  *)
(* of them would, the ones that move have room once all of them have left, *)
(* and no deployment loses its last running pod.                           *)
THEOREM TheSuggestionsAreAlwaysCovered == Spec => []SuggestionsAreCovered
<1>1. ASSUME SimulationInv PROVE SuggestionsAreCovered
  <2>1. Tidy(cluster)
    BY <1>1 DEF SimulationInv
  <2>2. ASSUME NEW W \in SUBSET Present(cluster), NEW c,
               c = Clone([cluster EXCEPT !.status =
                            [o \in PodObj |-> IF Id(o) \in W THEN "SCHEDULED" ELSE @[o]]]),
               NEW s \in SuggestReorder(c)
        PROVE  SuggestionIsCovered(c, s)
    <3>1. PICK status : status = [o \in PodObj |-> IF Id(o) \in W THEN "SCHEDULED" ELSE cluster.status[o]]
      OBVIOUS
    <3>2. status \in [PodObj -> Status]
      BY <2>1, <3>1 DEF Tidy, ClusterStates, Status
    <3>3. c = Clone([cluster EXCEPT !.status = status])
      BY <2>2, <3>1
    <3>4. Tidy(c) /\ Counted(c)
      BY <2>1, <3>2, <3>3, CloneIsTidy
    <3> QED
      BY <2>2, <3>4, SuggestionIs
  <2> QED
    BY <2>2 DEF SuggestionsAreCovered, SuggestionIsCovered
<1> QED
  BY SimulationIsTidy, <1>1, PTL

-----------------------------------------------------------------------------
(* The same in terms of the pods that stay.                                *)

(* It pulls one of Placement's choices of cloud pods and nothing else, the *)
(* migrating pods have room at their new nodes with the ones that stay,    *)
(* and none of them is the last running pod of its deployment.             *)
Sound(c, s) ==
    LET d == s.decision
        m == d.migrations
    IN /\ s.cloudToEdge \in CloudToEdge(c)
       /\ d.toEdge = s.cloudToEdge /\ d.toCloud = {} /\ d.freed = {}
       /\ Cardinality(DOMAIN m) <= MaximumMigrations
       /\ \A n \in EdgeNode, r \in Resource :
            TotalSize(Sent(m, n))[r] + TotalSize(At(c, n) \ DOMAIN m)[r] <= Resources[n][r]
       /\ \A p \in DOMAIN m : Running(c, p) =>
            \E q \in Present(c) \ DOMAIN m : Running(c, q) /\ DeploymentOf[q] = DeploymentOf[p]

SuggestionsAreSound ==
    \A status \in [PodObj -> Status] :
        LET c == Clone([cluster EXCEPT !.status = status])
        IN \A s \in SuggestReorder(c) : Sound(c, s)

(* Not all the running pods of a deployment are in a set that holds fewer  *)
(* of them than the deployment has.                                        *)
LEMMA SomeRunnerStays ==
  ASSUME NEW c, Tidy(c), NEW d \in Deployment, NEW M \in SUBSET Pod,
         CountIn({q \in M : Running(c, q)}, d) < NumRunningInClone(c, d)
  PROVE  \E q \in Present(c) \ M : Running(c, q) /\ DeploymentOf[q] = d
<1>1. SUFFICES ASSUME \A q \in Present(c) \ M : ~(Running(c, q) /\ DeploymentOf[q] = d) PROVE FALSE
  OBVIOUS
<1>2. c \in ClusterStates /\ Present(c) = {p \in Pod : c.edgePods[Obj(p)] > 0} \cup {p \in Pod : c.cloudPods[Obj(p)] > 0}
  BY TidySides, Sides DEF Tidy, Present
<1>3. PICK f, R : f = EntriesOf(c) /\ R = Runners(c, d)
  OBVIOUS
<1>4. IsFiniteSet(R) /\ NumRunningInClone(c, d) = SumFunctionOnSet(f, R)
  BY <1>3, NumRunningIs
<1>5. PICK X : X = {q \in M : Running(c, q) /\ DeploymentOf[q] = d} /\ X \in SUBSET Pod /\ IsFiniteSet(X)
  BY PodsFinite
<1>6. CountIn({q \in M : Running(c, q)}, d) = Cardinality(X)
  <2>1. {q \in {q \in M : Running(c, q)} : DeploymentOf[q] = d} = X
    BY <1>5
  <2> QED
    BY <2>1 DEF CountIn
<1>7. PICK T : T = {o \in R : f[o] # 0} /\ T \in SUBSET R /\ IsFiniteSet(T)
  <2>1. PICK T : T = {o \in R : f[o] # 0} /\ T \in SUBSET R
    OBVIOUS
  <2> QED
    BY <1>4, <2>1, FS_Subset
<1>8. ASSUME NEW o \in R
      PROVE  f[o] \in Nat /\ (f[o] # 0 => f[o] = 1 /\ o[1] \in X /\ o = Obj(o[1]))
  <2>1. PICK p : p = o[1] /\ o \in PodObj /\ Dep(o) = d /\ c.status[o] = "RUNNING"
    BY <1>3 DEF Runners
  <2>2. p \in Pod /\ o = <<p, o[2]>> /\ DeploymentOf[p] = d
    BY <2>1 DEF PodObj, Dep
  <2>3. PICK i, j : i = c.edgePods[o] /\ j = c.cloudPods[o] /\ f[o] = i + j /\ i \in Nat /\ j \in Nat
    BY <1>2, <1>3, <2>1, EntryTypes DEF EntriesOf
  <2>4. ASSUME f[o] # 0
        PROVE  f[o] = 1 /\ p \in X /\ o = Obj(p)
    <3>1. o[2] = 1
      BY <2>1, <2>3, <2>4 DEF Tidy, OneObject
    <3>2. o = Obj(p)
      BY <2>2, <3>1 DEF Obj
    <3>3. i + j <= 1
      BY <2>2, <2>3, <3>2 DEF Tidy, OneEntry
    <3>4. f[o] = 1
      BY <2>3, <2>4, <3>3
    <3>5. p \in Present(c)
      BY <1>2, <2>2, <2>3, <2>4, <3>2
    <3>6. c.podsMap[p] = Obj(p)
      BY <2>2, <2>3, <2>4, <3>2 DEF Tidy, Mapped
    <3>7. Running(c, p)
      BY <2>1, <3>2, <3>6 DEF Running
    <3> QED
      BY <1>1, <1>5, <2>2, <3>2, <3>4, <3>5, <3>7
  <2> QED
    BY <2>1, <2>3, <2>4
<1>9. SumFunctionOnSet(f, R) = SumFunctionOnSet(f, T)
  <2>1. (\A x \in R : f[x] \in Int) /\ \A x \in R \ T : f[x] = 0
    BY <1>7, <1>8
  <2> QED
    BY ONLY <1>4, <1>7, <2>1, SumSupport
<1>10. SumFunctionOnSet(f, T) = Cardinality(T)
  BY <1>7, <1>8, SumOnes
<1>11. Cardinality(T) <= Cardinality(X)
  <2>1. PICK h : h = [o \in T |-> o[1]]
    OBVIOUS
  <2>2. h \in Injection(T, X)
    <3>1. \A o \in T : o[1] \in X /\ o = Obj(o[1])
      BY <1>7, <1>8
    <3>2. h \in [T -> X]
      BY <2>1, <3>1
    <3>3. \A o, u \in T : h[o] = h[u] => o = u
      BY <2>1, <3>1
    <3> QED
      BY <3>2, <3>3 DEF Injection, IsInjective
  <2> QED
    BY <1>5, <1>7, <2>2, FS_Injection DEF ExistsInjection
<1> QED
  BY <1>4, <1>5, <1>6, <1>7, <1>9, <1>10, <1>11, FS_CardinalityType

(* Migrations that free nothing first.                                     *)
LEMMA MigrationsAreFew ==
  ASSUME NEW c, Tidy(c), Counted(c), NEW m \in CalcMigrations(c, {})
  PROVE  /\ Cardinality(DOMAIN m) <= MaximumMigrations
         /\ \A p \in DOMAIN m : Running(c, p) =>
              \E q \in Present(c) \ DOMAIN m : Running(c, q) /\ DeploymentOf[q] = DeploymentOf[p]
<1>1. m = <<>> \/ \E S \in GetPossiblePodChoices(c, {}) : DOMAIN m = S
  BY DEF CalcMigrations, OrElse, HighestValue
<1>2. CASE m = <<>>
  <2>1. DOMAIN m = {}
    BY <1>2
  <2>2. Cardinality(DOMAIN m) = 0
    BY <2>1, FS_EmptySet
  <2> QED
    BY <2>1, <2>2, PlacementBounds
<1>3. ASSUME NEW S \in GetPossiblePodChoices(c, {}), DOMAIN m = S
      PROVE  /\ Cardinality(S) <= MaximumMigrations
             /\ \A p \in S : Running(c, p) =>
                  \E q \in Present(c) \ S : Running(c, q) /\ DeploymentOf[q] = DeploymentOf[p]
  <2>1. /\ S \in SUBSET Pod /\ IsFiniteSet(S) /\ Cardinality(S) \in 1..MaximumMigrations
        /\ isAllowedToMove(c, {}, S)
    BY PodsFinite DEF GetPossiblePodChoices, EdgePods
  <2>2. ASSUME NEW p \in S, Running(c, p)
        PROVE  \E q \in Present(c) \ S : Running(c, q) /\ DeploymentOf[q] = DeploymentOf[p]
    <3>1. PICK d : d = DeploymentOf[p] /\ d \in Deployment
      BY <2>1, PodsAreLabelled
    <3>2. PICK R, X : R = {q \in S : Running(c, q)} /\ X = {q \in R : DeploymentOf[q] = d} /\ p \in X
      <4>1. PICK R : R = {q \in S : Running(c, q)}
        OBVIOUS
      <4>2. PICK X : X = {q \in R : DeploymentOf[q] = d}
        OBVIOUS
      <4>3. p \in X
        BY <2>2, <3>1, <4>1, <4>2
      <4> QED
        BY <4>1, <4>2, <4>3
    <3>3. {} \cup S = S
      OBVIOUS
    <3>4. CountIn(R, d) = 0 \/ CountIn(R, d) < c.numRunning[d]
      BY <2>1, <3>1, <3>2, <3>3 DEF isAllowedToMove
    <3>5. IsFiniteSet(X) /\ X # {}
      BY <2>1, <3>2, FS_Subset
    <3>6. CountIn(R, d) # 0
      BY <3>2, <3>5, FS_EmptySet DEF CountIn
    <3>7. CountIn(R, d) < NumRunningInClone(c, d)
      BY <3>1, <3>4, <3>6 DEF Counted
    <3> QED
      BY <2>1, <3>1, <3>2, <3>7, SomeRunnerStays
  <2> QED
    BY <2>1, <2>2
<1> QED
  BY <1>1, <1>2, <1>3

(* So it is with every suggestion that SuggestReorder makes, with whatever *)
(* status the pods have: MCSimulating has at most two that wait to run.    *)
THEOREM TheSuggestionsAreAlwaysSound == Spec => []SuggestionsAreSound
<1>1. ASSUME SimulationInv PROVE SuggestionsAreSound
  <2>1. SUFFICES ASSUME NEW status \in [PodObj -> Status], NEW c, c = Clone([cluster EXCEPT !.status = status]),
                        NEW s \in SuggestReorder(c)
                 PROVE  Sound(c, s)
    BY DEF SuggestionsAreSound
  <2>2. Tidy(c) /\ Counted(c)
    BY <1>1, <2>1, CloneIsTidy DEF SimulationInv
  <2>3. PICK S, d : /\ S \in SuggestCloudToEdge(c) /\ d \in MakeDecisionForNewPods(c, S, TRUE)
                    /\ s = [cloudToEdge |-> S, decision |-> d]
    BY DEF SuggestReorder
  <2>4. S \in CloudToEdge(c) /\ S \in SUBSET CloudPods(c) /\ FitsEdge(c, S)
    BY <2>2, <2>3, SuggestedAreChosen
  <2>5. PICK m : /\ m = d.migrations /\ d.toEdge = S /\ d.toCloud = {} /\ d.freed = {}
                 /\ m = <<>> \/ m \in CalcMigrations(c, {})
    BY <2>2, <2>3, <2>4, SuggestedDecision, ZenonT(30)
  <2>6. /\ Cardinality(DOMAIN m) <= MaximumMigrations
        /\ \A p \in DOMAIN m : Running(c, p) =>
             \E q \in Present(c) \ DOMAIN m : Running(c, q) /\ DeploymentOf[q] = DeploymentOf[p]
    <3>1. CASE m = <<>>
      <4>1. DOMAIN m = {}
        BY <3>1
      <4>2. Cardinality(DOMAIN m) = 0
        BY <4>1, FS_EmptySet
      <4> QED
        BY <4>1, <4>2, PlacementBounds
    <3>2. CASE m \in CalcMigrations(c, {})
      BY <2>2, <3>2, MigrationsAreFew
    <3> QED
      BY <2>5, <3>1, <3>2
  <2>7. Movable(c, {}, m)
    <3>1. Feasible(c, S, d)
      BY <2>5 DEF Feasible
    <3>2. Movable(c, d.freed, d.migrations)
      BY <2>2, <3>1, FeasibleMoves
    <3> QED
      BY <2>5, <3>2
  <2>8. ASSUME NEW n \in EdgeNode, NEW r \in Resource
        PROVE  TotalSize(Sent(m, n))[r] + TotalSize(At(c, n) \ DOMAIN m)[r] <= Resources[n][r]
    <3>1. (At(c, n) \ {}) \ DOMAIN m = At(c, n) \ DOMAIN m
      OBVIOUS
    <3> QED
      BY <2>7, <3>1 DEF Movable
  <2> QED
    BY <2>3, <2>4, <2>5, <2>6, <2>8 DEF Sound
<1> QED
  BY SimulationIsTidy, <1>1, PTL
=============================================================================
