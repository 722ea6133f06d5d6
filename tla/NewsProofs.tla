------------------------------ MODULE NewsProofs ------------------------------
(***************************************************************************)
(* Lemmas for FillingProofs: what keeps a view tidy, and how the news on   *)
(* their way to the scheduler move along.                                  *)
(***************************************************************************)
EXTENDS Filling, SchedulerProofs

(* The sizes of pods are natural, and sums of them make sense.             *)
LEMMA SizesType ==
  ASSUME NEW r \in Resource
  PROVE  \A p \in Pod : Sizes(r)[p] = ResourcesRequired[DeploymentOf[p]][r] /\ Sizes(r)[p] \in Nat
  BY PodsAreLabelled, ResourcesAreVectors DEF Sizes

(* Sets of pods are finite.                                                *)
LEMMA PodsFinite ==
  ASSUME NEW S \in SUBSET Pod
  PROVE  IsFiniteSet(S)
  BY PodsAreFinite, FS_Subset

(* A sum of sizes is a natural number.                                     *)
LEMMA SizeSumType ==
  ASSUME NEW r \in Resource, NEW S \in SUBSET Pod
  PROVE  SumFunctionOnSet(Sizes(r), S) \in Nat
<1>1. IsFiniteSet(S) /\ \A p \in S : Sizes(r)[p] \in Nat
  BY SizesType, PodsFinite
<1> QED
  BY <1>1, SumNat

-----------------------------------------------------------------------------
(* Tidy views.                                                             *)

(* A new view is tidy and sees nobody.                                     *)
LEMMA NewTidy == Tidy(NewClusterState) /\ \A p \in Pod : ~Seen(NewClusterState, p)
<1>1. \A p \in Pod : NewClusterState.podsMap[p] = Nil
  BY DEF NewClusterState
<1>2. \A n : SeenAt(NewClusterState, n) = {}
  BY <1>1 DEF SeenAt, Seen
<1>3. \A n \in EdgeNode, r \in Resource :
         NewClusterState.nodeUsed[n][r] = SumFunctionOnSet(Sizes(r), SeenAt(NewClusterState, n))
  BY <1>2, SumEmpty DEF NewClusterState
<1>4. \A o \in PodObj : /\ NewClusterState.node[o] = Nil /\ NewClusterState.edgePods[o] = 0
                        /\ NewClusterState.cloudPods[o] = 0
  BY DEF NewClusterState
<1>5. Nil \notin EdgeNode /\ Nil \notin CloudNode
  BY NodesAreDistinct
<1> QED
  BY <1>1, <1>3, <1>4, <1>5 DEF Tidy, Seen

(* Nil is neither an object nor a node.                                    *)
LEMMA NilIsNoObject == Nil \notin PodObj /\ Nil \notin Node
  BY NodesAreDistinct DEF PodObj, Node

(* A pod that is not in the view has no object with a node.                *)
LEMMA Unseen ==
  ASSUME NEW c, Tidy(c), NEW o \in PodObj, ~Seen(c, Id(o))
  PROVE  c.node[o] = Nil
  BY NilIsNoObject DEF Tidy, Seen

(* How d differs from c when o is entered at n.                            *)
Enters(c, d, o, n) ==
  /\ d.node = [c.node EXCEPT ![o] = n]
  /\ d.podsMap = [c.podsMap EXCEPT ![Id(o)] = o]
  /\ d.edgePods = IF n \in EdgeNode THEN [c.edgePods EXCEPT ![o] = @ + 1] ELSE c.edgePods
  /\ d.cloudPods = IF n \in EdgeNode THEN c.cloudPods ELSE [c.cloudPods EXCEPT ![o] = @ + 1]
  /\ \A m \in EdgeNode, r \in Resource :
        d.nodeUsed[m][r] = c.nodeUsed[m][r] + IF m = n THEN Sizes(r)[Id(o)] ELSE 0

(* One more pod is entered.                                                *)
LEMMA EnteredTidy ==
  ASSUME NEW c \in ClusterStates, Tidy(c), NEW o \in PodObj, ~Seen(c, Id(o)),
         NEW n \in Node, NEW d \in ClusterStates, Enters(c, d, o, n)
  PROVE  /\ Tidy(d)
         /\ \A p \in Pod : Seen(d, p) <=> Seen(c, p) \/ p = Id(o)
         /\ \A m : SeenAt(d, m) = IF m = n THEN SeenAt(c, m) \cup {Id(o)} ELSE SeenAt(c, m)
<1>1. Id(o) \in Pod
  BY PodObjType
<1>2. c.node[o] = Nil
  BY Unseen
<1>3. /\ c.node \in [PodObj -> Node \cup {Nil}] /\ c.podsMap \in [Pod -> PodObj \cup {Nil}]
      /\ c.edgePods \in [PodObj -> Nat] /\ c.cloudPods \in [PodObj -> Nat]
  BY DEF ClusterStates
<1>4. /\ \A p \in Pod : d.podsMap[p] = IF p = Id(o) THEN o ELSE c.podsMap[p]
      /\ \A x \in PodObj : d.node[x] = IF x = o THEN n ELSE c.node[x]
  BY <1>1, <1>3 DEF Enters
<1>5. \A p \in Pod : p # Id(o) => c.podsMap[p] # o
  BY NilIsNoObject DEF Tidy
<1>6. ASSUME NEW p \in Pod
      PROVE  /\ Seen(d, p) <=> Seen(c, p) \/ p = Id(o)
             /\ p # Id(o) /\ Seen(c, p) => d.node[d.podsMap[p]] = c.node[c.podsMap[p]]
             /\ p = Id(o) => d.node[d.podsMap[p]] = n
  <2>1. c.podsMap[p] \in PodObj \cup {Nil}
    BY <1>3
  <2> QED
    BY <2>1, <1>1, <1>4, <1>5, NilIsNoObject DEF Seen
<1>7. \A m : SeenAt(d, m) = IF m = n THEN SeenAt(c, m) \cup {Id(o)} ELSE SeenAt(c, m)
  <2>1. ASSUME NEW m, NEW p \in Pod
        PROVE  p \in SeenAt(d, m) <=> IF m = n THEN p \in SeenAt(c, m) \/ p = Id(o) ELSE p \in SeenAt(c, m)
    BY <1>6 DEF SeenAt
  <2>2. \A m : SeenAt(d, m) \subseteq Pod /\ SeenAt(c, m) \subseteq Pod
    BY DEF SeenAt
  <2>3. ASSUME NEW m, m # n
        PROVE  SeenAt(d, m) = SeenAt(c, m)
    <3>1. \A p \in Pod : p \in SeenAt(d, m) <=> p \in SeenAt(c, m)
      BY <2>1, <2>3
    <3> QED
      BY ONLY <3>1, <2>2
  <2>4. SeenAt(d, n) = SeenAt(c, n) \cup {Id(o)}
    BY <1>1, <2>1, <2>2
  <2> QED
    BY <2>3, <2>4
<1>8. ASSUME NEW m \in EdgeNode, NEW r \in Resource
      PROVE  d.nodeUsed[m][r] = SumFunctionOnSet(Sizes(r), SeenAt(d, m))
  <2>1. c.nodeUsed[m][r] = SumFunctionOnSet(Sizes(r), SeenAt(c, m)) /\ SeenAt(c, m) \subseteq Pod
    BY DEF Tidy, SeenAt
  <2>2. Sizes(r)[Id(o)] \in Int /\ IsFiniteSet(SeenAt(c, m)) /\ \A p \in SeenAt(c, m) : Sizes(r)[p] \in Int
    BY <1>1, <2>1, SizesType, PodsFinite
  <2>3. Id(o) \notin SeenAt(c, m)
    BY DEF SeenAt
  <2>4. SumFunctionOnSet(Sizes(r), SeenAt(c, m) \cup {Id(o)}) = Sizes(r)[Id(o)] + SumFunctionOnSet(Sizes(r), SeenAt(c, m))
    BY <2>2, <2>3, SumAdd
  <2>5. SumFunctionOnSet(Sizes(r), SeenAt(c, m)) \in Nat
    BY <2>1, SizeSumType
  <2>6. d.nodeUsed[m][r] = SumFunctionOnSet(Sizes(r), SeenAt(c, m)) + IF m = n THEN Sizes(r)[Id(o)] ELSE 0
    BY <2>1 DEF Enters
  <2>7. CASE m = n
    <3>1. SeenAt(d, m) = SeenAt(c, m) \cup {Id(o)}
      BY <1>7, <2>7
    <3>2. d.nodeUsed[m][r] = SumFunctionOnSet(Sizes(r), SeenAt(c, m)) + Sizes(r)[Id(o)]
      BY <2>6, <2>7
    <3> QED
      BY ONLY <3>1, <3>2, <2>2, <2>4, <2>5
  <2>8. CASE m # n
    <3>1. SeenAt(d, m) = SeenAt(c, m)
      BY <1>7, <2>8
    <3>2. d.nodeUsed[m][r] = SumFunctionOnSet(Sizes(r), SeenAt(c, m)) + 0
      BY <2>6, <2>8
    <3> QED
      BY ONLY <3>1, <3>2, <2>5
  <2> QED
    BY <2>7, <2>8
<1>9. ASSUME NEW x \in PodObj
      PROVE  /\ d.node[x] # Nil => d.podsMap[Id(x)] = x
             /\ d.edgePods[x] = IF d.node[x] \in EdgeNode THEN 1 ELSE 0
             /\ d.cloudPods[x] = IF d.node[x] \in CloudNode THEN 1 ELSE 0
  <2>1. /\ c.node[x] # Nil => c.podsMap[Id(x)] = x
        /\ c.edgePods[x] = IF c.node[x] \in EdgeNode THEN 1 ELSE 0
        /\ c.cloudPods[x] = IF c.node[x] \in CloudNode THEN 1 ELSE 0
    BY DEF Tidy
  <2>2. Id(x) \in Pod
    BY PodObjType
  <2>3. n \in EdgeNode <=> n \notin CloudNode
    BY NodesAreDistinct DEF Node
  <2>4. CASE x = o
    <3>1. c.edgePods[x] = 0 /\ c.cloudPods[x] = 0
      BY <2>1, <2>4, <1>2, NodesAreDistinct
    <3> QED
      BY <3>1, <2>4, <2>3, <1>1, <1>3, <1>4 DEF Enters
  <2>5. CASE x # o
    <3>1. d.edgePods[x] = c.edgePods[x] /\ d.cloudPods[x] = c.cloudPods[x] /\ d.node[x] = c.node[x]
      BY <2>5, <1>3, <1>4 DEF Enters
    <3>2. d.node[x] # Nil => d.podsMap[Id(x)] = x
      <4>1. c.node[x] # Nil => Seen(c, Id(x))
        BY <2>1, NilIsNoObject DEF Seen
      <4> QED
        BY <4>1, <3>1, <2>1, <2>2, <1>4
    <3> QED
      BY <3>1, <3>2, <2>1
  <2> QED
    BY <2>4, <2>5
<1>10. \A p \in Pod : d.podsMap[p] # Nil => Id(d.podsMap[p]) = p
  BY <1>4 DEF Tidy
<1> QED
  BY <1>6, <1>7, <1>8, <1>9, <1>10 DEF Tidy

(* What DeployEdge does to the record, if the pod fits.                    *)
LEMMA DeployEdgeIs ==
  ASSUME NEW c \in ClusterStates, NEW o \in PodObj, NEW n \in EdgeNode, Fits(c, Id(o), n)
  PROVE  LET d == DeployEdge(c, o, n)
         IN /\ d.node = [c.node EXCEPT ![o] = n]
            /\ d.podsMap = [c.podsMap EXCEPT ![Id(o)] = o]
            /\ d.edgePods = [c.edgePods EXCEPT ![o] = @ + 1]
            /\ d.cloudPods = c.cloudPods
            /\ \A m \in EdgeNode, r \in Resource :
                  d.nodeUsed[m][r] = c.nodeUsed[m][r] + IF m = n THEN Sizes(r)[Id(o)] ELSE 0
<1> DEFINE used == [c.nodeUsed EXCEPT ![n] = [r \in Resource |-> @[r] + ResourcesRequired[Dep(o)][r]]]
<1>1. DeployEdge(c, o, n) =
        [c EXCEPT !.edgePods = [c.edgePods EXCEPT ![o] = @ + 1],
                  !.node     = [c.node EXCEPT ![o] = n],
                  !.nodeUsed = used,
                  !.podsMap  = [c.podsMap EXCEPT ![Id(o)] = o]]
  BY DEF DeployEdge
<1>2. ASSUME NEW m \in EdgeNode, NEW r \in Resource
      PROVE  used[m][r] = c.nodeUsed[m][r] + IF m = n THEN Sizes(r)[Id(o)] ELSE 0
  <2>1. Sizes(r)[Id(o)] = ResourcesRequired[Dep(o)][r]
    BY PodObjType, SizesType DEF Dep, Id
  <2>2. c.nodeUsed \in [EdgeNode -> [Resource -> Int]]
    BY DEF ClusterStates
  <2>3. c.nodeUsed[m][r] \in Int
    BY <2>2
  <2> QED
    BY <2>1, <2>2, <2>3
<1> HIDE DEF used
<1> QED
  BY <1>1, <1>2 DEF ClusterStates

(* A pod is deployed to an edge node it fits, or to the cloud.             *)
LEMMA DeployTidy ==
  ASSUME NEW c \in ClusterStates, Tidy(c), NEW o \in PodObj, ~Seen(c, Id(o)), NEW n \in Node,
         NEW d, \/ n \in EdgeNode /\ Fits(c, Id(o), n) /\ d = DeployEdge(c, o, n)
                \/ n \in CloudNode /\ d = DeployCloud(c, o, n)
  PROVE  /\ d \in ClusterStates /\ Tidy(d)
         /\ d.node = [c.node EXCEPT ![o] = n]
         /\ d.podsMap = [c.podsMap EXCEPT ![Id(o)] = o]
         /\ \A p \in Pod : Seen(d, p) <=> Seen(c, p) \/ p = Id(o)
         /\ \A m : SeenAt(d, m) = IF m = n THEN SeenAt(c, m) \cup {Id(o)} ELSE SeenAt(c, m)
<1>1. CASE n \in EdgeNode /\ Fits(c, Id(o), n) /\ d = DeployEdge(c, o, n)
  <2>1. d \in ClusterStates
    BY <1>1, DeployEdgeType
  <2>2. /\ d.node = [c.node EXCEPT ![o] = n]
        /\ d.podsMap = [c.podsMap EXCEPT ![Id(o)] = o]
        /\ d.edgePods = [c.edgePods EXCEPT ![o] = @ + 1]
        /\ d.cloudPods = c.cloudPods
        /\ \A m \in EdgeNode, r \in Resource :
              d.nodeUsed[m][r] = c.nodeUsed[m][r] + IF m = n THEN Sizes(r)[Id(o)] ELSE 0
    BY <1>1, DeployEdgeIs
  <2>3. /\ d.edgePods = IF n \in EdgeNode THEN [c.edgePods EXCEPT ![o] = @ + 1] ELSE c.edgePods
        /\ d.cloudPods = IF n \in EdgeNode THEN c.cloudPods ELSE [c.cloudPods EXCEPT ![o] = @ + 1]
    BY <1>1, <2>2
  <2>4. Enters(c, d, o, n)
    BY <2>2, <2>3 DEF Enters
  <2> QED
    BY <2>1, <2>2, <2>4, EnteredTidy
<1>2. CASE n \in CloudNode /\ d = DeployCloud(c, o, n)
  <2>1. d \in ClusterStates
    BY <1>2, DeployCloudType
  <2>2. n \notin EdgeNode
    BY <1>2, NodesAreDistinct
  <2>3. d = [c EXCEPT !.cloudPods = [c.cloudPods EXCEPT ![o] = @ + 1],
                      !.node      = [c.node EXCEPT ![o] = n],
                      !.podsMap   = [c.podsMap EXCEPT ![Id(o)] = o]]
    BY <1>2 DEF DeployCloud
  <2>4. /\ d.node = [c.node EXCEPT ![o] = n]
        /\ d.podsMap = [c.podsMap EXCEPT ![Id(o)] = o]
        /\ d.edgePods = c.edgePods
        /\ d.cloudPods = [c.cloudPods EXCEPT ![o] = @ + 1]
        /\ d.nodeUsed = c.nodeUsed
    BY <2>3 DEF ClusterStates
  <2>5. ASSUME NEW m \in EdgeNode, NEW r \in Resource
        PROVE  d.nodeUsed[m][r] = c.nodeUsed[m][r] + IF m = n THEN Sizes(r)[Id(o)] ELSE 0
    <3>1. c.nodeUsed[m][r] \in Int
      BY DEF ClusterStates
    <3> QED
      BY <3>1, <2>2, <2>4
  <2>6. /\ d.edgePods = IF n \in EdgeNode THEN [c.edgePods EXCEPT ![o] = @ + 1] ELSE c.edgePods
        /\ d.cloudPods = IF n \in EdgeNode THEN c.cloudPods ELSE [c.cloudPods EXCEPT ![o] = @ + 1]
    BY <2>2, <2>4
  <2>7. \A m \in EdgeNode, r \in Resource :
          d.nodeUsed[m][r] = c.nodeUsed[m][r] + IF m = n THEN Sizes(r)[Id(o)] ELSE 0
    BY <2>5
  <2>8. d.node = [c.node EXCEPT ![o] = n] /\ d.podsMap = [c.podsMap EXCEPT ![Id(o)] = o]
    BY <2>4
  <2>9. Enters(c, d, o, n)
    BY <2>6, <2>7, <2>8 DEF Enters
  <2> QED
    BY <2>1, <2>8, <2>9, EnteredTidy
<1> QED
  BY <1>1, <1>2

(* What does not touch the entries, the nodes and the charges, and gives   *)
(* objects only to pods that had none, leaves the view tidy.               *)
LEMMA SameEntriesTidy ==
  ASSUME NEW c \in ClusterStates, Tidy(c), NEW d,
         d.node = c.node, d.edgePods = c.edgePods, d.cloudPods = c.cloudPods, d.nodeUsed = c.nodeUsed,
         NEW p \in Pod, NEW o \in PodObj, Id(o) = p,
         d.podsMap = c.podsMap \/ (c.podsMap[p] = Nil /\ d.podsMap = [c.podsMap EXCEPT ![p] = o])
  PROVE  /\ Tidy(d)
         /\ \A x \in Pod : Seen(d, x) <=> Seen(c, x)
         /\ \A n : SeenAt(d, n) = SeenAt(c, n)
<1>1. c.podsMap \in [Pod -> PodObj \cup {Nil}]
  BY DEF ClusterStates
<1>2. ASSUME c.podsMap[p] = Nil
      PROVE  \A x \in PodObj : Id(x) = p => c.node[x] = Nil
  BY <1>2, Unseen DEF Seen
<1>3. ASSUME NEW x \in Pod
      PROVE  /\ Seen(d, x) <=> Seen(c, x)
             /\ Seen(c, x) => d.podsMap[x] = c.podsMap[x]
             /\ d.podsMap[x] # Nil => Id(d.podsMap[x]) = x
  <2>1. c.podsMap[x] # Nil => Id(c.podsMap[x]) = x
    BY DEF Tidy
  <2>2. CASE d.podsMap = c.podsMap
    BY <2>1, <2>2 DEF Seen
  <2>3. CASE c.podsMap[p] = Nil /\ d.podsMap = [c.podsMap EXCEPT ![p] = o] /\ x = p
    BY <2>3, <1>1, <1>2 DEF Seen
  <2>4. CASE c.podsMap[p] = Nil /\ d.podsMap = [c.podsMap EXCEPT ![p] = o] /\ x # p
    BY <2>1, <2>4, <1>1 DEF Seen
  <2> QED
    BY <2>2, <2>3, <2>4
<1>4. \A n : SeenAt(d, n) = SeenAt(c, n)
  BY <1>3 DEF SeenAt
<1>5. ASSUME NEW x \in PodObj, c.node[x] # Nil
      PROVE  d.podsMap[Id(x)] = x
  <2>1. c.podsMap[Id(x)] = x /\ Id(x) \in Pod
    BY <1>5, PodObjType DEF Tidy
  <2>2. Seen(c, Id(x))
    BY <2>1, <1>5, NilIsNoObject DEF Seen
  <2> QED
    BY <2>1, <2>2, <1>3
<1> QED
  BY <1>3, <1>4, <1>5 DEF Tidy

-----------------------------------------------------------------------------
(* What is under way, as a sequence.                                       *)

(* What events say are notes.                                              *)
LEMMA NotesType ==
  /\ \A e \in SchedulingEvent : Said(e) \in Notes
  /\ \A e \in WatchEvent : Says(e) \in Notes
  /\ \A p \in Pod : \A w \in {"created", "bound", "started"} : Note(w, p) \in Notes
  BY PodObjType DEF SchedulingEvent, WatchEvent, Said, Says, Note, Notes

(* Where the elements of two sequences are in the one made of both.        *)
LEMMA ConcatAt ==
  ASSUME NEW S, NEW s \in Seq(S), NEW t \in Seq(S)
  PROVE  /\ s \o t \in Seq(S) /\ Len(s \o t) = Len(s) + Len(t)
         /\ \A i \in 1..Len(s) : (s \o t)[i] = s[i]
         /\ \A i \in 1..Len(t) : (s \o t)[Len(s) + i] = t[i]
  OBVIOUS

(* The notes under way: of the events on offer, then of those sent.        *)
LEMMA UnderIs ==
  ASSUME NEW es \in Seq(SchedulingEvent), NEW q \in Seq(WatchEvent)
  PROVE  /\ Under(es, q) \in Seq(Notes) /\ Len(Under(es, q)) = Len(es) + Len(q)
         /\ \A i \in 1..Len(es) : Under(es, q)[i] = Said(es[i])
         /\ \A i \in 1..Len(q) : Under(es, q)[Len(es) + i] = Says(q[i])
<1> DEFINE a == [i \in DOMAIN es |-> Said(es[i])]
           b == [i \in DOMAIN q |-> Says(q[i])]
<1>1. a \in Seq(Notes) /\ Len(a) = Len(es) /\ \A i \in 1..Len(es) : a[i] = Said(es[i])
  BY NotesType
<1>2. b \in Seq(Notes) /\ Len(b) = Len(q) /\ \A i \in 1..Len(q) : b[i] = Says(q[i])
  BY NotesType
<1>3. Under(es, q) = a \o b
  BY DEF Under
<1> HIDE DEF a, b
<1>4. /\ a \o b \in Seq(Notes) /\ Len(a \o b) = Len(a) + Len(b)
      /\ \A i \in 1..Len(a) : (a \o b)[i] = a[i]
      /\ \A i \in 1..Len(b) : (a \o b)[Len(a) + i] = b[i]
  <2>1. a \in Seq(Notes) /\ b \in Seq(Notes)
    BY <1>1, <1>2
  <2> QED
    BY ONLY <2>1, ConcatAt
<1> QED
  BY ONLY <1>1, <1>2, <1>3, <1>4

(* Another event is sent,                                                  *)
LEMMA UnderSent ==
  ASSUME NEW es \in Seq(SchedulingEvent), NEW q \in Seq(WatchEvent), NEW e \in WatchEvent
  PROVE  Under(es, Append(q, e)) = Append(Under(es, q), Says(e))
<1> DEFINE u == Under(es, q)
           v == Under(es, Append(q, e))
<1>1. /\ u \in Seq(Notes) /\ Len(u) = Len(es) + Len(q)
      /\ \A i \in 1..Len(es) : u[i] = Said(es[i])
      /\ \A i \in 1..Len(q) : u[Len(es) + i] = Says(q[i])
  BY UnderIs
<1>2. Append(q, e) \in Seq(WatchEvent) /\ Len(Append(q, e)) = Len(q) + 1
  OBVIOUS
<1>3. /\ v \in Seq(Notes) /\ Len(v) = Len(es) + (Len(q) + 1)
      /\ \A i \in 1..Len(es) : v[i] = Said(es[i])
      /\ \A i \in 1..(Len(q) + 1) : v[Len(es) + i] = Says(Append(q, e)[i])
  BY <1>2, UnderIs
<1>4. Len(es) \in Nat /\ Len(q) \in Nat
  OBVIOUS
<1> HIDE DEF u, v
<1>5. \A k \in 1..Len(u) : v[k] = u[k]
  <2> TAKE k \in 1..Len(u)
  <2>1. CASE k <= Len(es)
    BY <2>1, <1>1, <1>3, <1>4
  <2>2. CASE k > Len(es)
    <3>1. PICK i \in 1..Len(q) : k = Len(es) + i
      <4>1. k - Len(es) \in 1..Len(q) /\ k = Len(es) + (k - Len(es))
        BY <2>2, <1>1, <1>4
      <4> QED
        BY <4>1
    <3>2. i \in 1..(Len(q) + 1) /\ Append(q, e)[i] = q[i]
      BY <1>4
    <3>3. u[Len(es) + i] = Says(q[i])
      BY <1>1
    <3>4. v[Len(es) + i] = Says(Append(q, e)[i])
      BY <1>3, <3>2
    <3> QED
      BY <3>1, <3>2, <3>3, <3>4
  <2> QED
    BY <2>1, <2>2, <1>1, <1>4
<1>6. v[Len(u) + 1] = Says(e)
  <2>1. Append(q, e)[Len(q) + 1] = e /\ Len(q) + 1 \in 1..(Len(q) + 1) /\ Len(u) + 1 = Len(es) + (Len(q) + 1)
    BY <1>1, <1>4
  <2> QED
    BY <2>1, <1>3
<1>7. Says(e) \in Notes
  BY NotesType
<1>8. Len(v) = Len(u) + 1
  BY <1>1, <1>3, <1>4
<1>9. v = Append(u, Says(e))
  BY <1>1, <1>3, <1>5, <1>6, <1>7, <1>8
<1> QED
  BY <1>9 DEF u, v

(* the first one is offered,                                               *)
LEMMA UnderOnlySent ==
  ASSUME NEW q \in Seq(WatchEvent)
  PROVE  /\ Under(<<>>, q) \in Seq(Notes) /\ Len(Under(<<>>, q)) = Len(q)
         /\ \A i \in 1..Len(q) : Under(<<>>, q)[i] = Says(q[i])
<1>1. <<>> \in Seq(SchedulingEvent) /\ Len(<<>>) = 0 /\ Len(q) \in Nat
  OBVIOUS
<1>2. /\ Under(<<>>, q) \in Seq(Notes) /\ Len(Under(<<>>, q)) = Len(<<>>) + Len(q)
      /\ \A i \in 1..Len(q) : Under(<<>>, q)[Len(<<>>) + i] = Says(q[i])
  BY <1>1, UnderIs
<1>3. \A i \in 1..Len(q) : Len(<<>>) + i = i
  BY <1>1
<1> QED
  BY ONLY <1>1, <1>2, <1>3

(* The notes when one event is on offer.                                   *)
LEMMA UnderOneOffered ==
  ASSUME NEW e \in SchedulingEvent, NEW q \in Seq(WatchEvent)
  PROVE  /\ Under(<<e>>, q) \in Seq(Notes) /\ Len(Under(<<e>>, q)) = 1 + Len(q)
         /\ Under(<<e>>, q)[1] = Said(e)
         /\ \A i \in 1..Len(q) : Under(<<e>>, q)[1 + i] = Says(q[i])
<1>1. <<e>> \in Seq(SchedulingEvent) /\ Len(<<e>>) = 1 /\ <<e>>[1] = e /\ 1 \in 1..1
  OBVIOUS
<1>2. /\ Under(<<e>>, q) \in Seq(Notes) /\ Len(Under(<<e>>, q)) = Len(<<e>>) + Len(q)
      /\ \A i \in 1..Len(<<e>>) : Under(<<e>>, q)[i] = Said(<<e>>[i])
      /\ \A i \in 1..Len(q) : Under(<<e>>, q)[Len(<<e>>) + i] = Says(q[i])
  BY <1>1, UnderIs
<1> QED
  BY ONLY <1>1, <1>2

(* The first event sent becomes the one on offer: the notes are the same.  *)
LEMMA UnderOffered ==
  ASSUME NEW q \in Seq(WatchEvent), q # <<>>, NEW e \in SchedulingEvent, Said(e) = Says(Head(q))
  PROVE  Under(<<e>>, Tail(q)) = Under(<<>>, q)
<1> DEFINE u == Under(<<>>, q)
           v == Under(<<e>>, Tail(q))
<1>1. Tail(q) \in Seq(WatchEvent)
  OBVIOUS
<1>2. /\ u \in Seq(Notes) /\ Len(u) = Len(q) /\ \A i \in 1..Len(q) : u[i] = Says(q[i])
  BY UnderOnlySent
<1>3. /\ v \in Seq(Notes) /\ Len(v) = Len(q) /\ v[1] = Said(e)
      /\ \A i \in 1..(Len(q) - 1) : v[1 + i] = Says(q[i + 1])
  <2>1. /\ Len(Tail(q)) = Len(q) - 1 /\ Len(q) \in Nat
        /\ \A i \in 1..(Len(q) - 1) : Tail(q)[i] = q[i + 1]
    OBVIOUS
  <2>2. /\ v \in Seq(Notes) /\ Len(v) = 1 + Len(Tail(q)) /\ v[1] = Said(e)
        /\ \A i \in 1..Len(Tail(q)) : v[1 + i] = Says(Tail(q)[i])
    BY <1>1, UnderOneOffered
  <2> HIDE DEF v
  <2>3. 1 + Len(Tail(q)) = Len(q)
    BY <2>1
  <2> QED
    BY ONLY <2>1, <2>2, <2>3
<1>4. Len(q) \in Nat /\ Head(q) = q[1] /\ Len(q) >= 1
  OBVIOUS
<1> HIDE DEF u, v
<1>5. \A k \in 1..Len(q) : v[k] = u[k]
  <2> TAKE k \in 1..Len(q)
  <2>1. CASE k = 1
    BY <2>1, <1>2, <1>3, <1>4
  <2>2. CASE k # 1
    <3>1. k - 1 \in 1..(Len(q) - 1) /\ k = 1 + (k - 1) /\ (k - 1) + 1 = k
      BY <2>2, <1>4
    <3> QED
      BY <3>1, <1>2, <1>3
  <2> QED
    BY <2>1, <2>2
<1>6. v = u
  BY <1>2, <1>3, <1>5
<1> QED
  BY <1>6 DEF u, v

(* and taken.                                                              *)
LEMMA UnderTaken ==
  ASSUME NEW q \in Seq(WatchEvent), NEW e \in SchedulingEvent
  PROVE  Under(<<e>>, q) = <<Said(e)>> \o Under(<<>>, q)
<1> DEFINE u == Under(<<>>, q)
           v == Under(<<e>>, q)
           w == <<Said(e)>> \o u
<1>2. /\ u \in Seq(Notes) /\ Len(u) = Len(q) /\ \A i \in 1..Len(q) : u[i] = Says(q[i])
  BY UnderOnlySent
<1>3. /\ v \in Seq(Notes) /\ Len(v) = 1 + Len(q) /\ v[1] = Said(e)
      /\ \A i \in 1..Len(q) : v[1 + i] = Says(q[i])
  BY UnderOneOffered
<1>4. Said(e) \in Notes /\ Len(q) \in Nat
  BY NotesType
<1> HIDE DEF u, v
<1>5. /\ w \in Seq(Notes) /\ Len(w) = 1 + Len(q) /\ w[1] = Said(e)
      /\ \A i \in 1..Len(q) : w[1 + i] = u[i]
  BY <1>2, <1>4
<1> HIDE DEF w
<1>6. \A k \in 1..(1 + Len(q)) : v[k] = w[k]
  <2> TAKE k \in 1..(1 + Len(q))
  <2>1. CASE k = 1
    BY <2>1, <1>3, <1>5
  <2>2. CASE k # 1
    <3>1. k - 1 \in 1..Len(q) /\ k = 1 + (k - 1)
      BY <2>2, <1>4
    <3> QED
      BY <3>1, <1>2, <1>3, <1>5
  <2> QED
    BY <2>1, <2>2
<1>7. v = w
  BY <1>3, <1>5, <1>6
<1> QED
  BY <1>7 DEF u, v, w

-----------------------------------------------------------------------------
(* The steps the pipe takes.                                               *)

(* A sequence with one element put before it, or none.                     *)
LEMMA Prepend ==
  ASSUME NEW s \in Seq(Notes), NEW x \in Notes, NEW y \in Notes
  PROVE  /\ <<>> \o s = s /\ Append(<<>> \o s, y) = <<>> \o Append(s, y)
         /\ LET t == <<x>> \o s
            IN /\ t \in Seq(Notes) /\ t # <<>> /\ t[1] = x /\ Tail(t) = s
               /\ Append(t, y) = <<x>> \o Append(s, y)
  OBVIOUS

UnderWay == Under(eventStream, watchq)

(* The pipe is what is under way, behind the event in hand if there is     *)
(* one.                                                                    *)
LEMMA PipeIs ==
  ASSUME IInv
  PROVE  /\ UnderWay \in Seq(Notes) /\ Pipe \in Seq(Notes)
         /\ pc # "event" => Pipe = UnderWay
         /\ pc = "event" => /\ Pipe = <<Said(event)>> \o UnderWay
                            /\ Pipe # <<>> /\ Pipe[1] = Said(event) /\ Tail(Pipe) = UnderWay
                            /\ Said(event) \in Notes
<1>1. eventStream \in Seq(SchedulingEvent) /\ watchq \in Seq(WatchEvent)
      /\ (pc = "event" => event \in SchedulingEvent)
  BY DEF IInv, ConnectorTypeOK, KubernetesTypeOK, ControlTypeOK
<1>2. UnderWay \in Seq(Notes)
  BY <1>1, UnderIs DEF UnderWay
<1>3. CASE pc = "event"
  <2>1. Said(event) \in Notes
    BY <1>1, <1>3, NotesType
  <2>2. Pipe = <<Said(event)>> \o UnderWay
    BY <1>3 DEF Pipe, InHand, UnderWay
  <2> QED
    BY <1>2, <1>3, <2>1, <2>2, Prepend
<1>4. CASE pc # "event"
  <2>1. Pipe = <<>> \o UnderWay
    BY <1>4 DEF Pipe, InHand, UnderWay
  <2>2. <<>> \o UnderWay = UnderWay
    BY <1>2
  <2> QED
    BY <1>2, <1>4, <2>1, <2>2
<1> QED
  BY <1>3, <1>4

(* Something is sent while the scheduler stands still,                     *)
LEMMA PipeSent ==
  ASSUME IInv, IInv', UNCHANGED <<pc, event, eventStream>>,
         NEW e \in WatchEvent, watchq' = Append(watchq, e)
  PROVE  Pipe' = Append(Pipe, Says(e)) /\ Says(e) \in Notes
<1>1. eventStream \in Seq(SchedulingEvent) /\ watchq \in Seq(WatchEvent)
  BY DEF IInv, ConnectorTypeOK, KubernetesTypeOK
<1>2. UnderWay' = Append(UnderWay, Says(e)) /\ Says(e) \in Notes
  BY <1>1, UnderSent, NotesType DEF UnderWay
<1>3. CASE pc = "event"
  <2>1. Pipe = <<Said(event)>> \o UnderWay /\ Said(event) \in Notes /\ UnderWay \in Seq(Notes)
    BY <1>3, PipeIs
  <2>2. Pipe' = <<Said(event)>> \o UnderWay'
    BY <1>3 DEF Pipe, InHand, UnderWay, Said
  <2> QED
    BY <1>2, <2>1, <2>2, Prepend
<1>4. CASE pc # "event"
  <2>1. Pipe = <<>> \o UnderWay /\ UnderWay \in Seq(Notes)
    BY <1>4, PipeIs DEF Pipe, InHand, UnderWay
  <2>2. Pipe' = <<>> \o UnderWay'
    BY <1>4 DEF Pipe, InHand, UnderWay
  <2>3. Append(<<>> \o UnderWay, Says(e)) = <<>> \o Append(UnderWay, Says(e))
    BY <1>2, <2>1
  <2> QED
    BY <1>2, <2>1, <2>2, <2>3
<1> QED
  BY <1>3, <1>4

(* or the watch goroutine makes an offer of what was sent,                 *)
LEMMA PipeOffered ==
  ASSUME IInv, UNCHANGED <<pc, event>>, eventStream = <<>>, watchq # <<>>, watchq' = Tail(watchq),
         NEW e \in SchedulingEvent, Said(e) = Says(Head(watchq)), eventStream' = <<e>>
  PROVE  Pipe' = Pipe
<1>1. watchq \in Seq(WatchEvent)
  BY DEF IInv, KubernetesTypeOK
<1>2. Under(<<e>>, Tail(watchq)) = Under(<<>>, watchq)
  BY <1>1, UnderOffered
<1>3. Under(eventStream', watchq') = Under(eventStream, watchq)
  BY <1>2
<1> QED
  BY <1>3 DEF Pipe, InHand, Under, Said, Says

(* or the scheduler takes the offer,                                       *)
LEMMA PipeTaken ==
  ASSUME IInv, IInv', pc # "event", pc' = "event", UNCHANGED watchq,
         NEW e \in SchedulingEvent, eventStream = <<e>>, event' = e, eventStream' = <<>>
  PROVE  Pipe' = Pipe
<1>1. watchq \in Seq(WatchEvent)
  BY DEF IInv, KubernetesTypeOK
<1>2. Pipe = UnderWay
  BY PipeIs
<1>3. Under(eventStream, watchq) = <<Said(e)>> \o Under(<<>>, watchq)
  BY <1>1, UnderTaken
<1>4. InHand' = <<Said(e)>>
  BY DEF InHand, Said
<1>5. Under(eventStream, watchq)' = Under(<<>>, watchq)
  BY DEF Under, Said, Says
<1> QED
  BY <1>2, <1>3, <1>4, <1>5 DEF Pipe, UnderWay

(* or is done with an event,                                               *)
LEMMA PipeHandled ==
  ASSUME IInv, IInv', pc = "event", pc' # "event", UNCHANGED <<eventStream, watchq>>
  PROVE  Pipe' = Tail(Pipe)
<1>1. UnderWay' = UnderWay
  BY DEF UnderWay, Under, Said, Says
<1>2. Pipe' = <<>> \o UnderWay' /\ Tail(Pipe) = UnderWay /\ UnderWay \in Seq(Notes)
  BY PipeIs DEF Pipe, InHand, UnderWay
<1>3. <<>> \o UnderWay = UnderWay
  BY <1>2
<1> QED
  BY <1>1, <1>2, <1>3

(* and has made a call for it,                                             *)
LEMMA PipeHandledSent ==
  ASSUME IInv, IInv', pc = "event", pc' # "event", UNCHANGED eventStream,
         NEW e \in WatchEvent, watchq' = Append(watchq, e)
  PROVE  Pipe' = Append(Tail(Pipe), Says(e)) /\ Says(e) \in Notes
<1>1. eventStream \in Seq(SchedulingEvent) /\ watchq \in Seq(WatchEvent)
  BY DEF IInv, ConnectorTypeOK, KubernetesTypeOK
<1>2. UnderWay' = Append(UnderWay, Says(e)) /\ Says(e) \in Notes
  BY <1>1, UnderSent, NotesType DEF UnderWay
<1>3. Pipe' = <<>> \o UnderWay' /\ Tail(Pipe) = UnderWay /\ UnderWay \in Seq(Notes)
  BY PipeIs DEF Pipe, InHand, UnderWay
<1>4. <<>> \o Append(UnderWay, Says(e)) = Append(UnderWay, Says(e))
  BY <1>2, <1>3
<1> QED
  BY <1>2, <1>3, <1>4

(* or makes one, or does something else, without an event in hand.         *)
LEMMA PipeIdle ==
  ASSUME IInv, IInv', pc # "event", pc' # "event", UNCHANGED eventStream
  PROVE  /\ watchq' = watchq => Pipe' = Pipe
         /\ \A e \in WatchEvent : watchq' = Append(watchq, e) =>
               Pipe' = Append(Pipe, Says(e)) /\ Says(e) \in Notes
<1>1. eventStream \in Seq(SchedulingEvent) /\ watchq \in Seq(WatchEvent)
  BY DEF IInv, ConnectorTypeOK, KubernetesTypeOK
<1>2. Pipe = UnderWay /\ UnderWay \in Seq(Notes)
  BY PipeIs
<1>3. Pipe' = <<>> \o UnderWay'
  BY DEF Pipe, InHand, UnderWay
<1>4. ASSUME watchq' = watchq
      PROVE  Pipe' = Pipe
  <2>1. UnderWay' = UnderWay
    BY <1>4 DEF UnderWay, Under, Said, Says
  <2>2. <<>> \o UnderWay = UnderWay
    BY <1>2
  <2> QED
    BY <1>2, <1>3, <2>1, <2>2
<1>5. ASSUME NEW e \in WatchEvent, watchq' = Append(watchq, e)
      PROVE  Pipe' = Append(Pipe, Says(e)) /\ Says(e) \in Notes
  <2>1. UnderWay' = Append(UnderWay, Says(e)) /\ Says(e) \in Notes
    BY <1>1, <1>5, UnderSent, NotesType DEF UnderWay
  <2>2. <<>> \o Append(UnderWay, Says(e)) = Append(UnderWay, Says(e))
    BY <1>2, <2>1
  <2> QED
    BY <1>2, <1>3, <2>1, <2>2
<1> QED
  BY <1>4, <1>5

-----------------------------------------------------------------------------
(* The order of news, and their truth, as they move along.                 *)

(* The order of the news of one pod.                                       *)
LEMMA RankIs == Rank["created"] = 1 /\ Rank["bound"] = 2 /\ Rank["started"] = 3
  BY DEF Rank

(* A note is what it says and of whom.                                     *)
LEMMA NoteIs ==
  /\ \A w, v, p, s : Note(w, p) = Note(v, s) <=> w = v /\ p = s
  /\ \A w, p : Note(w, p).what = w /\ Note(w, p).pod = p
  /\ \A x \in Notes : /\ x.what \in {"created", "bound", "started"} /\ x.pod \in Pod
                      /\ x = Note(x.what, x.pod)
<1>1. \A w, p : Note(w, p).what = w /\ Note(w, p).pod = p
  BY DEF Note
<1>2. \A w, v, p, s : Note(w, p) = Note(v, s) <=> w = v /\ p = s
  BY <1>1
<1>3. \A x \in Notes : /\ x.what \in {"created", "bound", "started"} /\ x.pod \in Pod
                       /\ x = Note(x.what, x.pod)
  BY DEF Notes, Note
<1> QED
  BY <1>1, <1>2, <1>3

(* Where the elements of a sequence are in its tail.                       *)
LEMMA TailAt ==
  ASSUME NEW S, NEW q \in Seq(S), q # <<>>
  PROVE  /\ Tail(q) \in Seq(S) /\ DOMAIN Tail(q) = 1..(Len(q) - 1) /\ Len(q) \in Nat /\ Len(q) >= 1
         /\ \A i \in DOMAIN Tail(q) : i + 1 \in DOMAIN q /\ Tail(q)[i] = q[i + 1] /\ i \in Nat /\ 1 < i + 1
         /\ \A i \in DOMAIN q : i # 1 => i - 1 \in DOMAIN Tail(q) /\ Tail(q)[i - 1] = q[i]
         /\ 1 \in DOMAIN q
  OBVIOUS

(* Where they are when one is appended.                                    *)
LEMMA AppendAt ==
  ASSUME NEW S, NEW q \in Seq(S), NEW x \in S
  PROVE  /\ Append(q, x) \in Seq(S) /\ DOMAIN Append(q, x) = 1..(Len(q) + 1) /\ Len(q) \in Nat
         /\ DOMAIN q = 1..Len(q)
         /\ \A i \in DOMAIN q : i \in DOMAIN Append(q, x) /\ Append(q, x)[i] = q[i] /\ i < Len(q) + 1
         /\ Append(q, x)[Len(q) + 1] = x
         /\ \A i \in DOMAIN Append(q, x) : i \in DOMAIN q \/ i = Len(q) + 1
  OBVIOUS

(* The rest of orderly news is orderly,                                    *)
LEMMA OrderlyTail ==
  ASSUME NEW q \in Seq(Notes), q # <<>>, Orderly(q)
  PROVE  Orderly(Tail(q))
<1>1. \A i, j \in DOMAIN Tail(q) : i < j => i + 1 < j + 1
  BY TailAt
<1> QED
  BY <1>1, TailAt DEF Orderly

(* and so are those to which later ones are appended.                      *)
LEMMA OrderlyAppend ==
  ASSUME NEW q \in Seq(Notes), Orderly(q), NEW x \in Notes,
         \A i \in DOMAIN q : q[i].pod = x.pod => Rank[q[i].what] < Rank[x.what]
  PROVE  Orderly(Append(q, x))
<1> DEFINE t == Append(q, x)
<1> SUFFICES ASSUME NEW i \in DOMAIN t, NEW j \in DOMAIN t, i < j, t[i].pod = t[j].pod
             PROVE  Rank[t[i].what] < Rank[t[j].what]
  BY DEF Orderly
<1>0. Len(q) \in Nat /\ DOMAIN q = 1..Len(q) /\ DOMAIN t = 1..(Len(q) + 1)
  BY AppendAt
<1>1. i \in DOMAIN q /\ t[i] = q[i]
  <2>1. i \in 1..Len(q)
    BY <1>0
  <2> QED
    BY <2>1, <1>0, AppendAt
<1>2. CASE j \in DOMAIN q
  <2>1. t[j] = q[j]
    BY <1>2, AppendAt
  <2> HIDE DEF t
  <2> QED
    BY <1>1, <1>2, <2>1 DEF Orderly
<1>3. CASE j = Len(q) + 1
  <2>1. t[j] = x
    BY <1>3, AppendAt
  <2> HIDE DEF t
  <2> QED
    BY <1>1, <2>1
<1> QED
  BY <1>2, <1>3, AppendAt

(* A creation stays before the bindings when the first of the news goes,   *)
LEMMA CreatedFirstTail ==
  ASSUME NEW q \in Seq(Notes), q # <<>>, NEW p, CreatedFirst(q, p)
  PROVE  CreatedFirst(Tail(q), p)
<1>1. \A i, j \in DOMAIN Tail(q) : i + 1 < j + 1 => i < j
  BY TailAt
<1> QED
  BY <1>1, TailAt DEF CreatedFirst

(* and when other news are appended.                                       *)
LEMMA CreatedFirstAppend ==
  ASSUME NEW q \in Seq(Notes), NEW p, CreatedFirst(q, p), NEW x \in Notes, x # Note("created", p)
  PROVE  CreatedFirst(Append(q, x), p)
<1> DEFINE t == Append(q, x)
<1> SUFFICES ASSUME NEW j \in DOMAIN t, NEW k \in DOMAIN t, t[j] = Note("created", p), t[k].what = "bound"
             PROVE  j < k
  BY DEF CreatedFirst
<1>1. j # Len(q) + 1
  BY AppendAt
<1>2. j \in DOMAIN q /\ t[j] = q[j] /\ j < Len(q) + 1
  BY <1>1, AppendAt
<1>3. CASE k \in DOMAIN q
  <2>1. t[k] = q[k]
    BY <1>3, AppendAt
  <2> HIDE DEF t
  <2> QED
    BY <1>2, <1>3, <2>1 DEF CreatedFirst
<1>4. CASE k = Len(q) + 1
  BY <1>2, <1>4
<1> QED
  BY <1>3, <1>4, AppendAt

(* What is told once is not told again.                                    *)
LEMMA ToldOnce ==
  ASSUME NEW q \in Seq(Notes), Orderly(q), NEW i \in DOMAIN q, NEW j \in DOMAIN q, q[i] = q[j]
  PROVE  i = j
<1>1. Rank[q[i].what] \in Nat
  BY NoteIs, RankIs
<1>2. i \in Nat /\ j \in Nat
  OBVIOUS
<1>3. ~(i < j) /\ ~(j < i)
  BY <1>1 DEF Orderly
<1> QED
  BY <1>2, <1>3

(* The pods of the API server go forwards only.                            *)
Grows ==
  \A p \in Pod : /\ Exists(p) => Exists(p)'
                 /\ Bound(p) => Bound(p)' /\ api'[p].node = api[p].node
                 /\ api[p].phase = "Running" => api'[p].phase = "Running"

(* News stay true while the cluster grows, and new unless the view learns  *)
(* of them.                                                                *)
LEMMA StillNews ==
  ASSUME Grows, NEW x \in Notes, IsNews(x), x.what = "started" \/ ~In(x.pod)'
  PROVE  IsNews(x)'
<1>1. x.pod \in Pod
  BY NoteIs
<1> QED
  BY <1>1 DEF Grows, IsNews

(* The same is under way,                                                  *)
LEMMA NewsSame ==
  ASSUME IInv, NewsFill, Grows, Pipe' = Pipe,
         \A p \in Pod : (In(p)' <=> In(p)) /\ (Bound(p)' => Bound(p))
  PROVE  NewsFill'
<1>1. Pipe \in Seq(Notes)
  BY PipeIs
<1>2. ASSUME NEW i \in DOMAIN Pipe
      PROVE  IsNews(Pipe[i])'
  <2>1. Pipe[i] \in Notes /\ IsNews(Pipe[i])
    BY <1>1 DEF NewsFill
  <2>2. \A x \in Notes : IsNews(x) /\ (x.what = "started" \/ ~In(x.pod)') => IsNews(x)'
    BY StillNews
  <2>3. Pipe[i].what = "started" \/ ~In(Pipe[i].pod)
    BY <2>1 DEF IsNews
  <2>4. Pipe[i].pod \in Pod
    BY <2>1, NoteIs
  <2> QED
    BY <2>1, <2>2, <2>3, <2>4 DEF IsNews
<1> QED
  BY <1>2 DEF NewsFill

(* something new is sent,                                                  *)
LEMMA NewsSent ==
  ASSUME IInv, NewsFill, Grows, NEW x \in Notes, Pipe' = Append(Pipe, x), IsNews(x)',
         \A p \in Pod : (In(p)' <=> In(p)) /\ (Bound(p)' => Bound(p) \/ x = Note("bound", p)),
         \A i \in DOMAIN Pipe : Pipe[i].pod = x.pod => Rank[Pipe[i].what] < Rank[x.what]
  PROVE  NewsFill'
<1>1. Pipe \in Seq(Notes)
  BY PipeIs
<1>2. Orderly(Pipe)'
  <2>1. Orderly(Append(Pipe, x))
    BY <1>1, OrderlyAppend DEF NewsFill
  <2> QED
    BY <2>1 DEF Orderly
<1>3. ASSUME NEW i \in DOMAIN Pipe'
      PROVE  IsNews(Pipe[i])'
  <2>1. \A y \in Notes : IsNews(y) /\ (y.what = "started" \/ ~In(y.pod)') => IsNews(y)'
    BY StillNews
  <2>2. CASE i \in DOMAIN Pipe
    <3>1. Pipe'[i] = Pipe[i] /\ Pipe[i] \in Notes /\ IsNews(Pipe[i])
      BY <1>1, <2>2, AppendAt DEF NewsFill
    <3>2. Pipe[i].what = "started" \/ ~In(Pipe[i].pod)
      BY <3>1 DEF IsNews
    <3>3. Pipe[i].pod \in Pod
      BY <3>1, NoteIs
    <3> QED
      BY <2>1, <3>1, <3>2, <3>3 DEF IsNews
  <2>3. CASE i = Len(Pipe) + 1
    <3>1. Pipe'[i] = x
      BY <1>1, <2>3, AppendAt
    <3> QED
      BY <3>1 DEF IsNews
  <2> QED
    BY <1>1, <2>2, <2>3, AppendAt
<1>4. ASSUME NEW p \in Pod, Bound(p)', ~In(p)'
      PROVE  \E i \in DOMAIN Pipe' : Pipe'[i] = Note("bound", p)
  <2>1. CASE x = Note("bound", p)
    BY <1>1, <2>1, AppendAt
  <2>2. CASE x # Note("bound", p)
    <3>1. PICK i \in DOMAIN Pipe : Pipe[i] = Note("bound", p)
      BY <1>4, <2>2 DEF NewsFill
    <3>2. i \in DOMAIN Pipe' /\ Pipe'[i] = Pipe[i]
      BY <1>1, AppendAt
    <3> QED
      BY <3>1, <3>2
  <2> QED
    BY <2>1, <2>2
<1>5. ASSUME NEW p \in Pod, Bound(p)', ~In(p)'
      PROVE  (\E i \in DOMAIN Pipe : Pipe[i] = Note("bound", p))'
  BY <1>4, <1>5 DEF Note
<1> QED
  BY <1>2, <1>3, <1>5 DEF NewsFill

(* the first news have been taken in,                                      *)
LEMMA NewsHandled ==
  ASSUME IInv, NewsFill, Grows, Pipe # <<>>, Pipe' = Tail(Pipe),
         \A p \in Pod : /\ In(p)' <=> In(p) \/ Pipe[1] = Note("bound", p)
                        /\ Bound(p)' => Bound(p)
  PROVE  NewsFill'
<1>1. Pipe \in Seq(Notes)
  BY PipeIs
<1>2. Orderly(Pipe)'
  <2>1. Orderly(Tail(Pipe))
    BY <1>1, OrderlyTail DEF NewsFill
  <2> QED
    BY <2>1 DEF Orderly
<1>3. ASSUME NEW i \in DOMAIN Pipe'
      PROVE  IsNews(Pipe[i])'
  <2>1. \A y \in Notes : IsNews(y) /\ (y.what = "started" \/ ~In(y.pod)') => IsNews(y)'
    BY StillNews
  <2>2. i + 1 \in DOMAIN Pipe /\ 1 \in DOMAIN Pipe /\ Pipe'[i] = Pipe[i + 1] /\ 1 < i + 1
    BY <1>1, TailAt
  <2>3. Pipe[i + 1] \in Notes /\ IsNews(Pipe[i + 1])
    BY <1>1, <2>2 DEF NewsFill
  <2>4. Pipe[i + 1].what = "started" \/ ~In(Pipe[i + 1].pod)
    BY <2>3 DEF IsNews
  <2>5. Pipe[1] = Note("bound", Pipe[i + 1].pod) => Pipe[i + 1].what = "started"
    <3>1. Pipe[1].pod = Pipe[i + 1].pod => Rank[Pipe[1].what] < Rank[Pipe[i + 1].what]
      BY <2>2 DEF NewsFill, Orderly
    <3> QED
      BY <2>3, <3>1, NoteIs, RankIs
  <2>6. Pipe[i + 1].pod \in Pod
    BY <2>3, NoteIs
  <2> QED
    BY <2>1, <2>2, <2>3, <2>4, <2>5, <2>6 DEF IsNews
<1>4. ASSUME NEW p \in Pod, Bound(p)', ~In(p)'
      PROVE  \E i \in DOMAIN Pipe' : Pipe'[i] = Note("bound", p)
  <2>1. PICK i \in DOMAIN Pipe : Pipe[i] = Note("bound", p)
    BY <1>4 DEF NewsFill
  <2>2. i # 1
    BY <1>4, <2>1
  <2>3. i - 1 \in DOMAIN Tail(Pipe) /\ Tail(Pipe)[i - 1] = Pipe[i]
    BY <1>1, <2>2, TailAt
  <2> QED
    BY <2>1, <2>3
<1>5. ASSUME NEW p \in Pod, Bound(p)', ~In(p)'
      PROVE  (\E i \in DOMAIN Pipe : Pipe[i] = Note("bound", p))'
  BY <1>4, <1>5 DEF Note
<1> QED
  BY <1>2, <1>3, <1>5 DEF NewsFill

(* and another pod has been bound in return.                               *)
LEMMA NewsHandledSent ==
  ASSUME IInv, NewsFill, Grows, Pipe # <<>>, NEW s \in Pod, Unbound(s),
         Pipe' = Append(Tail(Pipe), Note("bound", s)), IsNews(Note("bound", s))',
         \A p \in Pod : /\ In(p)' <=> In(p) \/ Pipe[1] = Note("bound", p)
                        /\ Bound(p)' => Bound(p) \/ p = s
  PROVE  NewsFill'
<1> DEFINE x == Note("bound", s)
           t == Tail(Pipe)
<1>1. Pipe \in Seq(Notes) /\ t \in Seq(Notes) /\ x \in Notes
  BY PipeIs, TailAt, NotesType
<1>2. ASSUME NEW i \in DOMAIN t, t[i].pod = s
      PROVE  Rank[t[i].what] < Rank[x.what]
  <2>1. t[i] \in Notes /\ IsNews(t[i])
    BY <1>1, TailAt DEF NewsFill
  <2>2. t[i].what = "created"
    BY <1>2, <2>1, NoteIs DEF IsNews, Unbound, Bound
  <2> QED
    BY <2>2, NoteIs, RankIs
<1>3. Orderly(Pipe)'
  <2>1. Orderly(t)
    BY <1>1, OrderlyTail DEF NewsFill
  <2>2. \A i \in DOMAIN t : t[i].pod = x.pod => Rank[t[i].what] < Rank[x.what]
    BY <1>2, NoteIs
  <2> HIDE DEF t, x
  <2>3. Orderly(Append(t, x))
    BY <1>1, <2>1, <2>2, OrderlyAppend
  <2> QED
    BY <2>3 DEF Orderly, t, x
<1>4. ASSUME NEW i \in DOMAIN Pipe'
      PROVE  IsNews(Pipe[i])'
  <2>1. \A y \in Notes : IsNews(y) /\ (y.what = "started" \/ ~In(y.pod)') => IsNews(y)'
    BY StillNews
  <2>2. CASE i \in DOMAIN t
    <3>1. i + 1 \in DOMAIN Pipe /\ 1 \in DOMAIN Pipe /\ t[i] = Pipe[i + 1] /\ 1 < i + 1
      BY <1>1, <2>2, TailAt
    <3>2. Append(t, x)[i] = t[i]
      BY <1>1, <2>2, AppendAt
    <3>3. Pipe'[i] = Pipe[i + 1]
      BY <3>1, <3>2
    <3>4. Pipe[i + 1] \in Notes /\ IsNews(Pipe[i + 1])
      BY <1>1, <3>1 DEF NewsFill
    <3>5. Pipe[i + 1].what = "started" \/ ~In(Pipe[i + 1].pod)
      BY <3>4 DEF IsNews
    <3>6. Pipe[1] = Note("bound", Pipe[i + 1].pod) => Pipe[i + 1].what = "started"
      <4>1. Pipe[1].pod = Pipe[i + 1].pod => Rank[Pipe[1].what] < Rank[Pipe[i + 1].what]
        BY <3>1 DEF NewsFill, Orderly
      <4> QED
        BY <3>4, <4>1, NoteIs, RankIs
    <3>7. Pipe[i + 1].pod \in Pod
      BY <3>4, NoteIs
    <3> HIDE DEF t, x
    <3> QED
      BY <2>1, <3>3, <3>4, <3>5, <3>6, <3>7 DEF IsNews
  <2>3. CASE i = Len(t) + 1
    <3>1. Append(t, x)[i] = x
      BY <1>1, <2>3, AppendAt
    <3>2. Pipe'[i] = Note("bound", s)
      BY <3>1
    <3> QED
      BY <3>2 DEF IsNews, Note
  <2>4. DOMAIN Pipe' = DOMAIN Append(t, x)
    OBVIOUS
  <2> HIDE DEF t, x
  <2>5. i \in DOMAIN t \/ i = Len(t) + 1
    BY <1>1, <2>4, AppendAt
  <2> QED
    BY <2>2, <2>3, <2>5
<1>5. ASSUME NEW p \in Pod, Bound(p)', ~In(p)'
      PROVE  \E i \in DOMAIN Append(t, x) : Append(t, x)[i] = Note("bound", p)
  <2>1. CASE p = s
    <3>1. Append(t, x)[Len(t) + 1] = x /\ Len(t) + 1 \in DOMAIN Append(t, x)
      BY <1>1, AppendAt
    <3> QED
      BY <2>1, <3>1
  <2>2. CASE p # s
    <3>1. PICK i \in DOMAIN Pipe : Pipe[i] = Note("bound", p)
      BY <1>5, <2>2 DEF NewsFill
    <3>2. i # 1
      BY <1>5, <3>1
    <3>3. i - 1 \in DOMAIN t /\ t[i - 1] = Note("bound", p)
      BY <1>1, <3>1, <3>2, TailAt
    <3> HIDE DEF t, x
    <3>4. i - 1 \in DOMAIN Append(t, x) /\ Append(t, x)[i - 1] = t[i - 1]
      BY <1>1, <3>3, AppendAt
    <3> QED
      BY <3>3, <3>4
  <2> QED
    BY <2>1, <2>2
<1>6. ASSUME NEW p \in Pod, Bound(p)', ~In(p)'
      PROVE  (\E i \in DOMAIN Pipe : Pipe[i] = Note("bound", p))'
  BY <1>5, <1>6 DEF Note
<1> QED
  BY <1>3, <1>4, <1>6 DEF NewsFill

-----------------------------------------------------------------------------
(* Where the events are on the pipe.                                       *)

Ahead == (IF pc = "event" THEN 1 ELSE 0) + Len(eventStream)

(* Each event sent or on offer has its place on the pipe.                  *)
LEMMA PipeIndex ==
  ASSUME IInv
  PROVE  /\ \A i \in DOMAIN watchq : Ahead + i \in DOMAIN Pipe /\ Pipe[Ahead + i] = Says(watchq[i])
         /\ \A i \in DOMAIN eventStream : \E k \in DOMAIN Pipe : Pipe[k] = Said(eventStream[i])
         /\ Ahead \in Nat /\ Len(Pipe) = Ahead + Len(watchq)
<1>1. eventStream \in Seq(SchedulingEvent) /\ watchq \in Seq(WatchEvent)
  BY DEF IInv, ConnectorTypeOK, KubernetesTypeOK
<1>2. /\ UnderWay \in Seq(Notes) /\ Len(UnderWay) = Len(eventStream) + Len(watchq)
      /\ \A i \in 1..Len(eventStream) : UnderWay[i] = Said(eventStream[i])
      /\ \A i \in 1..Len(watchq) : UnderWay[Len(eventStream) + i] = Says(watchq[i])
  BY <1>1, UnderIs DEF UnderWay
<1>3. /\ Len(eventStream) \in Nat /\ DOMAIN eventStream = 1..Len(eventStream)
      /\ Len(watchq) \in Nat /\ DOMAIN watchq = 1..Len(watchq)
  BY <1>1
<1>4. /\ \A i \in DOMAIN watchq : Len(eventStream) + i \in DOMAIN UnderWay
      /\ \A i \in DOMAIN eventStream : i \in DOMAIN UnderWay
  <2>1. DOMAIN UnderWay = 1..(Len(eventStream) + Len(watchq))
    BY <1>2
  <2> QED
    BY <2>1, <1>3
<1>5. CASE pc # "event"
  <2>1. Ahead = Len(eventStream) /\ Pipe = UnderWay
    BY <1>3, <1>5, PipeIs DEF Ahead
  <2> QED
    BY <2>1, <1>2, <1>3, <1>4
<1>6. CASE pc = "event"
  <2>1. Ahead = 1 + Len(eventStream) /\ Pipe = <<Said(event)>> \o UnderWay /\ Said(event) \in Notes
    BY <1>6, PipeIs DEF Ahead
  <2>2. /\ Len(Pipe) = 1 + Len(UnderWay) /\ Pipe \in Seq(Notes)
        /\ \A i \in 1..Len(UnderWay) : Pipe[1 + i] = UnderWay[i]
    <3>1. <<Said(event)>> \in Seq(Notes) /\ Len(<<Said(event)>>) = 1
      BY <2>1
    <3>2. /\ Pipe \in Seq(Notes) /\ Len(Pipe) = Len(<<Said(event)>>) + Len(UnderWay)
          /\ \A i \in 1..Len(UnderWay) : Pipe[Len(<<Said(event)>>) + i] = UnderWay[i]
      <4>1. UnderWay \in Seq(Notes) /\ <<Said(event)>> \in Seq(Notes) /\ Pipe = <<Said(event)>> \o UnderWay
        BY <1>2, <2>1, <3>1
      <4> QED
        BY ONLY <4>1, ConcatAt
    <3> QED
      BY ONLY <3>1, <3>2
  <2>3. DOMAIN Pipe = 1..(1 + (Len(eventStream) + Len(watchq))) /\ DOMAIN UnderWay = 1..(Len(eventStream) + Len(watchq))
    BY <1>2, <2>2
  <2>4. \A i \in DOMAIN watchq : Ahead + i \in DOMAIN Pipe /\ Pipe[Ahead + i] = Says(watchq[i])
    <3> TAKE i \in DOMAIN watchq
    <3>1. Ahead + i = 1 + (Len(eventStream) + i) /\ Len(eventStream) + i \in 1..Len(UnderWay)
      BY <1>2, <1>3, <2>1
    <3>2. Pipe[1 + (Len(eventStream) + i)] = UnderWay[Len(eventStream) + i]
      BY <2>2, <3>1
    <3>3. Ahead + i \in DOMAIN Pipe
      BY <1>3, <2>1, <2>3
    <3> QED
      BY <1>2, <1>3, <3>1, <3>2, <3>3
  <2>5. \A i \in DOMAIN eventStream : 1 + i \in DOMAIN Pipe /\ Pipe[1 + i] = Said(eventStream[i])
    <3> TAKE i \in DOMAIN eventStream
    <3>1. i \in 1..Len(UnderWay) /\ 1 + i \in DOMAIN Pipe
      BY <1>2, <1>3, <2>3
    <3> QED
      BY <1>2, <1>3, <2>2, <3>1
  <2>6. Len(Pipe) = Ahead + Len(watchq) /\ Ahead \in Nat
    BY <1>2, <1>3, <2>1, <2>2
  <2> QED
    BY <2>4, <2>5, <2>6
<1> QED
  BY <1>5, <1>6

(* What is under way is news.                                              *)
LEMMA AllIsNews ==
  ASSUME IInv, NewsFill
  PROVE  /\ \A i \in DOMAIN watchq : IsNews(Says(watchq[i])) /\ Says(watchq[i]) \in Notes
         /\ \A i \in DOMAIN eventStream : IsNews(Said(eventStream[i])) /\ Said(eventStream[i]) \in Notes
         /\ pc = "event" => IsNews(Said(event)) /\ Said(event) \in Notes
<1>1. Pipe \in Seq(Notes)
  BY PipeIs
<1>2. \A k \in DOMAIN Pipe : IsNews(Pipe[k]) /\ Pipe[k] \in Notes
  BY <1>1 DEF NewsFill
<1>3. pc = "event" => 1 \in DOMAIN Pipe /\ Pipe[1] = Said(event)
  BY <1>1, PipeIs, TailAt
<1>4. \A i \in DOMAIN watchq : \E k \in DOMAIN Pipe : Pipe[k] = Says(watchq[i])
  BY PipeIndex
<1>5. \A i \in DOMAIN eventStream : \E k \in DOMAIN Pipe : Pipe[k] = Said(eventStream[i])
  BY PipeIndex
<1> QED
  BY <1>2, <1>3, <1>4, <1>5
=============================================================================
