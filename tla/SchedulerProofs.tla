--------------------------- MODULE SchedulerProofs ---------------------------
(***************************************************************************)
(* The invariants of the scheduler, for every cluster, workload and bound. *)
(* IInv is inductive: the types need whole moves (the element behind an    *)
(* awaited creation exists and has a node), whole moves need the types of  *)
(* what plans are built from.  First come the calls and the watch of the   *)
(* connector, then the plans: those that the scheduler builds are good     *)
(* ones, and what is left of a good plan when its first element is popped  *)
(* is a good plan.                                                         *)
(***************************************************************************)
EXTENDS SchedulerProperties, ClusterStateProofs, SumProofs, FiniteSetTheorems, SequenceTheorems

-----------------------------------------------------------------------------
(* What happens in the cluster, the calls of the connector and its watch   *)
(* goroutine keep the types, and the goroutine charges no node.            *)

(* The enumerations of a finite set are sequences of its elements.         *)
LEMMA SetToSeqsType ==
  ASSUME NEW S, IsFiniteSet(S), NEW q \in SetToSeqs(S)
  PROVE  q \in Seq(S) /\ Len(q) \in Nat /\ DOMAIN q = 1..Len(q)
<1>1. Cardinality(S) \in Nat
  BY FS_CardinalityType
<1>2. q \in [1..Cardinality(S) -> S]
  BY DEF SetToSeqs
<1>3. q \in Seq(S)
  BY <1>1, <1>2, SeqDef
<1> QED
  BY <1>3, LenProperties

(* There are finitely many objects.                                        *)
LEMMA ObjectsFinite ==
  ASSUME NEW S \in SUBSET PodObj
  PROVE  IsFiniteSet(S)
<1>1. IsFiniteSet(1..MaxCopies) /\ IsFiniteSet(Pod)
  BY CopiesArePositive, PodsAreFinite, FS_Interval
<1>2. IsFiniteSet(PodObj)
  BY <1>1, FS_Product DEF PodObj
<1> QED
  BY <1>2, FS_Subset

-----------------------------------------------------------------------------
(* The API server.                                                         *)

(* A change of a pod, and the event it sends, keep the types.              *)
LEMMA ChangeType ==
  ASSUME api \in [Pod -> ApiPod], watchq \in Seq(WatchEvent),
         NEW type \in {"Added", "Modified", "Deleted"}, NEW p \in Pod, NEW a \in ApiPod,
         Change(type, p, a)
  PROVE  api' \in [Pod -> ApiPod] /\ watchq' \in Seq(WatchEvent)
<1>1. api[p] \in ApiPod
  OBVIOUS
<1>2. \A b \in ApiPod : Event(type, p, b) \in WatchEvent
  BY DEF Event, WatchEvent, ApiPod
<1>3. watchq' \in Seq(WatchEvent)
  BY <1>1, <1>2 DEF Change
<1> QED
  BY <1>3 DEF Change

(* Records of the API.                                                     *)
LEMMA ApiPodType ==
  /\ [phase |-> "Gone", node |-> Nil] \in ApiPod
  /\ \A n \in Node \cup ForeignNode \cup {Nil} : [phase |-> "Pending", node |-> n] \in ApiPod
  /\ \A a \in ApiPod, ph \in Phase : [a EXCEPT !.phase = ph] \in ApiPod
  BY DEF ApiPod, Phase

(* What happens in the cluster of its own accord keeps the types.          *)
LEMMA ClusterChangeType ==
  ASSUME KubernetesTypeOK, ClusterChange
  PROVE  KubernetesTypeOK'
<1> USE DEF KubernetesTypeOK
<1>1. ASSUME NEW p \in Pod, CreatePod(p)
      PROVE  KubernetesTypeOK'
  BY <1>1, ApiPodType, ChangeType DEF CreatePod
<1>2. ASSUME NEW p \in Pod, StartPod(p)
      PROVE  KubernetesTypeOK'
  <2>1. [api[p] EXCEPT !.phase = "Running"] \in ApiPod
    BY ApiPodType DEF Phase
  <2> QED
    BY <1>2, <2>1, ChangeType DEF StartPod
<1>3. ASSUME NEW p \in Pod, FinishPod(p)
      PROVE  KubernetesTypeOK'
  <2>1. [api[p] EXCEPT !.phase = "Finished"] \in ApiPod
    BY ApiPodType DEF Phase
  <2> QED
    BY <1>3, <2>1, ChangeType DEF FinishPod, Disruption
<1>4. ASSUME NEW p \in Pod, DisruptPod(p)
      PROVE  KubernetesTypeOK'
  BY <1>4, ApiPodType, ChangeType DEF DisruptPod, Disruption
<1>5. ASSUME NEW p \in Pod, BindForeign(p)
      PROVE  KubernetesTypeOK'
  BY <1>5, ApiPodType, ChangeType DEF BindForeign, Disruption
<1>6. ASSUME NEW p \in Pod, UpdatePod(p)
      PROVE  KubernetesTypeOK'
  BY <1>6, ChangeType DEF UpdatePod, Disruption
<1> QED
  BY <1>1, <1>2, <1>3, <1>4, <1>5, <1>6 DEF ClusterChange

(* A binding, served or not, keeps the types.                              *)
LEMMA BindType ==
  ASSUME KubernetesTypeOK, NEW p \in Pod, NEW n \in Node, NEW ok, Bind(p, n, ok)
  PROVE  KubernetesTypeOK'
<1>1. [phase |-> "Pending", node |-> n] \in ApiPod
  BY ApiPodType
<1>2. api' \in [Pod -> ApiPod] /\ watchq' \in Seq(WatchEvent)
  BY <1>1, ChangeType DEF Bind, Served, KubernetesTypeOK
<1>3. faults' \in Nat
  BY DEF Bind, Served, Fault, KubernetesTypeOK
<1> QED
  BY <1>2, <1>3 DEF Bind, KubernetesTypeOK

(* So does a deletion.                                                     *)
LEMMA DeleteType ==
  ASSUME KubernetesTypeOK, NEW p \in Pod, NEW ok, Delete(p, ok)
  PROVE  KubernetesTypeOK'
<1>1. [phase |-> "Gone", node |-> Nil] \in ApiPod
  BY ApiPodType
<1>2. api' \in [Pod -> ApiPod] /\ watchq' \in Seq(WatchEvent)
  BY <1>1, ChangeType DEF Delete, Served, KubernetesTypeOK
<1>3. faults' \in Nat
  BY DEF Delete, Served, Fault, KubernetesTypeOK
<1> QED
  BY <1>2, <1>3 DEF Delete, KubernetesTypeOK

(* A new watch starts with the pods that exist.                            *)
LEMMA OpenWatchType ==
  ASSUME KubernetesTypeOK, OpenWatch
  PROVE  KubernetesTypeOK'
<1>1. PICK order \in SetToSeqs({p \in Pod : Exists(p)}) :
        watchq' = [i \in 1..Len(order) |-> Event("Added", order[i], api[order[i]])]
  BY DEF OpenWatch
<1>2. IsFiniteSet({p \in Pod : Exists(p)})
  BY PodsAreFinite, FS_Subset
<1>3. order \in Seq({p \in Pod : Exists(p)}) /\ Len(order) \in Nat
  BY <1>2, SetToSeqsType
<1>4. \A i \in 1..Len(order) : Event("Added", order[i], api[order[i]]) \in WatchEvent
  <2> TAKE i \in 1..Len(order)
  <2>1. order[i] \in Pod
    BY <1>3, ElementOfSeq
  <2> QED
    BY <2>1 DEF Event, WatchEvent, ApiPod, KubernetesTypeOK
<1>5. watchq' \in Seq(WatchEvent)
  BY <1>1, <1>3, <1>4
<1> QED
  BY <1>5 DEF OpenWatch, KubernetesTypeOK

-----------------------------------------------------------------------------
(* The connector.                                                          *)

(* A binding through the connector only reaches pods it knows.             *)
LEMMA DeployType ==
  ASSUME KubernetesTypeOK, podIdToName \subseteq Pod, NEW p, NEW n \in Node, NEW ok,
         Deploy(p, n, ok)
  PROVE  KubernetesTypeOK' /\ podIdToName' \subseteq Pod
<1>1. CASE p \in podIdToName
  BY <1>1, BindType DEF Deploy
<1>2. CASE p \notin podIdToName
  BY <1>2 DEF Deploy, kubernetesVars, KubernetesTypeOK
<1> QED
  BY <1>1, <1>2

(* So does a deletion.                                                     *)
LEMMA DeletePodType ==
  ASSUME KubernetesTypeOK, podIdToName \subseteq Pod, NEW p, NEW ok, DeletePod(p, ok)
  PROVE  KubernetesTypeOK' /\ podIdToName' \subseteq Pod
<1>1. CASE p \in podIdToName
  BY <1>1, DeleteType DEF DeletePod
<1>2. CASE p \notin podIdToName
  BY <1>2 DEF DeletePod, kubernetesVars, KubernetesTypeOK
<1> QED
  BY <1>1, <1>2

(* Fresh objects are objects of the pod.                                   *)
LEMMA FreshObjType ==
  ASSUME NEW p \in Pod, NEW u, NEW o \in FreshObj(p, u)
  PROVE  o \in PodObj /\ Id(o) = p
  BY DEF FreshObj, ObjectsOf

(* A listing of the pending pods is a sequence of Pod objects.             *)
LEMMA PendingListsType ==
  ASSUME NEW u, NEW b \in PendingLists(u)
  PROVE  b \in Seq(PodObj)
<1>1. PICK ps \in SetToSeqs(PendingPods) :
        /\ \A i \in DOMAIN ps : FreshObj(ps[i], u) # {}
        /\ b = [i \in DOMAIN ps |-> CHOOSE o \in FreshObj(ps[i], u) : TRUE]
  BY DEF PendingLists
<1>2. IsFiniteSet(PendingPods)
  BY PodsAreFinite, FS_Subset DEF PendingPods
<1>3. ps \in Seq(PendingPods) /\ Len(ps) \in Nat /\ DOMAIN ps = 1..Len(ps)
  BY <1>2, SetToSeqsType
<1>4. \A i \in 1..Len(ps) : ps[i] \in Pod
  BY <1>3, ElementOfSeq DEF PendingPods
<1>5. \A i \in 1..Len(ps) : (CHOOSE o \in FreshObj(ps[i], u) : TRUE) \in PodObj
  BY <1>1, <1>3, <1>4, FreshObjType
<1> QED
  BY <1>1, <1>3, <1>5

(* The watch goroutine registers a pod at most.                            *)
LEMMA RegisterType ==
  ASSUME ConnectorTypeOK, WithinResources(clusterState), NEW e \in WatchEvent,
         NEW u, NEW o \in (IF Known(e) THEN PodObj ELSE FreshObj(e.pod, u)), Register(e, o)
  PROVE  /\ o \in PodObj
         /\ podIdToName' \subseteq Pod
         /\ clusterState' \in ClusterStates
         /\ WithinResources(clusterState')
<1>1. e.pod \in Pod
  BY DEF WatchEvent
<1>2. o \in PodObj
  BY <1>1, FreshObjType
<1>3. CASE Known(e)
  BY <1>2, <1>3 DEF Register, ConnectorTypeOK
<1>4. CASE ~Known(e)
  <2> DEFINE c == NewPod(clusterState, o, "SCHEDULED")
  <2>1. clusterState \in ClusterStates /\ "SCHEDULED" \in Status
    BY DEF ConnectorTypeOK, Status
  <2>2. c \in ClusterStates /\ WithinResources(c)
    BY <1>2, <2>1, NewPodType, NewPodWithin
  <2>3. clusterState' = [c EXCEPT !.podsMap[e.pod] = o] /\ podIdToName' = podIdToName \cup {e.pod}
    BY <1>4 DEF Register
  <2> HIDE DEF c
  <2>4. clusterState' \in ClusterStates
    BY <1>1, <1>2, <2>2, <2>3 DEF ClusterStates
  <2>5. clusterState'.nodeUsed = c.nodeUsed
    BY <2>2, <2>3 DEF ClusterStates
  <2> QED
    BY <1>1, <1>2, <2>2, <2>3, <2>4, <2>5 DEF WithinResources, ConnectorTypeOK
<1> QED
  BY <1>3, <1>4

(* The watch goroutine keeps the types and charges no node.                *)
LEMMA TranslateType ==
  ASSUME KubernetesTypeOK, ConnectorTypeOK, WithinResources(clusterState), NEW u, Translate(u)
  PROVE  KubernetesTypeOK' /\ ConnectorTypeOK' /\ WithinResources(clusterState')
<1> DEFINE e == Head(watchq)
<1>1. e \in WatchEvent /\ watchq' \in Seq(WatchEvent)
  BY DEF Translate, CanTranslate, KubernetesTypeOK
<1>2. e.node \in Node \cup {Nil} /\ e.phase \in Phase
  BY <1>1 DEF Translate, Foreign, WatchEvent
<1>3. PICK o \in (IF Known(e) THEN PodObj ELSE FreshObj(e.pod, u)) :
        /\ Register(e, o)
        /\ eventStream' = IF e.type = "Added" /\ Known(e) THEN <<>>
                          ELSE <<[type |-> TypeOfEvent(e.type), obj |-> o,
                                  node |-> e.node, status |-> StatusOf(e.phase)]>>
  BY DEF Translate
<1> HIDE DEF e
<1>4. /\ o \in PodObj /\ podIdToName' \subseteq Pod
      /\ clusterState' \in ClusterStates /\ WithinResources(clusterState')
  BY <1>1, <1>3, RegisterType
<1>5. TypeOfEvent(e.type) \in EventType /\ StatusOf(e.phase) \in Status
  BY DEF TypeOfEvent, EventType, StatusOf, Status
<1>6. eventStream' \in Seq(SchedulingEvent)
  <2>1. [type |-> TypeOfEvent(e.type), obj |-> o, node |-> e.node, status |-> StatusOf(e.phase)]
          \in SchedulingEvent
    BY <1>2, <1>4, <1>5 DEF SchedulingEvent
  <2> QED
    BY <1>3, <2>1
<1>7. KubernetesTypeOK'
  BY <1>1 DEF Translate, KubernetesTypeOK
<1> QED
  BY <1>4, <1>6, <1>7 DEF ConnectorTypeOK

(* So does its last step.                                                  *)
LEMMA TranslateForeignType ==
  ASSUME KubernetesTypeOK, ConnectorTypeOK, WithinResources(clusterState), NEW u, TranslateForeign(u)
  PROVE  KubernetesTypeOK' /\ ConnectorTypeOK' /\ WithinResources(clusterState')
<1> DEFINE e == Head(watchq)
<1>1. e \in WatchEvent
  BY DEF TranslateForeign, CanTranslate, KubernetesTypeOK
<1>2. PICK o \in (IF Known(e) THEN PodObj ELSE FreshObj(e.pod, u)) : Register(e, o)
  BY DEF TranslateForeign
<1> HIDE DEF e
<1>3. /\ podIdToName' \subseteq Pod
      /\ clusterState' \in ClusterStates /\ WithinResources(clusterState')
  BY <1>1, <1>2, RegisterType
<1>4. KubernetesTypeOK'
  <2>1. watchq' = <<>> /\ watching' = FALSE /\ UNCHANGED <<eventStream, api, disruptions, faults>>
    BY DEF TranslateForeign, CloseWatch
  <2>2. watchq' \in Seq(WatchEvent)
    BY <2>1
  <2> QED
    BY <2>1, <2>2 DEF KubernetesTypeOK
<1> QED
  BY <1>3, <1>4 DEF ConnectorTypeOK, TranslateForeign

(* SyncPods places a pod where it is, if it fits there.                    *)
LEMMA PlacedType ==
  ASSUME NEW c \in ClusterStates, WithinResources(c), NEW o \in PodObj, NEW n \in Node,
         NEW d \in Placed(c, o, n)
  PROVE  d \in ClusterStates /\ WithinResources(d)
<1> DEFINE fresh   == NewPod(c, o, "RUNNING")
           counted == [fresh EXCEPT !.numRunning[Dep(o)] = OneMore(@)]
<1>1. fresh \in ClusterStates /\ WithinResources(fresh)
  BY NewPodType, NewPodWithin DEF Status
<1> HIDE DEF fresh
<1>2. \A k \in Int : OneMore(k) \in Int
  BY DEF OneMore
<1>3. counted \in ClusterStates /\ counted.nodeUsed = fresh.nodeUsed
  <2>1. [fresh.numRunning EXCEPT ![Dep(o)] = OneMore(@)] \in [Deployment -> Int]
    BY <1>1, <1>2 DEF ClusterStates
  <2>2. counted = [fresh EXCEPT !.numRunning = [fresh.numRunning EXCEPT ![Dep(o)] = OneMore(@)]]
    OBVIOUS
  <2> QED
    BY <1>1, <2>1, <2>2 DEF ClusterStates
<1>4. WithinResources(counted)
  BY <1>1, <1>3 DEF WithinResources
<1>5. d \in (IF n \in EdgeNode THEN {DeployEdge(counted, o, n)}
             ELSE {DeployCloud(counted, o, t) : t \in CloudNode})
  BY DEF Placed, fresh, counted
<1> HIDE DEF counted
<1> QED
  <2>1. CASE n \in EdgeNode
    BY <1>3, <1>4, <1>5, <2>1, DeployEdgeType, DeployEdgeWithin
  <2>2. CASE n \notin EdgeNode
    BY <1>3, <1>4, <1>5, <2>2, DeployCloudType, DeployCloudWithin
  <2> QED
    BY <2>1, <2>2

-----------------------------------------------------------------------------
(* The plans.                                                              *)

GoodPlan(q) == IsPlan(q) /\ OneKind(q) /\ WholeMoves(q)

(* A plan starts with a placement or with a whole move.                    *)
StartsAfresh(q) == q # <<>> => q[1].kind \in {"Bind", "Delete"}

Move == [obj : PodObj, node : Node]

(* Nothing to do is a good plan.                                           *)
LEMMA EmptyPlan == GoodPlan(<<>>)
  BY DEF GoodPlan, IsPlan, OneKind, WholeMoves

(* Popping the first element leaves a good plan.                           *)
LEMMA TailPlan ==
  ASSUME NEW q, GoodPlan(q), q # <<>>
  PROVE  GoodPlan(Tail(q))
<1> DEFINE t == Tail(q)
<1>1. q \in Seq(Element) /\ Len(q) \in Nat /\ Len(q) > 0 /\ DOMAIN q = 1..Len(q)
  BY DEF GoodPlan, IsPlan
<1>2. /\ t \in Seq(Element) /\ Len(t) = Len(q) - 1 /\ DOMAIN t = 1..Len(t)
      /\ \A i \in 1..Len(t) : t[i] = q[i + 1]
  BY <1>1
<1>3. \A i \in DOMAIN t : i + 1 \in DOMAIN q /\ 1 \in DOMAIN t
  BY <1>1, <1>2
<1> HIDE DEF t
<1>4. IsPlan(t)
  BY <1>2, <1>3 DEF IsPlan, GoodPlan
<1>5. OneKind(t)
  BY <1>2, <1>3 DEF OneKind, GoodPlan
<1>6. WholeMoves(t)
  <2> SUFFICES ASSUME NEW i \in DOMAIN t
               PROVE  /\ t[i].kind = "Delete" => i < Len(t) /\ t[i + 1].kind = "Create" /\ t[i + 1].dep = t[i].dep
                      /\ t[i].kind = "Create" =>
                           /\ i < Len(t) /\ t[i + 1].kind = "MigrateBind" /\ t[i + 1].dep = t[i].dep
                           /\ i > 1 => t[i - 1].kind = "Delete" /\ t[i - 1].dep = t[i].dep
                      /\ t[i].kind = "MigrateBind" =>
                           (i > 1 => t[i - 1].kind = "Create" /\ t[i - 1].dep = t[i].dep)
                      /\ t[i].tp = "PLACING" => t[i].kind = "Bind"
    BY DEF WholeMoves
  <2>1. i \in 1..(Len(q) - 1) /\ t[i] = q[i + 1] /\ i + 1 \in DOMAIN q
    BY <1>1, <1>2, <1>3
  <2>2. i < Len(t) <=> i + 1 < Len(q)
    BY <1>1, <1>2, <2>1
  <2>3. i + 1 < Len(q) => t[i + 1] = q[(i + 1) + 1]
    BY <1>1, <1>2, <2>1
  <2>4. i > 1 => t[i - 1] = q[(i + 1) - 1]
    BY <1>1, <1>2, <2>1
  <2>5. i + 1 > 1
    BY <2>1
  <2>6. /\ q[i + 1].kind = "Delete" =>
             /\ i + 1 < Len(q)
             /\ q[(i + 1) + 1].kind = "Create" /\ q[(i + 1) + 1].dep = q[i + 1].dep
        /\ q[i + 1].kind = "Create" =>
             /\ i + 1 < Len(q)
             /\ q[(i + 1) + 1].kind = "MigrateBind" /\ q[(i + 1) + 1].dep = q[i + 1].dep
             /\ q[(i + 1) - 1].kind = "Delete" /\ q[(i + 1) - 1].dep = q[i + 1].dep
        /\ q[i + 1].kind = "MigrateBind" =>
             q[(i + 1) - 1].kind = "Create" /\ q[(i + 1) - 1].dep = q[i + 1].dep
        /\ q[i + 1].tp = "PLACING" => q[i + 1].kind = "Bind"
    BY <2>1, <2>5 DEF GoodPlan, WholeMoves
  <2> QED
    BY <2>1, <2>2, <2>3, <2>4, <2>6
<1> QED
  BY <1>4, <1>5, <1>6 DEF GoodPlan, t

(* A deletion in a good plan starts a move.                                *)
LEMMA DeletionStartsMove ==
  ASSUME NEW q, GoodPlan(q), NEW i \in DOMAIN q, q[i].kind = "Delete"
  PROVE  i + 2 \in DOMAIN q /\ q[i + 2].kind = "MigrateBind"
<1>1. q \in Seq(Element) /\ Len(q) \in Nat /\ DOMAIN q = 1..Len(q)
  BY DEF GoodPlan, IsPlan
<1>2. i < Len(q) /\ q[i + 1].kind = "Create"
  BY DEF GoodPlan, WholeMoves
<1>3. i + 1 \in DOMAIN q
  BY <1>1, <1>2
<1>4. i + 1 < Len(q) /\ q[(i + 1) + 1].kind = "MigrateBind"
  BY <1>2, <1>3 DEF GoodPlan, WholeMoves
<1> QED
  BY <1>1, <1>4

-----------------------------------------------------------------------------
(* The three elements of a move, and where they stand in a plan of moves.  *)

(* The elements of a move are well formed.                                 *)
LEMMA MoveElementsType ==
  ASSUME NEW o \in PodObj, NEW n \in Node, NEW j \in 1..3
  PROVE  /\ WellFormed(MoveElements(o, n)[j])
         /\ MoveElements(o, n)[j].tp = "REORDERING"
         /\ MoveElements(o, n)[j].dep = Dep(o)
         /\ j = 1 => MoveElements(o, n)[j].kind = "Delete"
         /\ j = 2 => MoveElements(o, n)[j].kind = "Create"
         /\ j = 3 => MoveElements(o, n)[j].kind = "MigrateBind"
<1>1. Dep(o) \in Deployment
  BY PodsAreLabelled DEF Dep, PodObj
<1>2. j = 1 \/ j = 2 \/ j = 3
  OBVIOUS
<1> QED
  BY <1>1, <1>2 DEF MoveElements, WellFormed, Element, Kinds, Types

(* An element of a plan of moves: the first, second or third of a move.    *)
LEMMA MovesPlanAt ==
  ASSUME NEW ms \in Seq(Move), NEW i \in 1..(3 * Len(ms))
  PROVE  \E k \in 1..Len(ms), j \in 1..3 :
           /\ i = 3 * (k - 1) + j
           /\ ms[k] \in Move
           /\ MovesPlan(ms)[i] = MoveElements(ms[k].obj, ms[k].node)[j]
<1> DEFINE k == ((i - 1) \div 3) + 1
           j == ((i - 1) % 3) + 1
<1>1. Len(ms) \in Nat
  OBVIOUS
<1>2. k \in Int /\ j \in 1..3 /\ i = 3 * (k - 1) + j
  OBVIOUS
<1>3. k \in 1..Len(ms)
  BY <1>1, <1>2
<1>4. MovesPlan(ms)[i] = MoveElements(ms[k].obj, ms[k].node)[j]
  BY DEF MovesPlan
<1> HIDE DEF k, j
<1>5. ms[k] \in Move
  BY <1>3
<1> QED
  BY <1>2, <1>3, <1>4, <1>5

(* A plan of moves is a good plan, and a reordering.                       *)
LEMMA MovesPlanGood ==
  ASSUME NEW ms \in Seq(Move)
  PROVE  /\ GoodPlan(MovesPlan(ms))
         /\ \A i \in DOMAIN MovesPlan(ms) : MovesPlan(ms)[i].tp = "REORDERING"
         /\ MovesPlan(ms) # <<>> => MovesPlan(ms)[1].kind = "Delete"
<1> DEFINE P == MovesPlan(ms)
           IsPart(i, k, j) ==
             /\ i = 3 * (k - 1) + j
             /\ WellFormed(P[i]) /\ P[i].tp = "REORDERING"
             /\ P[i].dep = Dep(ms[k].obj)
             /\ j = 1 => P[i].kind = "Delete"
             /\ j = 2 => P[i].kind = "Create"
             /\ j = 3 => P[i].kind = "MigrateBind"
<1>1. Len(ms) \in Nat /\ DOMAIN P = 1..(3 * Len(ms))
  BY DEF MovesPlan
<1>2. \A i \in DOMAIN P : \E k \in 1..Len(ms), j \in 1..3 : IsPart(i, k, j)
  <2> TAKE i \in DOMAIN P
  <2>0. i \in 1..(3 * Len(ms))
    BY ONLY <1>1, i \in DOMAIN P
  <2>1. PICK k \in 1..Len(ms), j \in 1..3 :
          /\ i = 3 * (k - 1) + j
          /\ ms[k] \in Move
          /\ P[i] = MoveElements(ms[k].obj, ms[k].node)[j]
    BY <2>0, MovesPlanAt
  <2>2. ms[k].obj \in PodObj /\ ms[k].node \in Node
    BY ONLY <2>1 DEF Move
  <2> HIDE DEF P
  <2>3. PICK o \in PodObj, n \in Node : o = ms[k].obj /\ n = ms[k].node
    BY ONLY <2>2
  <2>4. PICK e : e = MoveElements(o, n)[j]
    OBVIOUS
  <2>5. /\ WellFormed(e) /\ e.tp = "REORDERING" /\ e.dep = Dep(o)
        /\ j = 1 => e.kind = "Delete"
        /\ j = 2 => e.kind = "Create"
        /\ j = 3 => e.kind = "MigrateBind"
    BY ONLY <2>4, j \in 1..3, o \in PodObj, n \in Node, MoveElementsType
  <2>6. P[i] = e
    BY ONLY <2>1, <2>3, <2>4
  <2>7. IsPart(i, k, j)
    BY ONLY <2>1, <2>3, <2>5, <2>6
  <2> QED
    BY <2>7
<1>3. P \in Seq(Element) /\ Len(P) = 3 * Len(ms)
  <2>1. \A i \in 1..(3 * Len(ms)) : P[i] \in Element
    BY <1>1, <1>2 DEF WellFormed
  <2> HIDE DEF IsPart
  <2>2. P \in [1..(3 * Len(ms)) -> Element]
    BY <2>1 DEF MovesPlan
  <2>3. 3 * Len(ms) \in Nat
    BY <1>1
  <2> HIDE DEF P
  <2>4. P \in Seq(Element)
    BY <2>2, <2>3, SeqDef
  <2> QED
    BY <1>1, <2>3, <2>4, LenProperties
<1> HIDE DEF P
<1>4. \A i \in DOMAIN P : WellFormed(P[i]) /\ P[i].tp = "REORDERING"
  BY <1>2
<1>5. WholeMoves(P)
  <2> SUFFICES ASSUME NEW i \in DOMAIN P
               PROVE  /\ P[i].kind = "Delete" => i < Len(P) /\ P[i + 1].kind = "Create" /\ P[i + 1].dep = P[i].dep
                      /\ P[i].kind = "Create" =>
                           /\ i < Len(P) /\ P[i + 1].kind = "MigrateBind" /\ P[i + 1].dep = P[i].dep
                           /\ i > 1 => P[i - 1].kind = "Delete" /\ P[i - 1].dep = P[i].dep
                      /\ P[i].kind = "MigrateBind" =>
                           (i > 1 => P[i - 1].kind = "Create" /\ P[i - 1].dep = P[i].dep)
                      /\ P[i].tp # "PLACING"
    BY DEF WholeMoves
  <2>1. PICK k \in 1..Len(ms), j \in 1..3 : IsPart(i, k, j)
    BY <1>2
  <2>2. j \in 1..2 => i + 1 \in DOMAIN P /\ i < Len(P) /\ IsPart(i + 1, k, j + 1)
    <3> SUFFICES ASSUME j \in 1..2
                 PROVE  i + 1 \in DOMAIN P /\ i < Len(P) /\ IsPart(i + 1, k, j + 1)
      OBVIOUS
    <3>1. i + 1 \in DOMAIN P /\ i < Len(P)
      <4>1. i = 3 * (k - 1) + j /\ i \in 1..(3 * Len(ms))
        BY <1>1, <2>1
      <4>2. i + 1 <= 3 * Len(ms) /\ i + 1 >= 1
        BY ONLY <1>1, <4>1, k \in 1..Len(ms), j \in 1..2
      <4> QED
        BY ONLY <1>1, <1>3, <4>1, <4>2
    <3>2. PICK l \in 1..Len(ms), m \in 1..3 : IsPart(i + 1, l, m)
      BY <1>2, <3>1
    <3>3. l = k /\ m = j + 1
      BY <1>1, <2>1, <3>2
    <3> QED
      BY <3>1, <3>2, <3>3
  <2>3. j \in 2..3 => i - 1 \in DOMAIN P /\ IsPart(i - 1, k, j - 1)
    <3> SUFFICES ASSUME j \in 2..3
                 PROVE  i - 1 \in DOMAIN P /\ IsPart(i - 1, k, j - 1)
      OBVIOUS
    <3>1. i - 1 \in DOMAIN P
      BY <1>1, <2>1
    <3>2. PICK l \in 1..Len(ms), m \in 1..3 : IsPart(i - 1, l, m)
      BY <1>2, <3>1
    <3>3. l = k /\ m = j - 1
      BY <1>1, <2>1, <3>2
    <3> QED
      BY <3>1, <3>2, <3>3
  <2>4. CASE j = 1
    <3>1. P[i].kind = "Delete" /\ P[i + 1].kind = "Create" /\ P[i + 1].dep = P[i].dep
      BY <2>1, <2>2, <2>4
    <3> QED
      BY <1>4, <2>2, <2>4, <3>1
  <2>5. CASE j = 2
    <3>1. /\ P[i].kind = "Create"
          /\ P[i + 1].kind = "MigrateBind" /\ P[i + 1].dep = P[i].dep
          /\ P[i - 1].kind = "Delete" /\ P[i - 1].dep = P[i].dep
      BY <2>1, <2>2, <2>3, <2>5
    <3> QED
      BY <1>4, <2>2, <2>5, <3>1
  <2>6. CASE j = 3
    <3>1. P[i].kind = "MigrateBind" /\ P[i - 1].kind = "Create" /\ P[i - 1].dep = P[i].dep
      BY <2>1, <2>3, <2>6
    <3> QED
      BY <1>4, <3>1
  <2> QED
    BY <2>4, <2>5, <2>6
<1>6. P # <<>> => P[1].kind = "Delete"
  <2> SUFFICES ASSUME P # <<>>
               PROVE  P[1].kind = "Delete"
    OBVIOUS
  <2>1. 1 \in DOMAIN P
    BY <1>1, <1>3
  <2>2. PICK k \in 1..Len(ms), j \in 1..3 : IsPart(1, k, j)
    BY <1>2, <2>1
  <2> QED
    BY <1>1, <2>2
<1>7. OneKind(P)
  BY <1>1, <1>3, <1>4 DEF OneKind
<1> QED
  BY <1>3, <1>4, <1>5, <1>6, <1>7 DEF GoodPlan, IsPlan, P

-----------------------------------------------------------------------------
(* Plans of bindings, and bindings in front of moves.                      *)

(* An element that binds a pod is well formed.                             *)
LEMMA BindElementType ==
  ASSUME NEW o \in PodObj, NEW n \in Node, NEW tp \in Types
  PROVE  /\ WellFormed(BindElement(o, n, tp)) /\ BindElement(o, n, tp) \in Element
         /\ BindElement(o, n, tp).kind = "Bind" /\ BindElement(o, n, tp).tp = tp
  BY PodObjType DEF BindElement, WellFormed, Element, Kinds, Dep

(* A sequence of bindings of one type is a good plan.                      *)
LEMMA BindingsGood ==
  ASSUME NEW q \in Seq(Element), NEW tp,
         \A i \in DOMAIN q : WellFormed(q[i]) /\ q[i].kind = "Bind" /\ q[i].tp = tp
  PROVE  GoodPlan(q) /\ StartsAfresh(q)
<1>1. DOMAIN q = 1..Len(q) /\ Len(q) \in Nat
  OBVIOUS
<1>2. OneKind(q)
  BY <1>1 DEF OneKind
<1>3. WholeMoves(q)
  BY <1>1 DEF WholeMoves
<1>4. StartsAfresh(q)
  <2>1. q # <<>> => 1 \in DOMAIN q
    BY <1>1, EmptySeq
  <2> QED
    BY <2>1 DEF StartsAfresh
<1> QED
  BY <1>2, <1>3, <1>4 DEF GoodPlan, IsPlan

(* A plan of a reordering.                                                 *)
Reordering(q) == GoodPlan(q) /\ StartsAfresh(q) /\ \A i \in DOMAIN q : q[i].tp = "REORDERING"

(* One reordering after another is a reordering.                           *)
LEMMA ReorderingsFollow ==
  ASSUME NEW b, NEW p, Reordering(b), Reordering(p)
  PROVE  Reordering(b \o p)
<1> DEFINE q == b \o p
           m == Len(b)
<1>1. p \in Seq(Element) /\ DOMAIN p = 1..Len(p) /\ Len(p) \in Nat
  BY DEF Reordering, GoodPlan, IsPlan
<1>2. b \in Seq(Element) /\ m \in Nat /\ DOMAIN b = 1..m
  BY DEF Reordering, GoodPlan, IsPlan
<1>3. /\ q \in Seq(Element) /\ Len(q) = m + Len(p) /\ DOMAIN q = 1..(m + Len(p))
      /\ \A i \in 1..(m + Len(p)) : q[i] = IF i <= m THEN b[i] ELSE p[i - m]
  BY <1>1, <1>2, ConcatProperties
<1>4. GoodPlan(b) /\ GoodPlan(p) /\ StartsAfresh(b) /\ StartsAfresh(p)
  BY DEF Reordering
<1>5. /\ \A i \in 1..m : b[i].tp = "REORDERING"
      /\ \A i \in 1..Len(p) : p[i].tp = "REORDERING"
  BY <1>1, <1>2 DEF Reordering
<1> HIDE DEF q, m
<1>6. \A i \in 1..(m + Len(p)) : i > m => i - m \in 1..Len(p) /\ q[i] = p[i - m]
  BY <1>1, <1>2, <1>3
<1>7. \A i \in 1..(m + Len(p)) : i <= m => i \in 1..m /\ q[i] = b[i]
  BY <1>1, <1>2, <1>3
<1>8. \A i \in DOMAIN q : WellFormed(q[i]) /\ q[i].tp = "REORDERING"
  <2> TAKE i \in DOMAIN q
  <2>1. CASE i <= m
    <3>1. i \in DOMAIN b /\ q[i] = b[i]
      BY <1>2, <1>3, <1>7, <2>1
    <3> QED
      BY <1>2, <1>4, <1>5, <3>1 DEF GoodPlan, IsPlan
  <2>2. CASE i > m
    <3>1. i - m \in DOMAIN p /\ q[i] = p[i - m]
      BY <1>1, <1>3, <1>6, <2>2
    <3> QED
      BY <1>1, <1>4, <1>5, <3>1 DEF GoodPlan, IsPlan
  <2> QED
    BY <1>2, <1>3, <2>1, <2>2
<1>9. OneKind(q)
  BY <1>1, <1>2, <1>3, <1>8 DEF OneKind
<1>10. WholeMoves(q)
  <2> SUFFICES ASSUME NEW i \in DOMAIN q
               PROVE  /\ q[i].kind = "Delete" => i < Len(q) /\ q[i + 1].kind = "Create" /\ q[i + 1].dep = q[i].dep
                      /\ q[i].kind = "Create" =>
                           /\ i < Len(q) /\ q[i + 1].kind = "MigrateBind" /\ q[i + 1].dep = q[i].dep
                           /\ i > 1 => q[i - 1].kind = "Delete" /\ q[i - 1].dep = q[i].dep
                      /\ q[i].kind = "MigrateBind" =>
                           (i > 1 => q[i - 1].kind = "Create" /\ q[i - 1].dep = q[i].dep)
                      /\ q[i].tp = "PLACING" => q[i].kind = "Bind"
    BY DEF WholeMoves
  <2>1. q[i].tp # "PLACING"
    BY <1>8
  <2>2. CASE i <= m
    <3>1. i \in 1..m /\ i \in DOMAIN b /\ q[i] = b[i]
      BY <1>2, <1>3, <1>7, <2>2
    <3>2. /\ b[i].kind = "Delete" => i < m /\ b[i + 1].kind = "Create" /\ b[i + 1].dep = b[i].dep
          /\ b[i].kind = "Create" =>
               /\ i < m /\ b[i + 1].kind = "MigrateBind" /\ b[i + 1].dep = b[i].dep
               /\ i > 1 => b[i - 1].kind = "Delete" /\ b[i - 1].dep = b[i].dep
          /\ b[i].kind = "MigrateBind" =>
               (i > 1 => b[i - 1].kind = "Create" /\ b[i - 1].dep = b[i].dep)
      BY <1>4, <3>1 DEF GoodPlan, WholeMoves, m
    <3>3. i < m => i < Len(q) /\ q[i + 1] = b[i + 1]
      BY <1>1, <1>2, <1>3, <3>1
    <3>4. i > 1 => q[i - 1] = b[i - 1]
      BY <1>1, <1>2, <1>3, <3>1
    <3> QED
      BY <2>1, <3>1, <3>2, <3>3, <3>4
  <2>3. CASE i > m
    <3> DEFINE j == i - m
    <3>1. j \in 1..Len(p) /\ j \in DOMAIN p /\ q[i] = p[j]
      BY <1>1, <1>2, <1>3, <1>6, <2>3
    <3>2. /\ p[j].kind = "Delete" => j < Len(p) /\ p[j + 1].kind = "Create" /\ p[j + 1].dep = p[j].dep
          /\ p[j].kind = "Create" =>
               /\ j < Len(p) /\ p[j + 1].kind = "MigrateBind" /\ p[j + 1].dep = p[j].dep
               /\ j > 1 => p[j - 1].kind = "Delete" /\ p[j - 1].dep = p[j].dep
          /\ p[j].kind = "MigrateBind" =>
               (j > 1 => p[j - 1].kind = "Create" /\ p[j - 1].dep = p[j].dep)
      <4> HIDE DEF j
      <4> QED
        BY <1>4, <3>1 DEF GoodPlan, WholeMoves
    <3>3. j < Len(p) => i < Len(q) /\ q[i + 1] = p[j + 1]
      BY <1>1, <1>2, <1>3, <2>3
    <3>4. j > 1 => q[i - 1] = p[j - 1]
      BY <1>1, <1>2, <1>3, <2>3
    <3>5. j = 1 => p[j].kind \in {"Bind", "Delete"}
      <4>1. p # <<>>
        BY <1>1, <3>1
      <4> QED
        BY <1>4, <4>1 DEF StartsAfresh
    <3>6. j = 1 \/ j > 1
      BY <1>1, <3>1
    <3> HIDE DEF j
    <3> QED
      BY <2>1, <3>1, <3>2, <3>3, <3>4, <3>5, <3>6
  <2> QED
    BY <1>2, <1>3, <2>2, <2>3
<1>11. StartsAfresh(q)
  <2> SUFFICES ASSUME q # <<>>
               PROVE  q[1].kind \in {"Bind", "Delete"}
    BY DEF StartsAfresh
  <2>1. 1 \in 1..(m + Len(p))
    BY <1>1, <1>2, <1>3
  <2>2. CASE m = 0
    <3>1. p # <<>> /\ q[1] = p[1]
      BY <1>1, <1>3, <1>6, <2>1, <2>2
    <3> QED
      BY <1>4, <3>1 DEF StartsAfresh
  <2>3. CASE m > 0
    <3>1. b # <<>> /\ q[1] = b[1]
      BY <1>2, <1>7, <2>1, <2>3 DEF m
    <3> QED
      BY <1>4, <3>1 DEF StartsAfresh
  <2> QED
    BY <1>2, <2>2, <2>3
<1> QED
  BY <1>3, <1>8, <1>9, <1>10, <1>11 DEF Reordering, GoodPlan, IsPlan, q

-----------------------------------------------------------------------------
(* The plan of a batch and the plan of a suggestion.                       *)

(* The algorithm maps some of what it is given, to edge nodes.             *)
LEMMA EdgeMappingsType ==
  ASSUME NEW rem, NEW objs, NEW I, NEW f \in EdgeMappings(rem, objs, I)
  PROVE  DOMAIN f \subseteq I /\ \A x \in DOMAIN f : f[x] \in EdgeNode
<1>1. f = <<>> \/ f \in Assignments(rem, objs, I)
  BY DEF EdgeMappings
<1>2. CASE f = <<>>
  BY <1>2
<1>3. CASE f \in Assignments(rem, objs, I)
  BY <1>3 DEF Assignments
<1> QED
  BY <1>1, <1>2, <1>3

(* The plan of a batch binds pods.                                         *)
LEMMA BatchPlanGood ==
  ASSUME NEW batch \in Seq(PodObj), NEW q \in SetToSeqs(1..Len(batch)),
         NEW f, \A x \in DOMAIN f : f[x] \in EdgeNode
  PROVE  GoodPlan(BatchPlan(batch, q, f)) /\ StartsAfresh(BatchPlan(batch, q, f))
<1> DEFINE P == BatchPlan(batch, q, f)
           Target(i) == IF q[i] \in DOMAIN f THEN f[q[i]] ELSE CloudHead
<1>1. IsFiniteSet(1..Len(batch))
  BY FS_Interval
<1>2. q \in Seq(1..Len(batch)) /\ Len(q) \in Nat /\ DOMAIN q = 1..Len(q)
  BY <1>1, SetToSeqsType
<1>3. \A i \in 1..Len(q) : q[i] \in 1..Len(batch)
  BY <1>2, ElementOfSeq
<1>4. \A i \in 1..Len(q) : batch[q[i]] \in PodObj /\ Target(i) \in Node
  BY <1>3, ElementOfSeq, CloudHeadIsCloud DEF Node
<1>5. P = [i \in 1..Len(q) |-> BindElement(batch[q[i]], Target(i), "PLACING")]
  BY <1>2 DEF BatchPlan
<1> HIDE DEF P, Target
<1>6. \A i \in 1..Len(q) :
        /\ P[i] \in Element /\ WellFormed(P[i])
        /\ P[i].kind = "Bind" /\ P[i].tp = "PLACING"
  BY <1>4, <1>5, BindElementType DEF Types
<1>7. P \in [1..Len(q) -> Element]
  BY <1>5, <1>6
<1>8. DOMAIN P = 1..Len(q)
  BY <1>7
<1>9. P \in Seq(Element)
  <2>1. Len(q) \in Nat
    BY <1>2
  <2> QED
    BY ONLY <2>1, <1>7, SeqDef, SMTT(30)
<1> QED
  BY <1>6, <1>8, <1>9, BindingsGood DEF P

(* What the check makes of migrations has objects and targets.             *)
LEMMA CheckedMigrationsType ==
  ASSUME clusterState \in ClusterStates, suggestion \in Suggestion, NEW moved \in CheckedMigrations
  PROVE  /\ moved \in Seq(Move)
         /\ \A i \in DOMAIN moved : \E m \in Surviving : moved[i].obj = clusterState.podsMap[m.pod]
<1>1. suggestion.migrations \subseteq Migration /\ IsFiniteSet(suggestion.migrations)
  BY DEF Suggestion
<1>2. /\ Surviving \subseteq suggestion.migrations
      /\ \A m \in Surviving : clusterState.podsMap[m.pod] # Nil
  BY DEF Surviving
<1>3. IsFiniteSet(Surviving)
  BY <1>1, <1>2, FS_Subset
<1> DEFINE Objs(q) == [i \in DOMAIN q |-> clusterState.podsMap[q[i].pod]]
           Tos(q)  == [i \in DOMAIN q |-> q[i].to]
           Moved(q, t) == [i \in DOMAIN q |-> [obj |-> Objs(q)[i], node |-> t[i]]]
           HomesOf(q) == {h \in [DOMAIN q -> EdgeNode \cup {Nil}] : \A i \in DOMAIN q : h[i] \in Homes(q[i].pod)}
           AllMoved(q) == UNION {{Moved(q, t) : t \in OnImage(Objs(q), home, Tos(q))} : home \in HomesOf(q)}
<1>4. PICK q \in SetToSeqs(Surviving) : moved \in AllMoved(q)
  <2>1. CheckedMigrations = UNION {AllMoved(q) : q \in SetToSeqs(Surviving)}
    BY DEF CheckedMigrations
  <2> HIDE DEF AllMoved
  <2> QED
    BY <2>1
<1> HIDE DEF Objs, Tos, Moved, HomesOf
<1>5. PICK home : \E t \in OnImage(Objs(q), home, Tos(q)) : moved = Moved(q, t)
  BY <1>4
<1>6. PICK t \in OnImage(Objs(q), home, Tos(q)) : moved = Moved(q, t)
  BY <1>5
<1>7. q \in Seq(Surviving) /\ Len(q) \in Nat /\ DOMAIN q = 1..Len(q)
  BY <1>3, SetToSeqsType
<1>8. t \in [DOMAIN q -> Node]
  <2>1. DOMAIN Tos(q) = DOMAIN q
    BY DEF Tos
  <2>2. t \in [DOMAIN Tos(q) -> Node]
    BY <1>6 DEF OnImage
  <2> QED
    BY <2>1, <2>2
<1>9. \A i \in DOMAIN q : moved[i] \in Move /\ \E m \in Surviving : moved[i].obj = clusterState.podsMap[m.pod]
  <2> SUFFICES ASSUME NEW i \in DOMAIN q
               PROVE  moved[i] \in Move /\ \E m \in Surviving : moved[i].obj = clusterState.podsMap[m.pod]
    OBVIOUS
  <2>1. q[i] \in Surviving
    BY <1>7, ElementOfSeq
  <2>2. q[i].pod \in Pod /\ clusterState.podsMap[q[i].pod] # Nil
    BY <1>1, <1>2, <2>1 DEF Migration
  <2>3. clusterState.podsMap[q[i].pod] \in PodObj
    BY <2>2 DEF ClusterStates
  <2>4. moved[i] = [obj |-> clusterState.podsMap[q[i].pod], node |-> t[i]]
    BY <1>6 DEF Moved, Objs
  <2> QED
    BY <1>8, <2>1, <2>3, <2>4 DEF Move
<1>10. moved \in [1..Len(q) -> Move]
  BY <1>6, <1>7, <1>9 DEF Moved
<1>11. DOMAIN moved = DOMAIN q
  BY <1>6 DEF Moved
<1> QED
  BY <1>7, <1>9, <1>10, <1>11, SeqDef

(* One checked migration is a reordering.                                  *)
LEMMA MigrationElementsGood ==
  ASSUME NEW m \in Move
  PROVE  Reordering(MigrationElements(m))
<1>1. m.obj \in PodObj /\ m.node \in Node
  BY DEF Move
<1>2. CASE IsMove(m)
  <2> DEFINE e == MoveElements(m.obj, m.node)
  <2>1. MigrationElements(m) = e
    BY <1>2 DEF MigrationElements
  <2>2. DOMAIN e = 1..3 /\ Len(e) = 3
    BY DEF MoveElements
  <2>3. /\ WellFormed(e[1]) /\ e[1].tp = "REORDERING" /\ e[1].dep = Dep(m.obj) /\ e[1].kind = "Delete"
        /\ WellFormed(e[2]) /\ e[2].tp = "REORDERING" /\ e[2].dep = Dep(m.obj) /\ e[2].kind = "Create"
        /\ WellFormed(e[3]) /\ e[3].tp = "REORDERING" /\ e[3].dep = Dep(m.obj) /\ e[3].kind = "MigrateBind"
    BY <1>1, MoveElementsType
  <2>4. e \in Seq(Element)
    BY <2>3 DEF WellFormed, MoveElements
  <2> HIDE DEF e
  <2>5. \A i \in DOMAIN e : i = 1 \/ i = 2 \/ i = 3
    BY <2>2
  <2>6. IsPlan(e) /\ OneKind(e) /\ \A i \in DOMAIN e : e[i].tp = "REORDERING"
    BY <2>3, <2>4, <2>5 DEF IsPlan, OneKind
  <2>7. WholeMoves(e)
    BY <2>2, <2>3, <2>5 DEF WholeMoves
  <2> QED
    BY <2>1, <2>3, <2>6, <2>7 DEF Reordering, GoodPlan, StartsAfresh
<1>3. CASE ~IsMove(m)
  <2> DEFINE e == BindElement(m.obj, m.node, "REORDERING")
  <2>1. MigrationElements(m) = <<e>>
    BY <1>3 DEF MigrationElements
  <2>2. WellFormed(e) /\ e \in Element /\ e.kind = "Bind" /\ e.tp = "REORDERING"
    BY <1>1, BindElementType DEF Types
  <2> HIDE DEF e
  <2>3. <<e>> \in Seq(Element) /\ DOMAIN <<e>> = {1} /\ <<e>>[1] = e
    BY <2>2
  <2>4. GoodPlan(<<e>>) /\ StartsAfresh(<<e>>)
    <3> DEFINE q == <<e>>
    <3>1. q \in Seq(Element) /\ \A i \in DOMAIN q : WellFormed(q[i]) /\ q[i].kind = "Bind" /\ q[i].tp = "REORDERING"
      BY <2>2, <2>3
    <3> HIDE DEF q
    <3>2. GoodPlan(q) /\ StartsAfresh(q)
      BY <3>1, BindingsGood
    <3> QED
      BY <3>2 DEF q
  <2> QED
    BY <2>1, <2>2, <2>3, <2>4 DEF Reordering
<1> QED
  BY <1>2, <1>3

MigrationsFolded(moved, g) ==
    [s \in SUBSET DOMAIN moved |->
        IF s = {} THEN <<>> ELSE LET x == Max(s) IN g[s \ {x}] \o MigrationElements(moved[x])]

(* What holds for no plan at all and stays when a migration is added holds *)
(* for the plan of all of them.                                            *)
LEMMA MigrationsPlanIn ==
  ASSUME NEW moved \in Seq(Move), NEW V, <<>> \in V,
         \A i \in DOMAIN moved, v \in V : v \o MigrationElements(moved[i]) \in V
  PROVE  MigrationsPlan(moved) \in V
<1> DEFINE n == Len(moved)
           F == [y \in (1..n) \X V |-> y[2] \o MigrationElements(moved[y[1]])]
           G == CHOOSE g : g = MigrationsFolded(moved, g)
<1>1. n \in Nat /\ DOMAIN moved = 1..n
  OBVIOUS
<1>2. \A i \in 1..n, v \in V : F[<<i, v>>] = v \o MigrationElements(moved[i]) /\ F[<<i, v>>] \in V
  BY <1>1
<1>3. PICK g : g = SeqStep(F, <<>>, n, g) /\ \A s \in SUBSET (1..n) : g[s] \in V
  <2> HIDE DEF F, n
  <2>1. PICK b : b = <<>> /\ b \in V
    OBVIOUS
  <2>2. \A i \in 1..n, v \in V : F[<<i, v>>] \in V
    BY <1>2
  <2>3. \E g : g = SeqStep(F, b, n, g) /\ \A s \in SUBSET (1..n) : g[s] \in V
    BY ONLY <1>1, <2>1, <2>2, SeqFold
  <2> QED
    BY <2>1, <2>3
<1>4. \A s \in SUBSET (1..n) : s # {} => Max(s) \in s
  BY <1>1, TopsChoose DEF Chooses, Tops
<1>5. g = MigrationsFolded(moved, g)
  <2>1. ASSUME NEW s \in SUBSET (1..n), s # {}
        PROVE  F[<<Max(s), g[s \ {Max(s)}]>>] = g[s \ {Max(s)}] \o MigrationElements(moved[Max(s)])
    <3>1. PICK x, v : x = Max(s) /\ v = g[s \ {Max(s)}]
      OBVIOUS
    <3>2. x \in 1..n /\ v \in V
      BY <1>3, <1>4, <2>1, <3>1
    <3> HIDE DEF F
    <3> QED
      BY <1>2, <3>1, <3>2
  <2> HIDE DEF F, n
  <2> QED
    BY <1>1, <1>3, <2>1 DEF SeqStep, MigrationsFolded
<1>6. G = MigrationsFolded(moved, G)
  BY <1>5
<1>7. MigrationsPlan(moved) = G[DOMAIN moved]
  BY DEF MigrationsPlan, MigrationsFolded, FoldLeft, MapThenFoldSet
<1> HIDE DEF G
<1>8. \A s \in SUBSET (1..n) : G[s] \in V
  <2>1. \A s \in SUBSET (1..n) :
          G[s] = IF s = {} THEN <<>> ELSE G[s \ {Max(s)}] \o MigrationElements(moved[Max(s)])
    <3> HIDE DEF n
    <3> QED
      BY <1>1, <1>6 DEF MigrationsFolded
  <2> DEFINE W == [s \in SUBSET (1..n) |-> V]
  <2>2. G[{}] \in W[{}]
    BY <2>1
  <2>3. ASSUME NEW s \in SUBSET (1..n), s # {}, G[s \ {Max(s)}] \in W[s \ {Max(s)}]
        PROVE  G[s] \in W[s]
    <3>1. PICK x, v : x = Max(s) /\ v = G[s \ {Max(s)}]
      OBVIOUS
    <3>2. x \in 1..n /\ v \in V
      BY <1>4, <2>3, <3>1
    <3>3. v \o MigrationElements(moved[x]) \in V
      BY <1>1, <3>2
    <3>4. G[s] = v \o MigrationElements(moved[x])
      BY <2>1, <2>3, <3>1
    <3> QED
      BY <3>3, <3>4
  <2> HIDE DEF W, n
  <2>4. \A s \in SUBSET (1..n) : G[s] \in W[s]
    BY <1>1, <2>2, <2>3, SeqInduction
  <2> QED
    BY <2>4 DEF W
<1>9. G[1..n] \in V
  BY <1>8
<1> QED
  BY <1>1, <1>7, <1>9

(* All migrations together are a reordering.                               *)
LEMMA MigrationsPlanGood ==
  ASSUME NEW moved \in Seq(Move)
  PROVE  Reordering(MigrationsPlan(moved))
<1> DEFINE V == {p \in Seq(Element) : Reordering(p)}
<1>1. <<>> \in V
  BY EmptyPlan DEF Reordering, StartsAfresh
<1>2. ASSUME NEW i \in DOMAIN moved, NEW v \in V
      PROVE  v \o MigrationElements(moved[i]) \in V
  <2>1. moved[i] \in Move
    BY ElementOfSeq
  <2>2. PICK w : w = v \o MigrationElements(moved[i]) /\ Reordering(w)
    BY <2>1, MigrationElementsGood, ReorderingsFollow
  <2> QED
    BY <2>2 DEF Reordering, GoodPlan, IsPlan
<1> HIDE DEF V
<1>3. MigrationsPlan(moved) \in V
  BY <1>1, <1>2, MigrationsPlanIn
<1> QED
  BY <1>3 DEF V

(* The plan of a suggestion is a good plan.                                *)
LEMMA SuggestedPlanGood ==
  ASSUME NEW moved \in Seq(Move), NEW toEdge \in Seq(Move)
  PROVE  LET plan == MigrationsPlan(moved) \o MovesPlan(toEdge)
         IN GoodPlan(plan) /\ StartsAfresh(plan)
<1>1. Reordering(MigrationsPlan(moved))
  BY MigrationsPlanGood
<1>2. Reordering(MovesPlan(toEdge))
  BY MovesPlanGood DEF Reordering, StartsAfresh
<1> QED
  BY <1>1, <1>2, ReorderingsFollow DEF Reordering

(* What the suggestion goroutine offers is a suggestion.                   *)
LEMMA SuggestionsType ==
  ASSUME NEW c \in ClusterStates, NEW s \in Suggestions(c)
  PROVE  s \in Suggestion
<1>1. \A m \in MigrationsOf(c) : m \in SUBSET Migration /\ IsFiniteSet(m)
  <2> SUFFICES ASSUME NEW m \in MigrationsOf(c)
               PROVE  m \in SUBSET Migration /\ IsFiniteSet(m)
    OBVIOUS
  <2>1. CASE m = {}
    BY <2>1, FS_EmptySet
  <2>2. CASE m # {}
    <3>1. PICK M, f : /\ M \in SUBSET PodObj /\ f \in [M -> EdgeNode]
                      /\ m = {[pod |-> Id(o), from |-> c.node[o], to |-> f[o]] : o \in DOMAIN f}
      BY <2>2 DEF MigrationsOf
    <3>2. PICK F : F = [o \in M |-> [pod |-> Id(o), from |-> c.node[o], to |-> f[o]]]
      OBVIOUS
    <3>3. m = {F[o] : o \in M}
      BY <3>1, <3>2
    <3>4. \A o \in M : F[o] \in Migration
      BY <3>1, <3>2, PodObjType DEF Migration, ClusterStates
    <3>5. IsFiniteSet(M)
      BY <3>1, ObjectsFinite
    <3>6. F \in Surjection(M, m)
      BY <3>2, <3>3 DEF Surjection
    <3>7. IsFiniteSet(m)
      BY <3>5, <3>6, FS_Surjection
    <3> QED
      BY <3>3, <3>4, <3>7
  <2> QED
    BY <2>1, <2>2
<1>2. CloudToEdge(c) \subseteq SUBSET Pod
  BY DEF CloudToEdge, Pullable
<1>3. CASE Conflict(c)
  BY <1>3, FS_EmptySet DEF Suggestions, Suggestion
<1>4. CASE ~Conflict(c)
  <2>1. PICK S \in CloudToEdge(c) :
          s \in {[toEdge |-> S, migrations |-> m] : m \in IF S = {} THEN {{}} ELSE MigrationsOf(c)}
    BY <1>4 DEF Suggestions
  <2>2. PICK m \in (IF S = {} THEN {{}} ELSE MigrationsOf(c)) : s = [toEdge |-> S, migrations |-> m]
    BY <2>1
  <2>3. m \in SUBSET Migration /\ IsFiniteSet(m)
    BY <1>1, <2>2, FS_EmptySet
  <2> QED
    BY <1>2, <2>2, <2>3 DEF Suggestion
<1> QED
  BY <1>3, <1>4

-----------------------------------------------------------------------------

PlanOK == PlanTypeOK /\ OneKindOfPlan /\ MovesAreWhole

IInv == KubernetesTypeOK /\ ConnectorTypeOK /\ PlanOK /\ ControlTypeOK /\ NeverOverbooked

-----------------------------------------------------------------------------
(* The queue.                                                              *)

(* No expectations, no bookkeeping.                                        *)
LEMMA FlushGood ==
  ASSUME Flush
  PROVE  PlanOK'
<1>1. GoodPlan(expectations')
  BY EmptyPlan DEF Flush
<1> QED
  BY <1>1 DEF Flush, PlanOK, PlanTypeOK, OneKindOfPlan, MovesAreWhole, GoodPlan, NoneExpected

(* Popping the awaited element keeps the queue good.                       *)
LEMMA PoppedGood ==
  ASSUME PlanOK, expectations # <<>>, Popped
  PROVE  PlanOK'
<1>1. GoodPlan(expectations)
  BY DEF PlanOK, PlanTypeOK, OneKindOfPlan, MovesAreWhole, GoodPlan
<1>2. GoodPlan(expectations')
  BY <1>1, TailPlan DEF Popped
<1> QED
  BY <1>2 DEF Popped, PlanOK, PlanTypeOK, OneKindOfPlan, MovesAreWhole, GoodPlan

(* What is not touched stays good.                                         *)
LEMMA PlanUnchanged ==
  ASSUME PlanOK, UNCHANGED planVars
  PROVE  PlanOK'
  BY DEF planVars, PlanOK, PlanTypeOK, OneKindOfPlan, MovesAreWhole

(* Nor does the type of what the API server keeps change,                  *)
LEMMA KubernetesUnchanged ==
  ASSUME KubernetesTypeOK, UNCHANGED kubernetesVars
  PROVE  KubernetesTypeOK'
  BY DEF kubernetesVars, KubernetesTypeOK

(* nor the type of what the two goroutines share.                          *)
LEMMA ConnectorUnchanged ==
  ASSUME ConnectorTypeOK, NeverOverbooked, UNCHANGED connectorVars
  PROVE  ConnectorTypeOK' /\ NeverOverbooked'
  BY DEF connectorVars, ConnectorTypeOK, NeverOverbooked

(* Where schedule() starts.                                                *)
LEMMA ScheduleType ==
  ASSUME NEW e, NEW b, Schedule(e, b)
  PROVE  pc' \in {"select", "list", "match"}
  BY DEF Schedule

-----------------------------------------------------------------------------
(* The closures of a plan element.                                         *)

(* do calls the API with a pod and a node, or not at all.                  *)
LEMMA DoType ==
  ASSUME KubernetesTypeOK, podIdToName \subseteq Pod,
         NEW e, WellFormed(e), NEW o, NEW c, NEW ok, Do(e, o, c, ok)
  PROVE  KubernetesTypeOK' /\ podIdToName' \subseteq Pod
<1>1. CASE UNCHANGED <<kubernetesVars, podIdToName>>
  BY <1>1, KubernetesUnchanged
<1>2. CASE DeletePod(Id(e.obj), ok)
  BY <1>2, DeletePodType
<1>3. CASE e.kind \in {"MigrateBind", "Bind"} /\ \E p : Deploy(p, e.node, ok)
  BY <1>3, DeployType DEF WellFormed
<1> QED
  BY <1>1, <1>2, <1>3 DEF Do

(* A deployment is refused or fits.                                        *)
LEMMA DeployedType ==
  ASSUME NEW c \in ClusterStates, WithinResources(c), NEW o \in PodObj, NEW n,
         NEW r \in Deployed(c, o, n)
  PROVE  r.cs \in ClusterStates /\ WithinResources(r.cs)
<1>1. CASE n \in EdgeNode
  BY <1>1, DeployEdgeType, DeployEdgeWithin DEF Deployed
<1>2. CASE n \notin EdgeNode
  <2>1. PICK t \in CloudNode : r = [cs |-> DeployCloud(c, o, t), ok |-> TRUE]
    BY <1>2 DEF Deployed
  <2> QED
    BY <2>1, DeployCloudType, DeployCloudWithin
<1> QED
  BY <1>1, <1>2

(* after leaves a cluster state whose nodes are not overbooked.            *)
LEMMA AfterType ==
  ASSUME NEW c \in ClusterStates, WithinResources(c),
         NEW e, WellFormed(e), NEW o \in PodObj, NEW r \in After(e, o, c)
  PROVE  r.cs \in ClusterStates /\ WithinResources(r.cs)
<1>1. e.kind \in Kinds
  BY DEF WellFormed, Element
<1>2. CASE e.kind = "Delete"
  <2>1. e.obj \in PodObj
    BY <1>2 DEF WellFormed
  <2>2. r.cs \in RemovePod(c, e.obj)
    BY <1>2 DEF After
  <2> QED
    BY <2>1, <2>2, RemovePodType, RemovePodWithin
<1>3. CASE e.kind = "Create"
  BY <1>3 DEF After
<1>4. CASE e.kind = "MigrateBind"
  <2>1. r \in Deployed(c, o, e.node)
    BY <1>4 DEF After
  <2> QED
    BY <2>1, DeployedType
<1>5. CASE e.kind = "Bind"
  <2>1. e.obj \in PodObj /\ r \in Deployed(c, e.obj, e.node)
    BY <1>5 DEF After, WellFormed
  <2> QED
    BY <2>1, DeployedType
<1> QED
  BY <1>1, <1>2, <1>3, <1>4, <1>5 DEF Kinds

-----------------------------------------------------------------------------
(* handleEvent.                                                            *)

(* The status of the event is copied to the pod's object.                  *)
LEMMA SyncStatusType ==
  ASSUME NEW c \in ClusterStates, WithinResources(c), NEW o \in PodObj, event \in SchedulingEvent,
         NEW d \in SyncStatus(c, o)
  PROVE  d \in ClusterStates /\ WithinResources(d)
<1>1. PICK count \in Recounted(c, o) : d = [c EXCEPT !.status     = [c.status EXCEPT ![o] = event.status],
                                                     !.numRunning = [c.numRunning EXCEPT ![Dep(o)] = count]]
  BY DEF SyncStatus
<1>2. Dep(o) \in Deployment /\ c.numRunning[Dep(o)] \in Int
  BY PodObjType DEF ClusterStates
<1>3. count \in Int
  BY <1>2, OneIsCounted DEF Recounted, OneMore, OneLess
<1>4. [c.numRunning EXCEPT ![Dep(o)] = count] \in [Deployment -> Int]
  BY <1>3 DEF ClusterStates
<1>5. [c.status EXCEPT ![o] = event.status] \in [PodObj -> Status]
  BY DEF ClusterStates, SchedulingEvent
<1>6. d \in ClusterStates /\ d.nodeUsed = c.nodeUsed
  BY <1>1, <1>4, <1>5 DEF ClusterStates
<1> QED
  BY <1>6 DEF WithinResources

(* The pod that is handled is the one the id stands for.                   *)
LEMMA HandledType ==
  ASSUME ConnectorTypeOK, event \in SchedulingEvent, Handled # Nil
  PROVE  Handled \in PodObj
<1>1. Id(event.obj) \in Pod
  BY PodObjType DEF SchedulingEvent
<1> QED
  BY <1>1 DEF Handled, ConnectorTypeOK, ClusterStates

(* The switch keeps everything, from whatever the expectation left.        *)
LEMMA SwitchType ==
  ASSUME PlanOK, newPodBuffer \in Seq(PodObj), event \in SchedulingEvent, Handled \in PodObj,
         NEW c \in ClusterStates, WithinResources(c), NEW flushed, Switch(c, flushed)
  PROVE  /\ PlanOK' /\ newPodBuffer' \in Seq(PodObj)
         /\ clusterState' \in ClusterStates /\ WithinResources(clusterState')
         /\ pc' \in {"select", "list", "match"}
<1>1. CASE /\ newPodBuffer' = Append(newPodBuffer, Handled)
           /\ clusterState' = c
           /\ IF flushed THEN Flush ELSE UNCHANGED planVars
           /\ pc' = "select"
  <2>1. PlanOK'
    BY <1>1, FlushGood, PlanUnchanged
  <2> QED
    BY <1>1, <2>1
<1>2. CASE /\ clusterState' \in SyncStatus(c, Handled)
           /\ IF flushed THEN Flush ELSE UNCHANGED planVars
           /\ pc' = "select" /\ UNCHANGED newPodBuffer
  <2>1. PlanOK'
    BY <1>2, FlushGood, PlanUnchanged
  <2> QED
    BY <1>2, <2>1, SyncStatusType
<1>3. CASE /\ \E d \in Detached(c, Handled) : \E r \in Deployed(d, Handled, event.node) :
                 clusterState' \in SyncStatus(r.cs, Handled)
           /\ FlushAndSchedule /\ UNCHANGED newPodBuffer
  <2>1. PICK d \in Detached(c, Handled) : \E r \in Deployed(d, Handled, event.node) :
                 clusterState' \in SyncStatus(r.cs, Handled)
    BY <1>3
  <2>2. PICK r \in Deployed(d, Handled, event.node) : clusterState' \in SyncStatus(r.cs, Handled)
    BY <2>1
  <2>3. d \in ClusterStates /\ WithinResources(d)
    BY <2>1, RemovePodType, RemovePodWithin DEF Detached
  <2>4. r.cs \in ClusterStates /\ WithinResources(r.cs)
    BY <2>2, <2>3, DeployedType
  <2> QED
    BY <1>3, <2>2, <2>4, SyncStatusType, FlushGood, ScheduleType DEF FlushAndSchedule
<1>4. CASE /\ clusterState' \in RemovePod(c, Handled)
           /\ FlushAndSchedule /\ UNCHANGED newPodBuffer
  BY <1>4, RemovePodType, RemovePodWithin, FlushGood, ScheduleType DEF FlushAndSchedule
<1> QED
  BY <1>1, <1>2, <1>3, <1>4 DEF Switch

-----------------------------------------------------------------------------
(* Every step keeps IInv: one lemma for each group of actions.             *)

(* Before the process has started everything is empty.                     *)
LEMMA InitGood ==
  ASSUME Init
  PROVE  IInv
<1>1. GoodPlan(expectations)
  BY EmptyPlan DEF Init
<1>2. PlanOK
  BY <1>1 DEF Init, PlanOK, PlanTypeOK, OneKindOfPlan, MovesAreWhole, GoodPlan, NoneExpected
<1>3. KubernetesTypeOK
  <2>1. api = InitialPods /\ watchq = <<>> /\ watching = FALSE /\ disruptions = 0 /\ faults = 0
    BY DEF Init, KubernetesInit
  <2>2. watchq \in Seq(WatchEvent)
    BY <2>1
  <2> QED
    BY <2>1, <2>2, InitialPodsAreApiPods DEF KubernetesTypeOK
<1>4. ConnectorTypeOK /\ NeverOverbooked
  BY NewClusterStateType, NewClusterStateWithin DEF Init, ConnectorInit, ConnectorTypeOK, NeverOverbooked
<1>5. ControlTypeOK
  BY DEF Init, ControlTypeOK
<1> QED
  BY <1>2, <1>3, <1>4, <1>5 DEF IInv

(* The cluster moves on.                                                   *)
LEMMA WorldGood ==
  ASSUME IInv, World
  PROVE  IInv'
<1>1. KubernetesTypeOK'
  BY ClusterChangeType DEF IInv, World
<1>2. ConnectorTypeOK' /\ NeverOverbooked'
  BY ConnectorUnchanged DEF IInv, World
<1>3. PlanOK'
  BY PlanUnchanged DEF IInv, World, schedulerVars
<1>4. ControlTypeOK'
  BY DEF IInv, World, schedulerVars, syncVars, incidents, ControlTypeOK
<1> QED
  BY <1>1, <1>2, <1>3, <1>4 DEF IInv

(* The watch goroutine moves on.                                           *)
LEMMA WatchGood ==
  ASSUME IInv, Watch
  PROVE  IInv'
<1>1. KubernetesTypeOK' /\ ConnectorTypeOK' /\ NeverOverbooked'
  BY TranslateType, TranslateForeignType DEF IInv, Watch, NeverOverbooked
<1>2. PlanOK'
  BY PlanUnchanged DEF IInv, Watch, schedulerVars
<1>3. ControlTypeOK'
  BY DEF IInv, Watch, schedulerVars, syncVars, incidents, ControlTypeOK
<1> QED
  BY <1>1, <1>2, <1>3 DEF IInv

(* An event is received, or ignored.                                       *)
LEMMA ReceiveGood ==
  ASSUME IInv, ReceiveEvent \/ IgnoreEvent
  PROVE  IInv'
<1>1. CASE ReceiveEvent
  <2>1. event' \in SchedulingEvent
    BY <1>1 DEF IInv, ReceiveEvent, ConnectorTypeOK
  <2>2. ConnectorTypeOK' /\ NeverOverbooked'
    BY <1>1 DEF IInv, ReceiveEvent, ConnectorTypeOK, NeverOverbooked
  <2>3. ControlTypeOK'
    BY <1>1, <2>1 DEF IInv, ReceiveEvent, ControlTypeOK, syncVars, incidents
  <2> QED
    BY <1>1, <2>2, <2>3, KubernetesUnchanged, PlanUnchanged DEF IInv, ReceiveEvent
<1>2. CASE IgnoreEvent
  <2>1. ControlTypeOK'
    BY <1>2 DEF IInv, IgnoreEvent, ControlTypeOK, syncVars, incidents
  <2> QED
    BY <1>2, <2>1, KubernetesUnchanged, ConnectorUnchanged, PlanUnchanged DEF IInv, IgnoreEvent
<1> QED
  BY <1>1, <1>2

(* What handling an event may rely on.                                     *)
LEMMA HandlingFacts ==
  ASSUME IInv, Handling
  PROVE  /\ event \in SchedulingEvent /\ event.obj \in PodObj /\ Handled \in PodObj
         /\ clusterState \in ClusterStates /\ WithinResources(clusterState)
         /\ \A i \in DOMAIN expectations : WellFormed(expectations[i])
         /\ expectations # <<>> => 1 \in DOMAIN expectations
         /\ Len(expectations) > 1 => 2 \in DOMAIN expectations
<1>1. event \in SchedulingEvent
  BY DEF IInv, Handling, ControlTypeOK
<1>2. expectations \in Seq(Element) /\ \A i \in DOMAIN expectations : WellFormed(expectations[i])
  BY DEF IInv, PlanOK, PlanTypeOK, IsPlan
<1> QED
  BY <1>1, <1>2, HandledType DEF IInv, Handling, SchedulingEvent, ConnectorTypeOK, NeverOverbooked

(* The event that the first element waits for.                             *)
LEMMA ExpectedGood ==
  ASSUME IInv, HandleExpected
  PROVE  IInv'
<1>1. PICK r \in After(expectations[1], event.obj, clusterState) :
        /\ clusterState' = r.cs
        /\ IF Len(expectations) = 1 THEN UNCHANGED <<kubernetesVars, podIdToName>>
           ELSE Do(expectations[2], event.obj, r.cs, TRUE)
  BY DEF HandleExpected
<1>2. expectations # <<>> /\ expectations \in Seq(Element)
  BY DEF HandleExpected, Expected, IInv, PlanOK, PlanTypeOK, IsPlan
<1>3. clusterState' \in ClusterStates /\ WithinResources(clusterState')
  BY <1>1, <1>2, AfterType, HandlingFacts DEF HandleExpected
<1>4. KubernetesTypeOK' /\ podIdToName' \subseteq Pod
  <2>1. CASE Len(expectations) = 1
    BY <1>1, <2>1, KubernetesUnchanged DEF IInv, ConnectorTypeOK
  <2>2. CASE Len(expectations) # 1
    <3>1. Len(expectations) > 1
      <4>1. Len(expectations) \in Nat /\ Len(expectations) # 0
        BY <1>2, EmptySeq
      <4>2. \A n \in Nat : n # 0 /\ n # 1 => n > 1
        OBVIOUS
      <4> QED
        BY <2>2, <4>1, <4>2
    <3>2. Handling
      BY DEF HandleExpected
    <3>3. WellFormed(expectations[2])
      BY <3>1, <3>2, HandlingFacts
    <3> QED
      BY <1>1, <2>2, <3>3, DoType DEF IInv, ConnectorTypeOK
  <2> QED
    BY <2>1, <2>2
<1>5. ConnectorTypeOK' /\ NeverOverbooked'
  BY <1>3, <1>4 DEF IInv, HandleExpected, ConnectorTypeOK, NeverOverbooked
<1>6. PlanOK' /\ pc' \in {"select", "list", "match"}
  BY <1>2, PoppedGood, ScheduleType DEF IInv, HandleExpected, NextExpectation
<1>7. ControlTypeOK'
  BY <1>6 DEF IInv, HandleExpected, ControlTypeOK, syncVars, incidents
<1> QED
  BY <1>4, <1>5, <1>6, <1>7 DEF IInv

(* An event that nothing waits for.                                        *)
LEMMA UnexpectedGood ==
  ASSUME IInv, HandleUnexpected
  PROVE  IInv'
<1>1. newPodBuffer \in Seq(PodObj) /\ PlanOK
  BY DEF IInv, ControlTypeOK
<1>2. /\ PlanOK' /\ newPodBuffer' \in Seq(PodObj)
      /\ clusterState' \in ClusterStates /\ WithinResources(clusterState')
      /\ pc' \in {"select", "list", "match"}
  BY <1>1, HandlingFacts, SwitchType DEF HandleUnexpected
<1>3. KubernetesTypeOK'
  BY KubernetesUnchanged DEF IInv, HandleUnexpected
<1>4. ConnectorTypeOK' /\ NeverOverbooked'
  BY <1>2 DEF IInv, HandleUnexpected, ConnectorTypeOK, NeverOverbooked
<1>5. ControlTypeOK'
  BY <1>2 DEF IInv, HandleUnexpected, ControlTypeOK, syncVars, incidents
<1> QED
  BY <1>2, <1>3, <1>4, <1>5 DEF IInv

(* An awaited event whose consequences fail.                               *)
LEMMA FailedGood ==
  ASSUME IInv, HandleFailed
  PROVE  IInv'
<1>1. PICK r \in After(expectations[1], event.obj, clusterState) :
        /\ IF r.ok THEN Len(expectations) > 1 /\ Do(expectations[2], event.obj, r.cs, FALSE)
           ELSE UNCHANGED <<kubernetesVars, podIdToName>>
        /\ Switch(r.cs, TRUE)
  BY DEF HandleFailed
<1>2. /\ newPodBuffer \in Seq(PodObj) /\ PlanOK
      /\ expectations # <<>> /\ WellFormed(expectations[1])
  BY HandlingFacts DEF IInv, HandleFailed, Expected, ControlTypeOK
<1>3. r.cs \in ClusterStates /\ WithinResources(r.cs)
  BY <1>2, AfterType, HandlingFacts DEF HandleFailed
<1>4. /\ PlanOK' /\ newPodBuffer' \in Seq(PodObj)
      /\ clusterState' \in ClusterStates /\ WithinResources(clusterState')
      /\ pc' \in {"select", "list", "match"}
  BY <1>1, <1>2, <1>3, HandlingFacts, SwitchType DEF HandleFailed
<1>5. KubernetesTypeOK' /\ podIdToName' \subseteq Pod
  <2>1. CASE r.ok
    <3>1. WellFormed(expectations[2])
      BY <1>1, <2>1, HandlingFacts DEF HandleFailed
    <3> QED
      BY <1>1, <2>1, <3>1, DoType DEF IInv, ConnectorTypeOK
  <2>2. CASE ~r.ok
    BY <1>1, <2>2, KubernetesUnchanged DEF IInv, ConnectorTypeOK
  <2> QED
    BY <2>1, <2>2
<1>6. ConnectorTypeOK' /\ NeverOverbooked'
  BY <1>4, <1>5 DEF IInv, HandleFailed, ConnectorTypeOK, NeverOverbooked
<1>7. ControlTypeOK'
  BY <1>4 DEF IInv, HandleFailed, ControlTypeOK, syncVars, incidents
<1> QED
  BY <1>4, <1>5, <1>6, <1>7 DEF IInv

(* schedule() before it decides.                                           *)
LEMMA ListGood ==
  ASSUME IInv, ScheduleTick \/ ListPending \/ ListFails \/ NothingNew
  PROVE  IInv'
<1>1. CASE ScheduleTick
  <2>1. ControlTypeOK'
    BY <1>1, ScheduleType DEF IInv, ScheduleTick, ControlTypeOK, syncVars, incidents
  <2> QED
    BY <1>1, <2>1, KubernetesUnchanged, ConnectorUnchanged, PlanUnchanged DEF IInv, ScheduleTick
<1>2. CASE ListPending
  <2>1. newPodBuffer' \in Seq(PodObj)
    BY <1>2, PendingListsType DEF ListPending
  <2>2. ControlTypeOK'
    BY <1>2, <2>1 DEF IInv, ListPending, ControlTypeOK, syncVars, incidents
  <2> QED
    BY <1>2, <2>2, KubernetesUnchanged, ConnectorUnchanged, PlanUnchanged DEF IInv, ListPending
<1>3. CASE ListFails
  <2>1. KubernetesTypeOK'
    BY <1>3 DEF IInv, ListFails, Fault, KubernetesTypeOK
  <2>2. ControlTypeOK'
    BY <1>3 DEF IInv, ListFails, ControlTypeOK, syncVars, incidents
  <2> QED
    BY <1>3, <2>1, <2>2, ConnectorUnchanged, PlanUnchanged DEF IInv, ListFails
<1>4. CASE NothingNew
  <2>1. newPodBuffer' \in Seq(PodObj)
    BY <1>4 DEF NothingNew
  <2>2. ControlTypeOK'
    BY <1>4, <2>1 DEF IInv, NothingNew, ControlTypeOK, syncVars, incidents
  <2> QED
    BY <1>4, <2>2, KubernetesUnchanged, ConnectorUnchanged, PlanUnchanged DEF IInv, NothingNew
<1> QED
  BY <1>1, <1>2, <1>3, <1>4

(* The buffer without one of its entries.                                  *)
LEMMA WithoutBufferedType ==
  ASSUME newPodBuffer \in Seq(PodObj), NEW i \in DOMAIN newPodBuffer
  PROVE  WithoutBuffered(i) \in Seq(PodObj)
<1> DEFINE n == Len(newPodBuffer)
<1>1. n \in Nat /\ n > 0 /\ DOMAIN newPodBuffer = 1..n
  OBVIOUS
<1>2. n - 1 \in Nat /\ n \in 1..n
  BY <1>1
<1>3. \A j \in 1..(n - 1) :
        (IF j = i THEN newPodBuffer[n] ELSE newPodBuffer[j]) \in PodObj
  <2> TAKE j \in 1..(n - 1)
  <2>1. j \in 1..n
    BY <1>1
  <2> QED
    BY <1>2, <2>1, ElementOfSeq
<1> HIDE DEF n
<1>4. WithoutBuffered(i) = [j \in 1..(n - 1) |-> IF j = i THEN newPodBuffer[n] ELSE newPodBuffer[j]]
  BY DEF WithoutBuffered, n
<1> QED
  BY <1>2, <1>3, <1>4

(* schedule() finds an awaited creation in the buffer.                     *)
LEMMA MatchGood ==
  ASSUME IInv, MatchPending
  PROVE  IInv'
<1>1. PICK i \in DOMAIN newPodBuffer, ok \in BOOLEAN :
        /\ FirstAwaited(i)
        /\ Do(expectations[2], newPodBuffer[i], clusterState, ok)
        /\ IF ok THEN Popped /\ newPodBuffer' = WithoutBuffered(i)
           ELSE Flush /\ UNCHANGED newPodBuffer
  BY DEF MatchPending
<1>2. /\ expectations # <<>> /\ expectations \in Seq(Element) /\ newPodBuffer \in Seq(PodObj)
      /\ \A j \in DOMAIN expectations : WellFormed(expectations[j])
      /\ DOMAIN expectations = 1..Len(expectations) /\ Len(expectations) \in Nat
  BY DEF MatchPending, CanMatch, IInv, PlanOK, PlanTypeOK, IsPlan, ControlTypeOK
<1>3. WellFormed(expectations[2])
  <2>1. 1 \in DOMAIN expectations /\ expectations[1].kind = "Create"
    BY <1>1, <1>2 DEF FirstAwaited, Awaited
  <2>2. 1 < Len(expectations)
    BY <2>1 DEF IInv, PlanOK, MovesAreWhole, WholeMoves
  <2>3. 2 \in DOMAIN expectations
    BY <1>2, <2>2
  <2> QED
    BY <1>2, <2>3
<1>4. KubernetesTypeOK' /\ podIdToName' \subseteq Pod
  BY <1>1, <1>3, DoType DEF IInv, ConnectorTypeOK
<1>5. PlanOK' /\ newPodBuffer' \in Seq(PodObj)
  BY <1>1, <1>2, PoppedGood, FlushGood, WithoutBufferedType DEF IInv
<1>6. ConnectorTypeOK' /\ NeverOverbooked'
  BY <1>4 DEF IInv, MatchPending, ConnectorTypeOK, NeverOverbooked
<1>7. ControlTypeOK'
  BY <1>5 DEF IInv, MatchPending, ControlTypeOK, syncVars, incidents
<1> QED
  BY <1>4, <1>5, <1>6, <1>7 DEF IInv

(* The part of the buffer that is not being bound, in order.               *)
LEMMA KeptType ==
  ASSUME newPodBuffer \in Seq(PodObj), NEW q \in InOrder(NotGoing)
  PROVE  [k \in DOMAIN q |-> newPodBuffer[q[k]]] \in Seq(PodObj)
<1>1. IsFiniteSet(NotGoing)
  <2>1. DOMAIN newPodBuffer = 1..Len(newPodBuffer) /\ Len(newPodBuffer) \in Nat
    OBVIOUS
  <2>2. IsFiniteSet(1..Len(newPodBuffer)) /\ NotGoing \subseteq 1..Len(newPodBuffer)
    BY <2>1, FS_Interval DEF NotGoing
  <2> QED
    BY <2>2, FS_Subset
<1>2. q \in Seq(NotGoing) /\ Len(q) \in Nat /\ DOMAIN q = 1..Len(q)
  BY <1>1, SetToSeqsType DEF InOrder
<1>3. \A k \in 1..Len(q) : newPodBuffer[q[k]] \in PodObj
  BY <1>2, ElementOfSeq DEF NotGoing
<1> QED
  BY <1>2, <1>3

(* New pods interrupt a reordering.                                        *)
LEMMA AbandonGood ==
  ASSUME IInv, AbandonReorder
  PROVE  IInv'
<1>1. newPodBuffer' \in Seq(PodObj)
  BY KeptType DEF IInv, ControlTypeOK, AbandonReorder
<1>2. ControlTypeOK'
  BY <1>1 DEF IInv, AbandonReorder, ControlTypeOK, syncVars, incidents
<1> QED
  BY <1>2, KubernetesUnchanged, ConnectorUnchanged, FlushGood DEF IInv, AbandonReorder

(* A good plan is queued behind an empty queue.                            *)
LEMMA SchedulePlanGood ==
  ASSUME KubernetesTypeOK, podIdToName \subseteq Pod, PlanOK, expectations = <<>>,
         NEW plan, GoodPlan(plan), NEW going \in SUBSET Pod, NEW expected \in [Deployment -> Nat],
         SchedulePlan(plan, going, expected)
  PROVE  KubernetesTypeOK' /\ podIdToName' \subseteq Pod /\ PlanOK'
<1>1. CASE plan = <<>>
  BY <1>1, KubernetesUnchanged
     DEF SchedulePlan, PlanOK, PlanTypeOK, OneKindOfPlan, MovesAreWhole
<1>2. CASE plan # <<>>
  <2>1. plan \in Seq(Element) /\ WellFormed(plan[1])
    BY <1>2 DEF GoodPlan, IsPlan
  <2>2. PICK ok \in BOOLEAN :
          /\ Do(plan[1], Nil, clusterState, ok)
          /\ expectations' = (IF ok THEN expectations ELSE <<>>) \o plan
          /\ goingToPlace' = IF ok THEN going ELSE {}
          /\ expectedReorderDeployments' = IF ok THEN expected ELSE NoneExpected
    BY <1>2 DEF SchedulePlan
  <2>3. expectations' = plan
    BY <2>1, <2>2
  <2>4. healthCheckSample' = 0
    BY <1>2 DEF SchedulePlan
  <2>5. PlanOK'
    BY <2>2, <2>3, <2>4
       DEF GoodPlan, PlanOK, PlanTypeOK, OneKindOfPlan, MovesAreWhole, NoneExpected
  <2> QED
    BY <2>1, <2>2, <2>5, DoType
<1> QED
  BY <1>1, <1>2

(* What placing a batch queues, if anything, is a good plan.               *)
LEMMA PlaceBatchPlans ==
  ASSUME IInv, PlaceBatch
  PROVE  /\ newPodBuffer' \in Seq(PodObj)
         /\ \/ UNCHANGED <<kubernetesVars, podIdToName, planVars>>
            \/ \E plan : \E going \in SUBSET Pod :
                 /\ GoodPlan(plan) /\ StartsAfresh(plan)
                 /\ SchedulePlan(plan, going, expectedReorderDeployments)
<1>1. PICK order \in InOrder(NotGoing) :
       LET left  == [k \in DOMAIN order |-> newPodBuffer[order[k]]]
           n     == IF Len(left) < BatchSize THEN Len(left) ELSE BatchSize
           batch == SubSeq(left, 1, n)
           going == goingToPlace \cup {Id(batch[i]) : i \in DOMAIN batch}
       IN /\ newPodBuffer' = SubSeq(left, n + 1, Len(left))
          /\ IF Conflict(clusterState)
             THEN UNCHANGED <<kubernetesVars, podIdToName, planVars>>
             ELSE \E I \in EdgeSubsets(clusterState, batch) :
                  \E f \in EdgeMappings(RemainingOf(clusterState), batch, I) :
                  \E q \in SetToSeqs(1..n) :
                    /\ PlanOrder(q, I)
                    /\ SchedulePlan(BatchPlan(batch, q, f), going, expectedReorderDeployments)
  BY DEF PlaceBatch
<1> DEFINE left  == [k \in DOMAIN order |-> newPodBuffer[order[k]]]
           n     == IF Len(left) < BatchSize THEN Len(left) ELSE BatchSize
           batch == SubSeq(left, 1, n)
           going == goingToPlace \cup {Id(batch[i]) : i \in DOMAIN batch}
<1>2. left \in Seq(PodObj)
  BY KeptType DEF IInv, ControlTypeOK
<1> HIDE DEF left
<1>3. n \in 0..Len(left) /\ Len(left) \in Nat
  BY <1>2, SchedulerBounds
<1> HIDE DEF n
<1>4. batch \in Seq(PodObj) /\ Len(batch) = n /\ SubSeq(left, n + 1, Len(left)) \in Seq(PodObj)
  BY <1>2, <1>3
<1> HIDE DEF batch
<1>5. going \in SUBSET Pod
  <2>1. \A i \in DOMAIN batch : Id(batch[i]) \in Pod
    BY <1>4, PodObjType
  <2> QED
    BY <2>1 DEF IInv, PlanOK, PlanTypeOK
<1> HIDE DEF going
<1>6. newPodBuffer' \in Seq(PodObj)
  BY <1>1, <1>4 DEF left, n
<1>7. CASE Conflict(clusterState)
  BY <1>1, <1>6, <1>7
<1>8. CASE ~Conflict(clusterState)
  <2>1. PICK I \in EdgeSubsets(clusterState, batch) :
          \E f \in EdgeMappings(RemainingOf(clusterState), batch, I) :
          \E q \in SetToSeqs(1..n) :
            SchedulePlan(BatchPlan(batch, q, f), going, expectedReorderDeployments)
    BY <1>1, <1>8 DEF left, n, batch, going
  <2>2. PICK f \in EdgeMappings(RemainingOf(clusterState), batch, I), q \in SetToSeqs(1..n) :
          SchedulePlan(BatchPlan(batch, q, f), going, expectedReorderDeployments)
    BY <2>1
  <2>3. GoodPlan(BatchPlan(batch, q, f)) /\ StartsAfresh(BatchPlan(batch, q, f))
    BY <1>4, EdgeMappingsType, BatchPlanGood
  <2> QED
    BY <1>5, <1>6, <2>2, <2>3
<1> QED
  BY <1>7, <1>8

(* A batch of new pods is placed.                                          *)
LEMMA PlaceBatchGood ==
  ASSUME IInv, PlaceBatch
  PROVE  IInv'
<1>1. expectations = <<>>
  BY DEF PlaceBatch
<1>2. KubernetesTypeOK' /\ podIdToName' \subseteq Pod /\ PlanOK' /\ newPodBuffer' \in Seq(PodObj)
  <2>1. CASE UNCHANGED <<kubernetesVars, podIdToName, planVars>>
    BY <2>1, PlaceBatchPlans, KubernetesUnchanged, PlanUnchanged DEF IInv, ConnectorTypeOK
  <2>2. CASE \E plan : \E going \in SUBSET Pod :
               GoodPlan(plan) /\ SchedulePlan(plan, going, expectedReorderDeployments)
    BY <1>1, <2>2, PlaceBatchPlans, SchedulePlanGood DEF IInv, ConnectorTypeOK, PlanOK, PlanTypeOK
  <2> QED
    BY <2>1, <2>2, PlaceBatchPlans
<1>3. ConnectorTypeOK' /\ NeverOverbooked'
  BY <1>2 DEF IInv, PlaceBatch, ConnectorTypeOK, NeverOverbooked
<1>4. ControlTypeOK'
  BY <1>2 DEF IInv, PlaceBatch, ControlTypeOK, syncVars, incidents
<1> QED
  BY <1>2, <1>3, <1>4 DEF IInv

(* A suggestion is made or dropped.                                        *)
LEMMA SuggestGood ==
  ASSUME IInv, MakeSuggestion \/ DropSuggestion
  PROVE  IInv'
<1>1. CASE MakeSuggestion
  <2>1. suggestion' \in Suggestion
    BY <1>1, SuggestionsType DEF IInv, ConnectorTypeOK, MakeSuggestion
  <2>2. ControlTypeOK'
    BY <1>1, <2>1 DEF IInv, MakeSuggestion, ControlTypeOK, syncVars, incidents
  <2> QED
    BY <1>1, <2>2, KubernetesUnchanged, ConnectorUnchanged, PlanUnchanged DEF IInv, MakeSuggestion
<1>2. CASE DropSuggestion
  <2>1. ControlTypeOK'
    BY <1>2 DEF IInv, DropSuggestion, ControlTypeOK, syncVars, incidents
  <2> QED
    BY <1>2, <2>1, KubernetesUnchanged, ConnectorUnchanged, PlanUnchanged DEF IInv, DropSuggestion
<1> QED
  BY <1>1, <1>2

(* The pods that a suggestion still pulls to the edge.                     *)
LEMMA StillOnCloudType ==
  ASSUME clusterState \in ClusterStates, suggestion \in Suggestion
  PROVE  /\ StillOnCloud \subseteq Pod
         /\ \A p \in StillOnCloud : clusterState.podsMap[p] \in PodObj
  BY DEF StillOnCloud, Suggestion, ClusterStates

(* What a suggestion queues is a good plan.                                *)
LEMMA CheckSuggestionPlans ==
  ASSUME IInv, CheckSuggestion
  PROVE  \E plan : \E going \in SUBSET Pod, expected \in [Deployment -> Nat] :
           GoodPlan(plan) /\ StartsAfresh(plan) /\ SchedulePlan(plan, going, expected)
<1> DEFINE objs == [p \in StillOnCloud |-> clusterState.podsMap[p]]
           Expects(moved) == [d \in Deployment |->
                                 Cardinality({i \in DOMAIN moved : IsMove(moved[i]) /\ Dep(moved[i].obj) = d})]
           ToEdge(f, q) == [i \in DOMAIN q |-> [obj |-> objs[q[i]], node |-> f[q[i]]]]
           ToQueue(moved, f, q) == MigrationsPlan(moved) \o MovesPlan(ToEdge(f, q))
<1>1. PICK moved \in CheckedMigrations :
        \E f \in EdgeMappings(RemainingAfter(moved), objs, StillOnCloud) :
        \E q \in SetToSeqs(DOMAIN f) : SchedulePlan(ToQueue(moved, f, q), StillOnCloud, Expects(moved))
  BY DEF CheckSuggestion
<1>2. PICK f \in EdgeMappings(RemainingAfter(moved), objs, StillOnCloud) :
        \E q \in SetToSeqs(DOMAIN f) : SchedulePlan(ToQueue(moved, f, q), StillOnCloud, Expects(moved))
  BY <1>1
<1>3. PICK q \in SetToSeqs(DOMAIN f) : SchedulePlan(ToQueue(moved, f, q), StillOnCloud, Expects(moved))
  BY <1>2
<1>4. clusterState \in ClusterStates /\ suggestion \in Suggestion
  BY DEF IInv, ConnectorTypeOK, ControlTypeOK, CheckSuggestion
<1>5. moved \in Seq(Move)
  BY <1>4, CheckedMigrationsType
<1>6. ToEdge(f, q) \in Seq(Move)
  <2>1. DOMAIN f \subseteq StillOnCloud /\ \A x \in DOMAIN f : f[x] \in EdgeNode
    BY EdgeMappingsType
  <2>2. IsFiniteSet(DOMAIN f)
    BY <1>4, <2>1, StillOnCloudType, PodsAreFinite, FS_Subset
  <2>3. q \in Seq(DOMAIN f) /\ Len(q) \in Nat /\ DOMAIN q = 1..Len(q)
    BY <2>2, SetToSeqsType
  <2>4. \A i \in 1..Len(q) : q[i] \in DOMAIN f
    BY <2>3, ElementOfSeq
  <2>5. \A p \in StillOnCloud : objs[p] \in PodObj
    BY <1>4, StillOnCloudType
  <2> HIDE DEF objs
  <2>6. \A i \in 1..Len(q) : [obj |-> objs[q[i]], node |-> f[q[i]]] \in Move
    BY <2>1, <2>4, <2>5 DEF Move, Node
  <2> QED
    BY <2>3, <2>6
<1> HIDE DEF ToEdge
<1>7. GoodPlan(ToQueue(moved, f, q)) /\ StartsAfresh(ToQueue(moved, f, q))
  BY <1>5, <1>6, SuggestedPlanGood
<1>8. Expects(moved) \in [Deployment -> Nat]
  <2>1. DOMAIN moved = 1..Len(moved) /\ Len(moved) \in Nat
    BY <1>5
  <2>2. IsFiniteSet(1..Len(moved))
    BY <2>1, FS_Interval
  <2>3. \A S \in SUBSET (1..Len(moved)) : Cardinality(S) \in Nat
    BY <2>2, FS_Subset, FS_CardinalityType
  <2> QED
    BY <2>1, <2>3
<1>9. StillOnCloud \in SUBSET Pod
  BY <1>4, StillOnCloudType
<1> HIDE DEF ToQueue, Expects
<1> QED
  BY <1>3, <1>7, <1>8, <1>9

(* A suggestion is taken up.                                               *)
LEMMA CheckSuggestionGood ==
  ASSUME IInv, CheckSuggestion
  PROVE  IInv'
<1>1. expectations = <<>>
  BY DEF CheckSuggestion, Busy
<1>2. KubernetesTypeOK' /\ podIdToName' \subseteq Pod /\ PlanOK'
  BY <1>1, CheckSuggestionPlans, SchedulePlanGood DEF IInv, ConnectorTypeOK
<1>3. ConnectorTypeOK' /\ NeverOverbooked'
  BY <1>2 DEF IInv, CheckSuggestion, ConnectorTypeOK, NeverOverbooked
<1>4. ControlTypeOK'
  BY DEF IInv, CheckSuggestion, ControlTypeOK, syncVars, incidents
<1> QED
  BY <1>2, <1>3, <1>4 DEF IInv

(* The health ticker.                                                      *)
LEMMA HealthGood ==
  ASSUME IInv, CheckHealth \/ RecoverHealth
  PROVE  IInv'
<1>1. CASE CheckHealth
  <2>1. healthCheckSample' \in Nat
    BY <1>1 DEF IInv, CheckHealth, PlanOK, PlanTypeOK, IsPlan
  <2>2. PlanOK'
    BY <1>1, <2>1 DEF IInv, CheckHealth, PlanOK, PlanTypeOK, OneKindOfPlan, MovesAreWhole
  <2>3. ControlTypeOK'
    BY <1>1 DEF IInv, CheckHealth, ControlTypeOK, syncVars, incidents
  <2> QED
    BY <1>1, <2>2, <2>3, KubernetesUnchanged, ConnectorUnchanged DEF IInv, CheckHealth
<1>2. CASE RecoverHealth
  <2>1. toForget' \subseteq PodObj
    BY <1>2 DEF IInv, RecoverHealth, Mapped, ConnectorTypeOK, ClusterStates
  <2>2. recoveries' \in Nat
    BY <1>2 DEF IInv, RecoverHealth, ControlTypeOK
  <2>3. ControlTypeOK'
    BY <1>2, <2>1, <2>2 DEF IInv, RecoverHealth, ControlTypeOK
  <2> QED
    BY <1>2, <2>3, KubernetesUnchanged, ConnectorUnchanged, PlanUnchanged DEF IInv, RecoverHealth
<1> QED
  BY <1>1, <1>2

(* The steps of SyncPods, at a recovery or at the start.                   *)
LEMMA RecoverStepGood ==
  ASSUME IInv, RecoverStep
  PROVE  IInv'
<1>1. CASE ForgetPod
  <2>1. PICK o \in toForget : /\ clusterState' \in RemovePod(clusterState, o)
                              /\ toForget' = toForget \ {o}
    BY <1>1 DEF ForgetPod
  <2>2. o \in PodObj /\ clusterState \in ClusterStates /\ WithinResources(clusterState)
    BY DEF IInv, ControlTypeOK, ConnectorTypeOK, NeverOverbooked
  <2>3. ConnectorTypeOK' /\ NeverOverbooked'
    BY <1>1, <2>1, <2>2, RemovePodType, RemovePodWithin
       DEF IInv, ForgetPod, ConnectorTypeOK, NeverOverbooked
  <2>4. ControlTypeOK'
    BY <1>1, <2>1 DEF IInv, ForgetPod, ControlTypeOK, incidents
  <2> QED
    BY <1>1, <2>3, <2>4, KubernetesUnchanged, PlanUnchanged DEF IInv, ForgetPod
<1>2. CASE SyncList
  <2>1. newPodBuffer' \in Seq(PodObj)
    BY <1>2, PendingListsType DEF SyncList
  <2>2. toPlace' \subseteq Pod \X (Node \cup ForeignNode \cup {Nil})
    BY <1>2 DEF IInv, SyncList, PodsToPlace, KubernetesTypeOK, ApiPod
  <2>3. ControlTypeOK'
    BY <1>2, <2>1, <2>2 DEF IInv, SyncList, ControlTypeOK, incidents
  <2> QED
    BY <1>2, <2>3, KubernetesUnchanged, ConnectorUnchanged, PlanUnchanged DEF IInv, SyncList
<1>3. CASE SyncListFails
  <2>1. KubernetesTypeOK'
    BY <1>3 DEF IInv, SyncListFails, Fault, KubernetesTypeOK
  <2>2. toForget' \subseteq PodObj
    BY <1>3 DEF IInv, SyncListFails, Mapped, ConnectorTypeOK, ClusterStates
  <2>3. ControlTypeOK'
    BY <1>3, <2>2 DEF IInv, SyncListFails, ControlTypeOK, incidents
  <2> QED
    BY <1>3, <2>1, <2>3, ConnectorUnchanged, PlanUnchanged DEF IInv, SyncListFails
<1>4. CASE PlacePod
  <2>1. PICK m \in toPlace :
          /\ toPlace' = toPlace \ {m}
          /\ IF m[2] \in Node
             THEN /\ \E o \in FreshObj(m[1], InUse) : clusterState' \in Placed(clusterState, o, m[2])
                  /\ podIdToName' = podIdToName \cup {m[1]}
             ELSE UNCHANGED <<clusterState, podIdToName>>
    BY <1>4 DEF PlacePod
  <2>2. m[1] \in Pod /\ clusterState \in ClusterStates /\ WithinResources(clusterState)
    BY DEF IInv, ControlTypeOK, ConnectorTypeOK, NeverOverbooked
  <2>3. /\ clusterState' \in ClusterStates /\ WithinResources(clusterState')
        /\ podIdToName' \subseteq Pod
    <3>1. CASE m[2] \in Node
      BY <2>1, <2>2, <3>1, FreshObjType, PlacedType DEF IInv, ConnectorTypeOK
    <3>2. CASE m[2] \notin Node
      BY <2>1, <2>2, <3>2 DEF IInv, ConnectorTypeOK
    <3> QED
      BY <3>1, <3>2
  <2>4. ConnectorTypeOK' /\ NeverOverbooked'
    BY <1>4, <2>3 DEF IInv, PlacePod, ConnectorTypeOK, NeverOverbooked
  <2>5. ControlTypeOK'
    BY <1>4, <2>1 DEF IInv, PlacePod, ControlTypeOK, incidents
  <2> QED
    BY <1>4, <2>4, <2>5, KubernetesUnchanged, PlanUnchanged DEF IInv, PlacePod
<1>5. CASE FinishRecovery
  <2>1. ControlTypeOK'
    BY <1>5 DEF IInv, FinishRecovery, ControlTypeOK, syncVars, incidents
  <2> QED
    BY <1>5, <2>1, KubernetesUnchanged, ConnectorUnchanged, FlushGood DEF IInv, FinishRecovery
<1> QED
  BY <1>1, <1>2, <1>3, <1>4, <1>5 DEF RecoverStep

(* The process dies.                                                       *)
LEMMA DeathGood ==
  ASSUME IInv, Panic \/ Crash
  PROVE  IInv'
<1>1. ProcessDies
  BY DEF Panic, Crash
<1>2. KubernetesTypeOK'
  <2>1. watchq' = <<>> /\ watching' = FALSE /\ UNCHANGED <<api, disruptions, faults>>
    BY <1>1 DEF ProcessDies, CloseWatch
  <2>2. watchq' \in Seq(WatchEvent)
    BY <2>1
  <2> QED
    BY <2>1, <2>2 DEF IInv, KubernetesTypeOK
<1>3. ConnectorTypeOK' /\ NeverOverbooked'
  BY <1>1, NewClusterStateType, NewClusterStateWithin
     DEF ProcessDies, ConnectorTypeOK, NeverOverbooked
<1>4. PlanOK'
  BY <1>1, FlushGood DEF ProcessDies
<1>5. recoveries' \in Nat /\ crashes' \in Nat
  BY DEF IInv, ControlTypeOK, Panic, Crash, incidents
<1>6. ControlTypeOK'
  BY <1>1, <1>5 DEF ProcessDies, ControlTypeOK
<1> QED
  BY <1>2, <1>3, <1>4, <1>6 DEF IInv

(* The process starts.                                                     *)
LEMMA BootGood ==
  ASSUME IInv, Boot \/ StartWatching
  PROVE  IInv'
<1>1. CASE Boot
  <2>1. toPlace' \subseteq Pod \X (Node \cup ForeignNode \cup {Nil})
    BY <1>1 DEF IInv, Boot, PodsToPlace, KubernetesTypeOK, ApiPod
  <2>2. ControlTypeOK'
    BY <1>1, <2>1 DEF IInv, Boot, ControlTypeOK, incidents
  <2> QED
    BY <1>1, <2>2, KubernetesUnchanged, ConnectorUnchanged, PlanUnchanged DEF IInv, Boot
<1>2. CASE StartWatching
  <2>1. ControlTypeOK'
    BY <1>2 DEF IInv, StartWatching, ControlTypeOK, syncVars, incidents
  <2> QED
    BY <1>2, <2>1, OpenWatchType, ConnectorUnchanged, PlanUnchanged DEF IInv, StartWatching
<1> QED
  BY <1>1, <1>2

(* IInv is inductive.                                                      *)
LEMMA NextGood ==
  ASSUME IInv, [Next]_vars
  PROVE  IInv'
<1>1. CASE UNCHANGED vars
  <2>1. ControlTypeOK'
    BY <1>1 DEF IInv, vars, syncVars, incidents, ControlTypeOK
  <2> QED
    BY <1>1, <2>1, KubernetesUnchanged, ConnectorUnchanged, PlanUnchanged DEF IInv, vars
<1>2. CASE Next
  BY <1>2, WorldGood, WatchGood, ReceiveGood, ExpectedGood, UnexpectedGood, FailedGood,
     ListGood, MatchGood, AbandonGood, PlaceBatchGood, SuggestGood, CheckSuggestionGood,
     HealthGood, RecoverStepGood, DeathGood, BootGood
     DEF Next, HandleEvent, ScheduleStep
<1> QED
  BY <1>1, <1>2

-----------------------------------------------------------------------------
(* The theorems.                                                           *)

(* IInv is an invariant of the scheduler.                                  *)
THEOREM Invariant == Spec => []IInv
<1>1. Init => IInv
  BY InitGood
<1>2. IInv /\ [Next]_vars => IInv'
  BY NextGood
<1> QED
  BY <1>1, <1>2, PTL DEF Spec

(* Every variable keeps its type, whatever the cluster does: the event of  *)
(* a handler is there, a closure finds the fields it uses.                 *)
THEOREM Typing == Spec => []TypeOK
<1>1. IInv => TypeOK
  BY DEF IInv, PlanOK, TypeOK
<1> QED
  BY <1>1, Invariant, PTL

(* The queue holds placements only or reorderings only (scheduler.go:36).  *)
THEOREM QueueIsOfOneKind == Spec => []OneKindOfPlan
<1>1. IInv => OneKindOfPlan
  BY DEF IInv, PlanOK
<1> QED
  BY <1>1, Invariant, PTL

(* A reordering is never left with half a move, so that a creation found   *)
(* in the buffer never empties the queue (scheduler.go:305-317).           *)
THEOREM MovesStayWhole == Spec => []MovesAreWhole
<1>1. IInv => MovesAreWhole
  BY DEF IInv, PlanOK
<1> QED
  BY <1>1, Invariant, PTL

(* No sequence of events, recoveries and failed calls books a node beyond  *)
(* its resources in the scheduler's view (cluster.go:127-149).             *)
THEOREM ViewIsNeverOverbooked == Spec => []NeverOverbooked
<1>1. IInv => NeverOverbooked
  BY DEF IInv
<1> QED
  BY <1>1, Invariant, PTL

-----------------------------------------------------------------------------
(* The scheduler deletes pods only to move them.                           *)

(* A pod that exists, and no longer exists after the step.                 *)
Removed(p) == Exists(p) /\ ~Exists(p)'

(* Only a Delete element takes a pod away, and it takes its own.           *)
LEMMA DoRemoves ==
  ASSUME KubernetesTypeOK, podIdToName \subseteq Pod, NEW p \in Pod, Removed(p),
         NEW e, WellFormed(e), NEW o, NEW c, NEW ok, Do(e, o, c, ok)
  PROVE  e.kind = "Delete" /\ Id(e.obj) = p
<1>1. CASE UNCHANGED <<kubernetesVars, podIdToName>>
  BY <1>1 DEF Removed, Exists, kubernetesVars
<1>2. CASE e.kind = "Delete" /\ DeletePod(Id(e.obj), ok)
  <2>1. CASE Id(e.obj) \in podIdToName
    <3>1. Delete(Id(e.obj), ok)
      BY <1>2, <2>1 DEF DeletePod
    <3>2. api' = api \/ api' = [api EXCEPT ![Id(e.obj)] = [phase |-> "Gone", node |-> Nil]]
      BY <3>1 DEF Delete, Served, Change
    <3> QED
      BY <1>2, <3>2 DEF Removed, Exists, KubernetesTypeOK
  <2>2. CASE Id(e.obj) \notin podIdToName
    BY <1>2, <2>2 DEF DeletePod, kubernetesVars, Removed, Exists
  <2> QED
    BY <2>1, <2>2
<1>3. ASSUME NEW x, Deploy(x, e.node, ok)
      PROVE  FALSE
  <2>1. CASE x \in podIdToName
    <3>1. Bind(x, e.node, ok)
      BY <1>3, <2>1 DEF Deploy
    <3>2. api' = api \/ api' = [api EXCEPT ![x] = [phase |-> "Pending", node |-> e.node]]
      BY <3>1 DEF Bind, Served, Change
    <3> QED
      BY <2>1, <3>2 DEF Removed, Exists, KubernetesTypeOK
  <2>2. CASE x \notin podIdToName
    BY <1>3, <2>2 DEF Deploy, kubernetesVars, Removed, Exists
  <2> QED
    BY <2>1, <2>2
<1> QED
  BY <1>1, <1>2, <1>3 DEF Do

(* The cluster itself takes pods away by disruptions only.                 *)
LEMMA WorldRemoves ==
  ASSUME KubernetesTypeOK, NEW p \in Pod, Removed(p), ClusterChange
  PROVE  disruptions' # disruptions
<1>1. ASSUME NEW x \in Pod, CreatePod(x) \/ StartPod(x) \/ FinishPod(x) \/ BindForeign(x) \/ UpdatePod(x)
      PROVE  FALSE
  <2>1. ASSUME NEW a, api' = [api EXCEPT ![x] = a], a.phase \in {"Pending", "Running", "Finished"}
        PROVE  FALSE
    BY <2>1 DEF Removed, Exists, KubernetesTypeOK
  <2>2. api[x] \in ApiPod
    BY DEF KubernetesTypeOK
  <2>3. CASE CreatePod(x)
    BY <2>1, <2>3 DEF CreatePod, Change
  <2>4. CASE StartPod(x)
    BY <2>1, <2>2, <2>4 DEF StartPod, Change, ApiPod
  <2>5. CASE FinishPod(x)
    BY <2>1, <2>2, <2>5 DEF FinishPod, Change, ApiPod
  <2>6. CASE BindForeign(x)
    BY <2>1, <2>6 DEF BindForeign, Change
  <2>7. CASE UpdatePod(x)
    BY <2>1, <2>2, <2>7 DEF UpdatePod, Exists, Change, ApiPod
  <2> QED
    BY <1>1, <2>3, <2>4, <2>5, <2>6, <2>7
<1>2. ASSUME NEW x \in Pod, DisruptPod(x)
      PROVE  disruptions' # disruptions
  BY <1>2 DEF DisruptPod, Disruption, KubernetesTypeOK
<1> QED
  BY <1>1, <1>2 DEF ClusterChange

(* A plan that starts with the deletion of a pod goes on to bind its       *)
(* replacement.                                                            *)
LEMMA PlanRemoves ==
  ASSUME KubernetesTypeOK, podIdToName \subseteq Pod, NEW p \in Pod, Removed(p),
         expectations = <<>>, NEW plan, GoodPlan(plan), NEW going, NEW expected,
         SchedulePlan(plan, going, expected)
  PROVE  /\ expectations'[1].kind = "Delete" /\ Id(expectations'[1].obj) = p
         /\ expectations'[3].kind = "MigrateBind"
<1>1. plan # <<>>
  BY DEF SchedulePlan, kubernetesVars, Removed, Exists
<1>2. plan \in Seq(Element) /\ 1 \in DOMAIN plan /\ WellFormed(plan[1])
  BY <1>1 DEF GoodPlan, IsPlan
<1>3. PICK ok \in BOOLEAN :
        /\ Do(plan[1], Nil, clusterState, ok)
        /\ expectations' = (IF ok THEN expectations ELSE <<>>) \o plan
  BY <1>1 DEF SchedulePlan
<1>4. expectations' = plan
  BY <1>2, <1>3
<1>5. plan[1].kind = "Delete" /\ Id(plan[1].obj) = p
  BY <1>2, <1>3, DoRemoves
<1>6. plan[1 + 2].kind = "MigrateBind"
  BY <1>2, <1>5, DeletionStartsMove
<1> QED
  BY <1>4, <1>5, <1>6

(* The handler of an awaited event deletes a pod only as the next move.    *)
LEMMA ExpectedRemoves ==
  ASSUME IInv, NEW p \in Pod, Removed(p), HandleExpected
  PROVE  /\ expectations'[1].kind = "Delete" /\ Id(expectations'[1].obj) = p
         /\ expectations'[3].kind = "MigrateBind"
<1>1. PICK r \in After(expectations[1], event.obj, clusterState) :
        IF Len(expectations) = 1 THEN UNCHANGED <<kubernetesVars, podIdToName>>
        ELSE Do(expectations[2], event.obj, r.cs, TRUE)
  BY DEF HandleExpected
<1>2. expectations # <<>> /\ GoodPlan(expectations) /\ expectations' = Tail(expectations)
  BY DEF HandleExpected, Expected, NextExpectation, Popped, GoodPlan,
         IInv, PlanOK, PlanTypeOK, OneKindOfPlan, MovesAreWhole
<1>3. Len(expectations) # 1
  BY <1>1 DEF kubernetesVars, Removed, Exists
<1>4. /\ expectations \in Seq(Element) /\ 2 \in DOMAIN expectations
      /\ Len(expectations) \in Nat /\ DOMAIN expectations = 1..Len(expectations)
  <2>1. expectations \in Seq(Element)
    BY <1>2 DEF GoodPlan, IsPlan
  <2>2. Len(expectations) \in Nat \ {0} /\ DOMAIN expectations = 1..Len(expectations)
    BY <1>2, <2>1, EmptySeq, LenProperties
  <2>3. \A n \in Nat \ {0} : n # 1 => 2 \in 1..n
    OBVIOUS
  <2> QED
    BY <1>3, <2>1, <2>2, <2>3
<1>5. expectations[2].kind = "Delete" /\ Id(expectations[2].obj) = p
  <2>1. WellFormed(expectations[2])
    BY <1>2, <1>4 DEF GoodPlan, IsPlan
  <2> QED
    BY <1>1, <1>3, <2>1, DoRemoves DEF IInv, ConnectorTypeOK
<1>6. 2 + 2 \in DOMAIN expectations /\ expectations[2 + 2].kind = "MigrateBind"
  BY <1>2, <1>4, <1>5, DeletionStartsMove
<1>7. expectations'[1] = expectations[2] /\ expectations'[3] = expectations[2 + 2]
  BY <1>2, <1>4, <1>6
<1> QED
  BY <1>5, <1>6, <1>7

(* The other handlers that call the API leave no plan when they delete.    *)
LEMMA OthersRemove ==
  ASSUME IInv, NEW p \in Pod, Removed(p), HandleFailed \/ MatchPending
  PROVE  expectations' = <<>>
<1>1. CASE HandleFailed
  <2>1. \E c : Switch(c, TRUE)
    BY <1>1 DEF HandleFailed
  <2> QED
    BY <2>1 DEF Switch, FlushAndSchedule, Flush
<1>2. CASE MatchPending
  <2>1. PICK i \in DOMAIN newPodBuffer, ok \in BOOLEAN :
          FirstAwaited(i) /\ Do(expectations[2], newPodBuffer[i], clusterState, ok)
    BY <1>2 DEF MatchPending
  <2>2. /\ expectations # <<>> /\ expectations \in Seq(Element)
        /\ \A j \in DOMAIN expectations : WellFormed(expectations[j])
        /\ DOMAIN expectations = 1..Len(expectations) /\ Len(expectations) \in Nat
    BY <1>2 DEF MatchPending, CanMatch, IInv, PlanOK, PlanTypeOK, IsPlan
  <2>3. 1 \in DOMAIN expectations /\ expectations[1].kind = "Create"
    BY <2>1, <2>2 DEF FirstAwaited, Awaited
  <2>4. 1 < Len(expectations) /\ expectations[1 + 1].kind = "MigrateBind"
    BY <2>3 DEF IInv, PlanOK, MovesAreWhole, WholeMoves
  <2>5. WellFormed(expectations[2]) /\ expectations[2].kind = "MigrateBind"
    BY <2>2, <2>4
  <2> QED
    BY <2>1, <2>5, DoRemoves DEF IInv, ConnectorTypeOK
<1> QED
  BY <1>1, <1>2

(* No other action takes a pod away.                                       *)
LEMMA OnlyCallsRemove ==
  ASSUME NEW p \in Pod, Removed(p), [Next]_vars
  PROVE  \/ World \/ HandleExpected \/ HandleFailed \/ MatchPending
         \/ PlaceBatch \/ CheckSuggestion
<1>1. api' # api
  BY DEF Removed, Exists
<1>2. vars' # vars /\ ~UNCHANGED kubernetesVars
  BY <1>1 DEF vars, kubernetesVars
<1>3. ~Watch
  BY <1>1 DEF Watch, Translate, TranslateForeign
<1>4. ~ReceiveEvent /\ ~IgnoreEvent /\ ~HandleUnexpected
  BY <1>2 DEF ReceiveEvent, IgnoreEvent, HandleUnexpected
<1>5. ~ScheduleTick /\ ~ListPending /\ ~ListFails /\ ~NothingNew /\ ~AbandonReorder
  BY <1>1, <1>2 DEF ScheduleTick, ListPending, ListFails, NothingNew, AbandonReorder
<1>6. ~MakeSuggestion /\ ~DropSuggestion /\ ~CheckHealth /\ ~RecoverHealth
  BY <1>2 DEF MakeSuggestion, DropSuggestion, CheckHealth, RecoverHealth
<1>7. ~RecoverStep
  BY <1>1, <1>2 DEF RecoverStep, ForgetPod, SyncList, SyncListFails, PlacePod, FinishRecovery
<1>8. ~Panic /\ ~Crash
  BY <1>1 DEF Panic, Crash, ProcessDies
<1>9. ~Boot /\ ~StartWatching
  BY <1>1, <1>2 DEF Boot, StartWatching, OpenWatch
<1> QED
  BY <1>2, <1>3, <1>4, <1>5, <1>6, <1>7, <1>8, <1>9 DEF Next, HandleEvent, ScheduleStep

(* Every pod that a step takes away, and that no one else deleted, is the  *)
(* subject of the move the queue then starts with.                         *)
LEMMA StepRemoves ==
  ASSUME IInv, [Next]_vars, NEW p \in Pod, Removed(p),
         disruptions' = disruptions, expectations' # <<>>
  PROVE  /\ expectations'[1].kind = "Delete" /\ Id(expectations'[1].obj) = p
         /\ expectations'[3].kind = "MigrateBind"
<1>1. CASE World
  BY <1>1, WorldRemoves DEF IInv, World
<1>2. CASE HandleExpected
  BY <1>2, ExpectedRemoves
<1>3. CASE HandleFailed \/ MatchPending
  BY <1>3, OthersRemove
<1>4. CASE PlaceBatch
  <2>1. expectations = <<>>
    BY <1>4 DEF PlaceBatch
  <2>2. ~UNCHANGED kubernetesVars
    BY DEF Removed, Exists, kubernetesVars
  <2> QED
    BY <1>4, <2>1, <2>2, PlaceBatchPlans, PlanRemoves DEF IInv, ConnectorTypeOK
<1>5. CASE CheckSuggestion
  <2>1. expectations = <<>>
    BY <1>5 DEF CheckSuggestion, Busy
  <2> QED
    BY <1>5, <2>1, CheckSuggestionPlans, PlanRemoves DEF IInv, ConnectorTypeOK
<1> QED
  BY <1>1, <1>2, <1>3, <1>4, <1>5, OnlyCallsRemove

(* The scheduler never takes a pod away but to move it: whenever it calls  *)
(* DeletePod, the rest of the move is queued (expectation.go:37-116).      *)
THEOREM DeletionsAreMoves == Spec => DeletesToMove
<1>1. IInv /\ [Next]_vars =>
        [\A p \in Pod :
          Exists(p) /\ ~Exists(p)' /\ disruptions' = disruptions /\ expectations' # <<>> =>
            /\ expectations'[1].kind = "Delete" /\ Id(expectations'[1].obj) = p
            /\ expectations'[3].kind = "MigrateBind"]_vars
  BY StepRemoves DEF Removed
<1> QED
  BY <1>1, Invariant, PTL DEF Spec, DeletesToMove
=============================================================================
