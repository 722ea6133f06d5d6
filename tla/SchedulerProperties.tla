------------------------ MODULE SchedulerProperties ------------------------
(***************************************************************************)
(* What the scheduler should guarantee.  Which of these hold in which      *)
(* surroundings is what the runs show; the README has the table.           *)
(***************************************************************************)
EXTENDS Scheduler

-----------------------------------------------------------------------------
(* Types.                                                                  *)

Migration  == [pod : Pod, from : Node \cup {Nil}, to : EdgeNode]
Suggestion == [toEdge : SUBSET Pod, migrations : {m \in SUBSET Migration : IsFiniteSet(m)}]

WellFormed(e) ==
    /\ e \in Element
    /\ e.kind \in {"Delete", "Bind"} => e.obj \in PodObj /\ e.dep = Dep(e.obj)
    /\ e.kind \in {"MigrateBind", "Bind"} => e.node \in Node

IsPlan(q) == q \in Seq(Element) /\ \A i \in DOMAIN q : WellFormed(q[i])

PlanTypeOK ==
    /\ IsPlan(expectations)
    /\ goingToPlace \subseteq Pod
    /\ expectedReorderDeployments \in [Deployment -> Nat]
    /\ healthCheckSample \in Nat

ControlTypeOK ==
    /\ newPodBuffer \in Seq(PodObj)
    /\ suggestion \in Suggestion \cup {Nil}
    /\ pc \in {"select", "event", "list", "match", "batch", "wipe", "place", "boot", "bootplace"}
    /\ event \in SchedulingEvent \cup {Nil}
    /\ pc = "event" => event \in SchedulingEvent
    /\ toForget \subseteq PodObj
    /\ toPlace \subseteq Pod \X (Node \cup ForeignNode \cup {Nil})
    /\ recoveries \in Nat /\ crashes \in Nat

(* Every variable has its type; the elements of a plan have the fields     *)
(* their closures use, and an event is at hand while one is handled.       *)
TypeOK == KubernetesTypeOK /\ ConnectorTypeOK /\ PlanTypeOK /\ ControlTypeOK

-----------------------------------------------------------------------------
(* The queue of expectations.                                              *)

OneKind(q) == \A i \in DOMAIN q : q[i].tp = q[1].tp

WholeMoves(q) ==
    \A i \in DOMAIN q :
        LET follows(k)  == i < Len(q) /\ q[i + 1].kind = k /\ q[i + 1].dep = q[i].dep
            precedes(k) == i > 1 => q[i - 1].kind = k /\ q[i - 1].dep = q[i].dep
        IN /\ q[i].kind = "Delete" => follows("Create")
           /\ q[i].kind = "Create" => follows("MigrateBind") /\ precedes("Delete")
           /\ q[i].kind = "MigrateBind" => precedes("Create")
           /\ q[i].tp = "PLACING" => q[i].kind = "Bind"

(* "Expectations must be either all PLACING or REORDERING not a mixture of *)
(* them" (scheduler.go:36), although plans are appended, popped from the   *)
(* front by two different paths and dropped in the middle.                 *)
OneKindOfPlan == OneKind(expectations)

(* What is left of a reordering always consists of whole moves, but for    *)
(* the one under way: an awaited deletion is followed by the creation and  *)
(* the binding of its replacement, and neither stands there alone.         *)
(* schedule() relies on it: when it finds an awaited creation in the       *)
(* buffer the queue does not become empty, so nextExpectation does not     *)
(* call schedule() again, which would change the buffer under the loop     *)
(* that is about to cut an entry out of it.                                *)
MovesAreWhole == WholeMoves(expectations)

-----------------------------------------------------------------------------
(* The cluster and the scheduler's view of it.                             *)

Sizes(r) == [p \in Pod |-> ResourcesRequired[DeploymentOf[p]][r]]

BoundTo(n) == {p \in Pod : OnNode(p) /\ api[p].node = n}

(* The pods that really are on an edge node fit it, whatever the view of   *)
(* the moment was when each of them was bound.                             *)
NoOvercommit ==
    \A n \in EdgeNode, r \in Resource :
        SumFunctionOnSet(Sizes(r), BoundTo(n)) <= Resources[n][r]

(* No node is booked beyond its resources, so that the empty choice always *)
(* fits and MakeDecisionForNewPods never returns no decision at all, which *)
(* would silently drop the batch.                                          *)
NeverOverbooked == WithinResources(clusterState)

Entries(p) ==
    LET entered == [o \in ObjectsOf(p) |-> clusterState.edgePods[o] + clusterState.cloudPods[o]]
    IN SumFunctionOnSet(entered, ObjectsOf(p))

(* A pod is entered at most once in Edge.Pods and Cloud.Pods together, and *)
(* what a node is charged with is the sum of its entries.                  *)
Accounting ==
    /\ \A p \in Pod : Entries(p) <= 1
    /\ \A n \in EdgeNode, r \in Resource :
        LET charges == [o \in PodObj |-> clusterState.edgePods[o] * ResourcesRequired[Dep(o)][r]]
        IN clusterState.nodeUsed[n][r] = SumFunctionOnSet(charges, {o \in PodObj : clusterState.node[o] = n})

InFlight(p) ==
    \/ \E i \in DOMAIN watchq : watchq[i].pod = p
    \/ \E i \in DOMAIN eventStream : Id(eventStream[i].obj) = p

Entered(o) == clusterState.edgePods[o] > 0 \/ clusterState.cloudPods[o] > 0

InView(p) ==
    \E o \in ObjectsOf(p) : Entered(o) /\ clusterState.node[o] = api[p].node

(* Between two handlers a pod that is on a node is entered there, or an    *)
(* event about it is still under way: none is forgotten.                   *)
NoLostPod == pc = "select" => \A p \in Pod : OnNode(p) => InView(p) \/ InFlight(p)

(* And nothing is entered that is not there: an entry's pod is on the      *)
(* entry's node, or an event about it is still under way.                  *)
NoGhost ==
    pc = "select" =>
        \A o \in PodObj : Entered(o) => api[Id(o)].node = clusterState.node[o] \/ InFlight(Id(o))

(* Whoever is planned next has not been bound yet: the queue never holds a *)
(* Bind whose call the API server is bound to refuse.                      *)
PlannedIsUnbound ==
    \A i \in DOMAIN expectations : i > 1 /\ expectations[i].kind = "Bind" => Unbound(Id(expectations[i].obj))

(* The scheduler deletes a pod only to move it: the queue then starts with *)
(* the deletion it awaits, and the rest of the move behind it.             *)
DeletesToMove ==
    [][\A p \in Pod :
          Exists(p) /\ ~Exists(p)' /\ disruptions' = disruptions /\ expectations' # <<>> =>
            /\ expectations'[1].kind = "Delete" /\ Id(expectations'[1].obj) = p
            /\ expectations'[3].kind = "MigrateBind"]_vars

-----------------------------------------------------------------------------
(* The abstract specification that the scheduler implements.               *)

(* The step the head of the queue stands for: a move takes its target from *)
(* the binding at its end.                                                 *)
Step(q) ==
    LET move(stage, target) == [stage |-> stage, dep |-> q[1].dep, node |-> target]
    IN CASE q = <<>> -> Nil
         [] q # <<>> /\ q[1].kind = "Bind" -> [stage |-> "placing", pod |-> Id(q[1].obj), node |-> q[1].node]
         [] q # <<>> /\ q[1].kind = "Delete" -> move("deleting", q[3].node)
         [] q # <<>> /\ q[1].kind = "Create" -> move("awaiting", q[2].node)
         [] q # <<>> /\ q[1].kind = "MigrateBind" -> move("binding", q[1].node)

BoundByUs == [p \in Pod |-> IF api[p].node \in Node THEN api[p].node ELSE Nil]

Protocol ==
    INSTANCE PlanProtocol WITH due <- Step(expectations), left <- Len(expectations), boundTo <- BoundByUs

(* Nothing due is not a step.                                              *)
ASSUME NilIsNoStep == Nil \notin Protocol!Placing \cup Protocol!Moving

(* Whatever events, ticks, failures and crashes intervene, the pods the    *)
(* API server sees bound are those of the plan, each at its turn, and a    *)
(* move's three stages are gone through without another pod being bound.   *)
ImplementsProtocol == Protocol!Spec

-----------------------------------------------------------------------------
(* Statements of the repository that the code does not keep.               *)

(* expectation.go:41: "should not delete this pod because this is the only *)
(* one running".  The scheduler's deletions leave a running pod.           *)
KeepsOneRunning ==
    [][\A p \in Pod :
          api[p].phase = "Running" /\ api'[p].phase = "Gone" /\ disruptions' = disruptions =>
            \E q \in Pod \ {p} : DeploymentOf[q] = DeploymentOf[p] /\ api[q].phase = "Running"]_vars

(* README.md:13: "it will migrate pods between edge nodes".  A pod that is *)
(* deleted to be moved is moved to another node.                           *)
MovesGoElsewhere ==
    \A i \in 1..(Len(expectations) - 2) :
        expectations[i].kind = "Delete" /\ clusterState.node[expectations[i].obj] # Nil =>
            expectations[i + 2].node # clusterState.node[expectations[i].obj]

(* connector.go:21-23: SyncPods is called when the scheduler wants to      *)
(* "forget everything it knows about pods": when it lists the namespace no *)
(* entry is left and no node is charged.                                   *)
ForgetsEverything ==
    pc = "wipe" /\ toForget = {} =>
        /\ \A o \in PodObj : ~Entered(o)
        /\ \A n \in EdgeNode, r \in Resource : clusterState.nodeUsed[n][r] = 0

(* kubernetes.go:456: "pod's node is not registered, ignoring the event".  *)
(* The scheduler keeps being told about pods while it runs.                *)
KeepsWatching == pc = "select" => watching

-----------------------------------------------------------------------------
(* Fairness: the goroutine goes on, the watch goroutine goes on, and a     *)
(* select among ready cases is a random choice that picks none of them     *)
(* never again; the timers keep firing; the cluster's controllers act.     *)
Fairness ==
    /\ WF_vars(HandleEvent) /\ WF_vars(ScheduleStep) /\ WF_vars(RecoverStep)
    /\ WF_vars(Boot) /\ WF_vars(StartWatching) /\ WF_vars(Watch)
    /\ SF_vars(ReceiveEvent) /\ SF_vars(ScheduleTick)
    /\ SF_vars(CheckHealth) /\ SF_vars(RecoverHealth)
    /\ SF_vars(CheckSuggestion)
    /\ \A p \in Pod : WF_vars(World /\ (CreatePod(p) \/ StartPod(p)))

FairSpec == Spec /\ Fairness

(* The health check drops a plan that gets nowhere, so every plan ends.    *)
PlansEnd == []<>(expectations = <<>>)

(* A pending pod is bound in the end (or is deleted).                      *)
PendingIsBound == \A p \in Pod : Unbound(p) ~> ~Unbound(p)
=============================================================================
