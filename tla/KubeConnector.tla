---------------------------- MODULE KubeConnector ----------------------------
(***************************************************************************)
(* internal/connector/kubernetes.go: the goroutine that turns watch events *)
(* into scheduling events, and the calls the scheduler makes.  The         *)
(* ClusterState is shared with the scheduler without a lock, and           *)
(* eventStream is an unbuffered channel: the goroutine holds one           *)
(* translated event and waits until the scheduler takes it.                *)
(***************************************************************************)
EXTENDS Kubernetes

VARIABLES
    clusterState,  \* the ClusterState both goroutines work on
    podIdToName,   \* the pods whose names the connector knows
    eventStream    \* the event the goroutine offers, if any

connectorVars == <<clusterState, podIdToName, eventStream>>

EventType == {"POD_CREATED", "POD_CHANGED", "POD_DELETED"}
SchedulingEvent == [type : EventType, obj : PodObj, node : Node \cup {Nil}, status : Status]

ConnectorTypeOK ==
    /\ clusterState \in ClusterStates
    /\ podIdToName \subseteq Pod
    /\ eventStream \in Seq(SchedulingEvent)

ConnectorInit ==
    /\ clusterState = NewClusterState
    /\ podIdToName = {}
    /\ eventStream = <<>>

StatusOf(phase) ==
    CASE phase = "Running"  -> "RUNNING"
      [] phase = "Finished" -> "FINISHED"
      [] OTHER              -> "SCHEDULED"

TypeOfEvent(type) ==
    CASE type = "Added"    -> "POD_CREATED"
      [] type = "Modified" -> "POD_CHANGED"
      [] OTHER             -> "POD_DELETED"

(* The first copies of p that nothing points to; inUse is what the         *)
(* program still points to.                                                *)
FreshObj(p, inUse) ==
    {o \in ObjectsOf(p) \ inUse : \A k \in 1..(o[2] - 1) : <<p, k>> \in inUse}

-----------------------------------------------------------------------------
(* The watch goroutine.  It reads PodsMap, and registers an unknown pod    *)
(* there, before it offers the event; the scheduler may do anything        *)
(* between that and the hand-over.                                         *)

Known(e)   == clusterState.podsMap[e.pod] # Nil
Foreign(e) == e.node \in ForeignNode

Register(e, o) ==
    IF Known(e)
    THEN o = clusterState.podsMap[e.pod] /\ UNCHANGED <<clusterState, podIdToName>>
    ELSE /\ podIdToName' = podIdToName \cup {e.pod}
         /\ clusterState' = [NewPod(clusterState, o, "SCHEDULED") EXCEPT !.podsMap[e.pod] = o]

CanTranslate == watching /\ watchq # <<>> /\ eventStream = <<>>

Translate(inUse) ==
    /\ CanTranslate
    /\ LET e == Head(watchq) IN
       /\ ~Foreign(e)
       /\ watchq' = Tail(watchq)
       /\ \E o \in (IF Known(e) THEN PodObj ELSE FreshObj(e.pod, inUse)) :
             /\ Register(e, o)
             /\ eventStream' = IF e.type = "Added" /\ Known(e) THEN <<>>
                               ELSE <<[type |-> TypeOfEvent(e.type), obj |-> o,
                                       node |-> e.node, status |-> StatusOf(e.phase)]>>
    /\ UNCHANGED <<api, watching, disruptions, faults>>

(* A node that is not in the cluster state ends the goroutine (return),    *)
(* although the log says that the event is ignored.                        *)
TranslateForeign(inUse) ==
    /\ CanTranslate
    /\ LET e == Head(watchq) IN
       /\ Foreign(e)
       /\ \E o \in (IF Known(e) THEN PodObj ELSE FreshObj(e.pod, inUse)) : Register(e, o)
    /\ CloseWatch
    /\ UNCHANGED <<eventStream, api, disruptions, faults>>

-----------------------------------------------------------------------------
(* The calls.  A pod is addressed by a name that only the watch goroutine  *)
(* and SyncPods learn, and that DeletePod forgets before it calls.         *)

Deploy(p, n, ok) ==
    /\ UNCHANGED podIdToName
    /\ IF p \in podIdToName THEN Bind(p, n, ok)
       ELSE ~ok /\ UNCHANGED kubernetesVars

DeletePod(p, ok) ==
    /\ podIdToName' = podIdToName \ {p}
    /\ IF p \in podIdToName THEN Delete(p, ok)
       ELSE ~ok /\ UNCHANGED kubernetesVars

(* GetPendingPods: fresh objects for the pending pods, in some order.      *)
PendingLists(inUse) ==
    {[i \in DOMAIN ps |-> CHOOSE o \in FreshObj(ps[i], inUse) : TRUE] :
        ps \in {q \in SetToSeqs(PendingPods) : \A i \in DOMAIN q : FreshObj(q[i], inUse) # {}}}

(* What SyncPods makes of one pod of the listing that has a node and is    *)
(* pending or running: a fresh RUNNING object where the pod is.  The edge  *)
(* may refuse it, the running count is raised all the same.                *)
Placed(c, o, n) ==
    LET fresh   == NewPod(c, o, "RUNNING")
        counted == [fresh EXCEPT !.numRunning[Dep(o)] = OneMore(@)]
    IN IF n \in EdgeNode THEN {DeployEdge(counted, o, n)}
       ELSE {DeployCloud(counted, o, t) : t \in CloudNode}
=============================================================================
