----------------------------- MODULE Kubernetes -----------------------------
(***************************************************************************)
(* The API server and the controllers behind it, modelled from how         *)
(* internal/connector/kubernetes.go uses them: the pods of the namespace,  *)
(* the watch stream of the scheduler's own pods, and what others do to     *)
(* them.  Pod names are never reused: a replacement is another pod.        *)
(***************************************************************************)
EXTENDS ClusterState, Sequences, SequencesExt

CONSTANTS
    ForeignNode,     \* nodes that FindNodes skips, or that joined later
    Replicas,        \* [Deployment -> Nat], what the ReplicaSets keep alive
    InitialPods,     \* [Pod -> api record], the namespace at launch
    MaxWatch,        \* bound on undelivered watch events
    MaxDisruptions,  \* bound on pods finished, deleted, updated or bound by others
    MaxFaults        \* bound on API calls that fail in transit

ASSUME EnvironmentBounds ==
    /\ Replicas \in [Deployment -> Nat]
    /\ MaxWatch \in Nat /\ MaxDisruptions \in Nat /\ MaxFaults \in Nat
ASSUME ForeignIsForeign == ForeignNode \cap (Node \cup {Nil}) = {}

Phase     == {"Absent", "Pending", "Running", "Finished", "Gone"}
ApiPod    == [phase : Phase, node : Node \cup ForeignNode \cup {Nil}]
WatchEvent == [type : {"Added", "Modified", "Deleted"}, pod : Pod,
               phase : Phase, node : Node \cup ForeignNode \cup {Nil}]

ASSUME InitialPodsAreApiPods == InitialPods \in [Pod -> ApiPod]

VARIABLES
    api,          \* [Pod -> ApiPod], the truth
    watchq,       \* events sent on the watch and not yet read
    watching,     \* someone holds a watch that is still read
    disruptions,  \* how many disruptions have happened
    faults        \* how many API calls have failed in transit

kubernetesVars == <<api, watchq, watching, disruptions, faults>>

Exists(p)    == api[p].phase \in {"Pending", "Running", "Finished"}
Unbound(p)   == api[p].phase = "Pending" /\ api[p].node = Nil
PendingPods  == {p \in Pod : Unbound(p)}
OnNode(p)    == api[p].phase = "Running" \/ (api[p].phase = "Pending" /\ api[p].node # Nil)
Live(d)      == {p \in Pod : DeploymentOf[p] = d /\ api[p].phase \in {"Pending", "Running"}}

Event(type, p, a) == [type |-> type, pod |-> p, phase |-> a.phase, node |-> a.node]

(* A change of pod p to a, and the event it sends if anyone is watching.   *)
Change(type, p, a) ==
    /\ api' = [api EXCEPT ![p] = a]
    /\ watchq' = IF watching
                 THEN Append(watchq, Event(type, p, IF type = "Deleted" THEN api[p] ELSE a))
                 ELSE watchq

KubernetesTypeOK ==
    /\ api \in [Pod -> ApiPod] /\ watchq \in Seq(WatchEvent) /\ watching \in BOOLEAN
    /\ disruptions \in Nat /\ faults \in Nat

KubernetesInit ==
    /\ api = InitialPods
    /\ watchq = <<>>
    /\ watching = FALSE
    /\ disruptions = 0
    /\ faults = 0

-----------------------------------------------------------------------------
(* What happens in the cluster of its own accord.                          *)

Room == Len(watchq) < MaxWatch

(* The ReplicaSet controller tops the deployment up.                       *)
CreatePod(p) ==
    /\ Room
    /\ api[p].phase = "Absent"
    /\ Cardinality(Live(DeploymentOf[p])) < Replicas[DeploymentOf[p]]
    /\ Change("Added", p, [phase |-> "Pending", node |-> Nil])
    /\ UNCHANGED <<watching, disruptions, faults>>

(* The kubelet of the pod's node starts it.                                *)
StartPod(p) ==
    /\ Room
    /\ api[p].phase = "Pending" /\ api[p].node # Nil
    /\ Change("Modified", p, [api[p] EXCEPT !.phase = "Running"])
    /\ UNCHANGED <<watching, disruptions, faults>>

Disruption ==
    /\ Room
    /\ disruptions < MaxDisruptions
    /\ disruptions' = disruptions + 1
    /\ UNCHANGED <<watching, faults>>

(* The pod's containers end: it stays as a Succeeded or Failed pod.        *)
FinishPod(p) ==
    /\ Disruption
    /\ api[p].phase = "Running"
    /\ Change("Modified", p, [api[p] EXCEPT !.phase = "Finished"])

(* A user, a scale-down, an eviction or a drain deletes the pod.           *)
DisruptPod(p) ==
    /\ Disruption
    /\ Exists(p)
    /\ Change("Deleted", p, [phase |-> "Gone", node |-> Nil])

(* Somebody else binds a pending pod, to a node the scheduler never read.  *)
BindForeign(p) ==
    /\ Disruption
    /\ Unbound(p)
    /\ \E n \in ForeignNode : Change("Modified", p, [phase |-> "Pending", node |-> n])

(* A label, an annotation or a condition of the pod changes, nothing that  *)
(* the scheduler looks at.                                                 *)
UpdatePod(p) ==
    /\ Disruption
    /\ Exists(p)
    /\ Change("Modified", p, api[p])

ClusterChange ==
    \E p \in Pod : \/ CreatePod(p) \/ StartPod(p) \/ FinishPod(p)
                   \/ DisruptPod(p) \/ BindForeign(p) \/ UpdatePod(p)

-----------------------------------------------------------------------------
(* The calls.  ok is what the caller sees; a fault loses the request, or   *)
(* loses the reply of a request that was served.                           *)

Fault == faults < MaxFaults /\ faults' = faults + 1

Served(call, rejected, ok) ==
    \/ ok /\ call /\ UNCHANGED faults
    \/ ~ok /\ rejected /\ UNCHANGED <<api, watchq, faults>>
    \/ ~ok /\ Fault /\ UNCHANGED <<api, watchq>>
    \/ ~ok /\ Fault /\ call

(* POST .../binding: refused unless the pod exists and has no node.        *)
Bind(p, n, ok) ==
    /\ Served(Unbound(p) /\ Change("Modified", p, [phase |-> "Pending", node |-> n]),
              ~Unbound(p), ok)
    /\ UNCHANGED <<watching, disruptions>>

(* DELETE with a grace period of zero: the pod is gone at once.            *)
Delete(p, ok) ==
    /\ Served(Exists(p) /\ Change("Deleted", p, [phase |-> "Gone", node |-> Nil]),
              ~Exists(p), ok)
    /\ UNCHANGED <<watching, disruptions>>

(* Watch without a resource version: the pods that exist arrive as Added,  *)
(* in some order, and then every later change.                             *)
OpenWatch ==
    /\ watching' = TRUE
    /\ \E order \in SetToSeqs({p \in Pod : Exists(p)}) :
          watchq' = [i \in 1..Len(order) |-> Event("Added", order[i], api[order[i]])]
    /\ UNCHANGED <<api, disruptions, faults>>

(* Nobody reads the watch any more.                                        *)
CloseWatch ==
    /\ watching' = FALSE
    /\ watchq' = <<>>
=============================================================================
