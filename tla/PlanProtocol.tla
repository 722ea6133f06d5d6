---------------------------- MODULE PlanProtocol ----------------------------
(***************************************************************************)
(* What the scheduler's queue of expectations promises to the cluster: the *)
(* pods are bound one by one, each by the step of a plan that is due for   *)
(* it; a pod is moved in three stages, its deletion, the wait for its      *)
(* replacement and the replacement's binding, with nothing else bound in   *)
(* between; a plan that is dropped binds nothing any more.                 *)
(*                                                                         *)
(* It says nothing of events, buffers, views and resources: the scheduler  *)
(* implements it (SchedulerProperties!ImplementsProtocol).                 *)
(***************************************************************************)
EXTENDS Integers

CONSTANTS Pod, Deployment, Node, DeploymentOf, Nil

VARIABLES
    due,     \* the step under way, or Nil
    left,    \* how many events the plan still waits for
    boundTo  \* [Pod -> Node \cup {Nil}]

vars == <<due, left, boundTo>>

Placing == [stage : {"placing"}, pod : Pod, node : Node]
Moving  == [stage : {"deleting", "awaiting", "binding"}, dep : Deployment, node : Node]

First == Placing \cup [stage : {"deleting"}, dep : Deployment, node : Node]

Waits(step) == IF step.stage = "deleting" THEN 3 ELSE 1

BindOne(p, n) == boundTo[p] = Nil /\ boundTo' = [boundTo EXCEPT ![p] = n]

Release(p) == boundTo' = [boundTo EXCEPT ![p] = Nil]

(* The call that begins a step.                                            *)
Call(step) ==
    \/ step.stage = "placing" /\ BindOne(step.pod, step.node)
    \/ step.stage = "deleting" /\ \E p \in Pod : DeploymentOf[p] = step.dep /\ Release(p)
    \/ step.stage = "awaiting" /\ UNCHANGED boundTo
    \/ step.stage = "binding" /\ \E p \in Pod : DeploymentOf[p] = step.dep /\ BindOne(p, step.node)

Init == due = Nil /\ left = 0 /\ boundTo \in [Pod -> Node \cup {Nil}]

(* The first call of a plan may fail, and still the plan is followed.      *)
Begin ==
    /\ due = Nil
    /\ due' \in First /\ left' >= Waits(due')
    /\ Call(due') \/ UNCHANGED boundTo

(* A move goes from stage to stage, with the deployment and the target it  *)
(* began with.                                                             *)
Advance ==
    /\ due \in Moving
    /\ \/ due.stage = "deleting" /\ due' = [due EXCEPT !.stage = "awaiting"]
       \/ due.stage = "awaiting" /\ due' = [due EXCEPT !.stage = "binding"]
    /\ left' = left - 1
    /\ Call(due')

(* The last step of a pod is over: the next pod's begins, if there is one. *)
Continue ==
    /\ due # Nil /\ due.stage \in {"placing", "binding"}
    /\ left' = left - 1
    /\ \/ left = 1 /\ due' = Nil /\ UNCHANGED boundTo
       \/ left > 1 /\ due' \in First /\ left' >= Waits(due') /\ Call(due')

(* The plan is dropped: by an event nobody expected, by a crash, by the    *)
(* health check, or by a call that failed, which may have been served.     *)
Drop ==
    /\ due # Nil /\ due' = Nil /\ left' = 0
    /\ \/ due.stage = "awaiting" /\ Call([due EXCEPT !.stage = "binding"])
       \/ due.stage \in {"placing", "binding"} /\ left > 1 /\ \E step \in First : Call(step)
       \/ UNCHANGED boundTo

(* Pods disappear, which unbinds them; nobody else binds pods to nodes.    *)
Disappear == (\E p \in Pod : Release(p)) /\ UNCHANGED <<due, left>>

Next == Begin \/ Advance \/ Continue \/ Drop \/ Disappear

Spec == Init /\ [][Next]_vars
=============================================================================
