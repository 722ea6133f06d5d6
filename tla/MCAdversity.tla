----------------------------- MODULE MCAdversity -----------------------------
(***************************************************************************)
(* One pod runs on the edge and one on the cloud at launch; suggestions    *)
(* pull and migrate pods, two of them at once, while pods finish, are      *)
(* deleted or are bound elsewhere by others, calls fail and the health     *)
(* check resets the view.  The edge node has room for all of the pods.     *)
(***************************************************************************)
EXTENDS SchedulerProperties

CONSTANTS p1, p2, p3, d1, n1, c1, x1, cpu

MCDeploymentOf == [p \in Pod |-> d1]
MCResources    == [n \in EdgeNode |-> [r \in Resource |-> 3]]
MCRequired     == [d \in Deployment |-> [r \in Resource |-> 1]]
MCReplicas     == [d \in Deployment |-> 2]
MCInitialPods  == [p \in Pod |-> CASE p = p1 -> [phase |-> "Running", node |-> n1]
                                   [] p = p2 -> [phase |-> "Running", node |-> c1]
                                   [] OTHER  -> [phase |-> "Absent", node |-> Nil]]
==============================================================================
