------------------------------ MODULE Simulator ------------------------------
(***************************************************************************)
(* sim, and the tools it shares with the tests of alg: a cluster of fixed  *)
(* nodes is fed frames of deleted and new pods, and either the placement   *)
(* algorithms or a first-fit loop put the new pods somewhere.  The tools   *)
(* do not return errors but panic, which is a stage here.                  *)
(***************************************************************************)
EXTENDS EdgeAlg

CONSTANTS
    Script,  \* Seq(SUBSET Frame): the frames to choose from, one after another
    Rounds   \* suggestions applied after each decision: 2 in sim, 0 in the test

(* How many pods of each deployment are new, and how many are deleted.     *)
Frame == [new : [Deployment -> Nat], deleted : [Deployment -> Nat]]

ASSUME ScriptIsScript ==
    /\ \A i \in DOMAIN Script : Script[i] \subseteq Frame
    /\ Rounds \in Nat

(* builder.GetCluster adds a cloud node before anything else.              *)
ASSUME CloudIsThere == CloudNode # {}

VARIABLES
    cluster,    \* the ClusterState
    algorithm,  \* "QASRE" or "KUBERNETES_DEFAULT"
    frame,      \* how many frames were read
    newPods,    \* the pods of this frame that are not placed yet
    rounds,     \* suggestions left to apply in this frame
    stage       \* "frame", "decide", "default", "suggest" or "panic"

vars == <<cluster, algorithm, frame, newPods, rounds, stage>>

Obj(p) == <<p, 1>>

TheCloud == CHOOSE n \in CloudNode : TRUE

Present(c) == EdgePods(c) \cup CloudPods(c)

Counts(S) == [d \in Deployment |-> CountIn(S, d)]

-----------------------------------------------------------------------------
(* Calls on the cluster state, for pods that have one object and one entry.*)

Removed(c, S) == FoldSet(LAMBDA p, acc : CHOOSE d \in RemovePod(acc, Obj(p)) : TRUE, c, S)

OnTheCloud(c, S) == FoldSet(LAMBDA p, acc : DeployCloud(acc, Obj(p), TheCloud), c, S)

OnTheEdge(c, f) == FoldSet(LAMBDA p, acc : DeployEdge(acc, Obj(p), f[p]), c, DOMAIN f)

(* builder.GetPods: running pods with new ids.                             *)
Built(c, S) == FoldSet(LAMBDA p, acc : NewPod(acc, Obj(p), "RUNNING"), c, S)

-----------------------------------------------------------------------------
(* alg/testing_tool.go.                                                    *)

(* Mutant: a pod the mapping has no room for is forgotten.                 *)
TestingApplyDecisionForgetting(c, d) ==
    LET freed == OnTheCloud(Removed(c, d.freed), d.freed)
        moved == OnTheEdge(Removed(freed, DOMAIN d.migrations), d.migrations)
        rest  == OnTheCloud(moved, d.toCloud)
    IN {OnTheEdge(rest, f) : f \in MapPodToEdge(rest, d.toEdge, {}, <<>>)}

(* The clusters a decision can leave.  A pod that DeployEdge refused, for  *)
(* which the program panics, is missing in them.                           *)
TestingApplyDecision(c, d) ==
    LET freed == OnTheCloud(Removed(c, d.freed), d.freed)
        moved == OnTheEdge(Removed(freed, DOMAIN d.migrations), d.migrations)
        rest  == OnTheCloud(moved, d.toCloud)
    IN {OnTheCloud(OnTheEdge(rest, f), d.toEdge \ DOMAIN f)
        : f \in MapPodToEdge(rest, d.toEdge, {}, <<>>)}

(* It panics at a pod that RemovePod does not find or DeployEdge refuses.  *)
Panics(c, d, result) ==
    \/ ~(d.freed \cup DOMAIN d.migrations \subseteq Present(c))
    \/ ~(d.toEdge \cup DOMAIN d.migrations \subseteq Present(result))

AfterRound(left) == IF left = 0 THEN "frame" ELSE "suggest"

Apply(c, d, left) ==
    \E result \in TestingApplyDecision(c, d) :
        /\ stage' = IF Panics(c, d, result) THEN "panic" ELSE AfterRound(left)
        /\ cluster' = IF Panics(c, d, result) THEN c ELSE result

-----------------------------------------------------------------------------
(* sim.Start, one frame after another.                                     *)

Init ==
    /\ cluster = NewClusterState
    /\ algorithm \in {"QASRE", "KUBERNETES_DEFAULT"}
    /\ frame = 0 /\ newPods = {} /\ rounds = 0
    /\ stage = "frame"

(* deletePods takes, for each name, a pod on the edge if there is one.     *)
Deletable(k) ==
    {D \in SUBSET Present(cluster) :
        /\ Counts(D) = k
        /\ \A d \in Deployment :
            CountIn(D \cap CloudPods(cluster), d) > 0 =>
                CountIn(D \cap EdgePods(cluster), d) = CountIn(EdgePods(cluster), d)}

ReadFrame ==
    /\ stage = "frame" /\ frame < Len(Script)
    /\ \E f \in Script[frame + 1] :
       \E N \in SUBSET (Pod \ Present(cluster)), D \in Deletable(f.deleted) :
          /\ Counts(N) = f.new
          /\ newPods' = N
          /\ cluster' = Removed(Built(cluster, N), D)
          /\ stage' = IF algorithm = "QASRE" THEN "decide"
                      ELSE IF N = {} THEN "frame" ELSE "default"
    /\ frame' = frame + 1
    /\ rounds' = Rounds
    /\ UNCHANGED algorithm

Decide ==
    /\ stage = "decide"
    /\ \E d \in MakeDecisionForNewPods(cluster, newPods, TRUE) : Apply(cluster, d, rounds)
    /\ newPods' = {}
    /\ UNCHANGED <<algorithm, frame, rounds>>

(* TestingApplySuggestion takes the suggested pods off the cloud first.    *)
Suggest ==
    /\ stage = "suggest" /\ rounds > 0
    /\ rounds' = rounds - 1
    /\ \E s \in SuggestReorder(cluster) :
          IF s.cloudToEdge \subseteq Present(cluster)
          THEN Apply(Removed(cluster, s.cloudToEdge), s.decision, rounds')
          ELSE stage' = "panic" /\ UNCHANGED cluster
    /\ UNCHANGED <<algorithm, frame, newPods>>

(* kubeDefaultSchedulePods: the first node with room, or else the cloud.   *)
FirstFit(p) ==
    LET room(i) == LEThan(Size(p), RemainingOf(cluster)[Nodes[i]])
    IN {Nodes[i] : i \in {j \in DOMAIN Nodes : room(j) /\ \A k \in 1..(j - 1) : ~room(k)}}

DefaultPlace ==
    /\ stage = "default"
    /\ \E p \in newPods :
          /\ cluster' = IF FirstFit(p) = {} THEN DeployCloud(cluster, Obj(p), TheCloud)
                        ELSE DeployEdge(cluster, Obj(p), CHOOSE n \in FirstFit(p) : TRUE)
          /\ newPods' = newPods \ {p}
          /\ stage' = IF newPods = {p} THEN "frame" ELSE "default"
    /\ UNCHANGED <<algorithm, frame, rounds>>

Next == ReadFrame \/ Decide \/ Suggest \/ DefaultPlace

Spec == Init /\ [][Next]_vars
=============================================================================
