--------------------------- MODULE ProtocolProofs ---------------------------
(***************************************************************************)
(* The scheduler implements PlanProtocol, in every cluster and whatever    *)
(* happens there: each step of Scheduler is a step of the protocol, or     *)
(* leaves the head of the queue, its length and the bindings alone.        *)
(***************************************************************************)
EXTENDS SchedulerProofs

protocolVars == <<Step(expectations), Len(expectations), BoundByUs>>

-----------------------------------------------------------------------------
(* The head of the queue.                                                  *)

(* The step that the first element stands for, by its kind.                *)
LEMMA StepOf ==
  ASSUME NEW q, q # <<>>
  PROVE  /\ q[1].kind = "Bind" =>
              Step(q) = [stage |-> "placing", pod |-> Id(q[1].obj), node |-> q[1].node]
         /\ q[1].kind = "Delete" =>
              Step(q) = [stage |-> "deleting", dep |-> q[1].dep, node |-> q[3].node]
         /\ q[1].kind = "Create" =>
              Step(q) = [stage |-> "awaiting", dep |-> q[1].dep, node |-> q[2].node]
         /\ q[1].kind = "MigrateBind" =>
              Step(q) = [stage |-> "binding", dep |-> q[1].dep, node |-> q[1].node]
  BY DEF Step

(* Nothing is due for an empty queue.                                      *)
LEMMA StepOfNothing == Step(<<>>) = Nil
  BY DEF Step

(* The first elements of a good plan have the fields that Step reads.      *)
LEMMA HeadOfPlan ==
  ASSUME NEW q, GoodPlan(q), q # <<>>
  PROVE  /\ q \in Seq(Element) /\ Len(q) \in Nat /\ Len(q) >= 1 /\ DOMAIN q = 1..Len(q)
         /\ q[1] \in Element /\ WellFormed(q[1])
         /\ q[1].kind = "Delete" =>
              /\ Len(q) >= 3 /\ q[2].kind = "Create" /\ q[2].dep = q[1].dep
              /\ q[3].kind = "MigrateBind" /\ q[3].node \in Node
         /\ q[1].kind = "Create" =>
              /\ Len(q) >= 2 /\ q[2].kind = "MigrateBind" /\ q[2].dep = q[1].dep
              /\ q[2].node \in Node
         /\ q[1].kind \in {"MigrateBind", "Bind"} =>
              /\ q[1].node \in Node
              /\ Len(q) > 1 => q[2].kind \in {"Delete", "Bind"}
<1>1. q \in Seq(Element) /\ Len(q) \in Nat /\ Len(q) >= 1 /\ DOMAIN q = 1..Len(q)
  BY DEF GoodPlan, IsPlan
<1>2. \A i \in 1..Len(q) : q[i] \in Element /\ WellFormed(q[i])
  BY <1>1 DEF GoodPlan, IsPlan, WellFormed
<1>3. \A i \in 1..Len(q) :
        /\ q[i].kind = "Delete" => i < Len(q) /\ q[i + 1].kind = "Create" /\ q[i + 1].dep = q[i].dep
        /\ q[i].kind = "Create" =>
             /\ i < Len(q) /\ q[i + 1].kind = "MigrateBind" /\ q[i + 1].dep = q[i].dep
             /\ i > 1 => q[i - 1].kind = "Delete"
        /\ q[i].kind = "MigrateBind" => (i > 1 => q[i - 1].kind = "Create")
  BY <1>1 DEF GoodPlan, WholeMoves
<1>4. 1 \in 1..Len(q)
  BY <1>1
<1>5. q[1].kind = "Delete" =>
              /\ Len(q) >= 3 /\ q[2].kind = "Create" /\ q[2].dep = q[1].dep
              /\ q[3].kind = "MigrateBind" /\ q[3].node \in Node
  <2> SUFFICES ASSUME q[1].kind = "Delete"
               PROVE  /\ Len(q) >= 3 /\ q[2].kind = "Create" /\ q[2].dep = q[1].dep
                      /\ q[3].kind = "MigrateBind" /\ q[3].node \in Node
    OBVIOUS
  <2>1. 1 < Len(q) /\ q[2].kind = "Create" /\ q[2].dep = q[1].dep
    BY <1>3, <1>4
  <2>2. 2 \in 1..Len(q)
    BY <1>1, <2>1
  <2>3. 2 < Len(q) /\ q[3].kind = "MigrateBind"
    BY <1>3, <2>1, <2>2
  <2>4. 3 \in 1..Len(q)
    BY <1>1, <2>3
  <2> QED
    BY <1>1, <1>2, <2>1, <2>3, <2>4 DEF WellFormed
<1>6. q[1].kind = "Create" =>
              /\ Len(q) >= 2 /\ q[2].kind = "MigrateBind" /\ q[2].dep = q[1].dep
              /\ q[2].node \in Node
  <2> SUFFICES ASSUME q[1].kind = "Create"
               PROVE  /\ Len(q) >= 2 /\ q[2].kind = "MigrateBind" /\ q[2].dep = q[1].dep
                      /\ q[2].node \in Node
    OBVIOUS
  <2>1. 1 < Len(q) /\ q[2].kind = "MigrateBind" /\ q[2].dep = q[1].dep
    BY <1>3, <1>4
  <2>2. 2 \in 1..Len(q)
    BY <1>1, <2>1
  <2> QED
    BY <1>1, <1>2, <2>1, <2>2 DEF WellFormed
<1>7. q[1].kind \in {"MigrateBind", "Bind"} =>
              /\ q[1].node \in Node
              /\ Len(q) > 1 => q[2].kind \in {"Delete", "Bind"}
  <2> SUFFICES ASSUME q[1].kind \in {"MigrateBind", "Bind"}
               PROVE  /\ q[1].node \in Node
                      /\ Len(q) > 1 => q[2].kind \in {"Delete", "Bind"}
    OBVIOUS
  <2>1. q[1].node \in Node
    BY <1>2, <1>4 DEF WellFormed
  <2>2. ASSUME Len(q) > 1
        PROVE  q[2].kind \in {"Delete", "Bind"}
    <3>1. 2 \in 1..Len(q)
      BY <1>1, <2>2
    <3>2. q[2].kind \in {"Delete", "Create", "MigrateBind", "Bind"}
      BY <1>2, <3>1 DEF Element, Kinds
    <3>3. q[2].kind # "Create" /\ q[2].kind # "MigrateBind"
      BY <1>3, <3>1
    <3> QED
      BY <3>2, <3>3
  <2> QED
    BY <2>1, <2>2
<1> QED
  BY <1>1, <1>2, <1>4, <1>5, <1>6, <1>7

(* The step that is due for a good plan; a plan can begin with a placement *)
(* or a move, and then as many events as that waits for are left.          *)
LEMMA DueStep ==
  ASSUME NEW q, GoodPlan(q), q # <<>>
  PROVE  /\ Step(q) # Nil
         /\ q[1].kind = "Bind" => Step(q) \in Protocol!Placing /\ Step(q).stage = "placing"
         /\ q[1].kind = "Delete" => Step(q) \in Protocol!Moving /\ Step(q).stage = "deleting"
         /\ q[1].kind = "Create" => Step(q) \in Protocol!Moving /\ Step(q).stage = "awaiting"
         /\ q[1].kind = "MigrateBind" => Step(q) \in Protocol!Moving /\ Step(q).stage = "binding"
         /\ q[1].kind \in {"Bind", "Delete"} =>
              Step(q) \in Protocol!First /\ Len(q) >= Protocol!Waits(Step(q))
<1>1. q[1] \in Element /\ WellFormed(q[1]) /\ q[1].dep \in Deployment /\ q[1].kind \in Kinds
  BY HeadOfPlan DEF Element
<1>2. CASE q[1].kind = "Bind"
  <2>1. Id(q[1].obj) \in Pod /\ q[1].node \in Node
    BY <1>1, <1>2, PodObjType DEF WellFormed
  <2>2. Step(q) = [stage |-> "placing", pod |-> Id(q[1].obj), node |-> q[1].node]
    BY <1>2, StepOf
  <2>3. Step(q) \in Protocol!Placing /\ Step(q).stage = "placing"
    BY <2>1, <2>2 DEF Protocol!Placing
  <2> QED
    BY <1>2, <2>3, HeadOfPlan, NilIsNoStep DEF Protocol!First, Protocol!Waits
<1>3. CASE q[1].kind = "Delete"
  <2>1. q[3].node \in Node /\ Len(q) >= 3
    BY <1>3, HeadOfPlan
  <2>2. Step(q) = [stage |-> "deleting", dep |-> q[1].dep, node |-> q[3].node]
    BY <1>3, StepOf
  <2>3. Step(q) \in Protocol!Moving /\ Step(q) \in Protocol!First /\ Step(q).stage = "deleting"
    BY <1>1, <2>1, <2>2 DEF Protocol!Moving, Protocol!First
  <2> QED
    BY <1>3, <2>1, <2>3, NilIsNoStep DEF Protocol!Waits
<1>4. CASE q[1].kind = "Create"
  <2>1. q[2].node \in Node
    BY <1>4, HeadOfPlan
  <2>2. Step(q) = [stage |-> "awaiting", dep |-> q[1].dep, node |-> q[2].node]
    BY <1>4, StepOf
  <2>3. Step(q) \in Protocol!Moving /\ Step(q).stage = "awaiting"
    BY <1>1, <2>1, <2>2 DEF Protocol!Moving
  <2> QED
    BY <1>4, <2>3, NilIsNoStep
<1>5. CASE q[1].kind = "MigrateBind"
  <2>1. q[1].node \in Node
    BY <1>5, HeadOfPlan
  <2>2. Step(q) = [stage |-> "binding", dep |-> q[1].dep, node |-> q[1].node]
    BY <1>5, StepOf
  <2>3. Step(q) \in Protocol!Moving /\ Step(q).stage = "binding"
    BY <1>1, <2>1, <2>2 DEF Protocol!Moving
  <2> QED
    BY <1>5, <2>3, NilIsNoStep
<1> QED
  BY <1>1, <1>2, <1>3, <1>4, <1>5 DEF Kinds

(* When the head is popped, a move goes on to its next stage, and after a  *)
(* placement or a move another one begins, if anything is left.            *)
LEMMA NextStep ==
  ASSUME NEW q, GoodPlan(q), q # <<>>
  PROVE  LET t == Tail(q) IN
         /\ GoodPlan(t) /\ Len(t) = Len(q) - 1
         /\ Len(q) > 1 => t # <<>> /\ t[1] = q[2]
         /\ Len(q) = 1 => t = <<>>
         /\ q[1].kind = "Delete" =>
              t # <<>> /\ t[1].kind = "Create" /\ Step(t) = [Step(q) EXCEPT !.stage = "awaiting"]
         /\ q[1].kind = "Create" =>
              t # <<>> /\ t[1].kind = "MigrateBind" /\ Step(t) = [Step(q) EXCEPT !.stage = "binding"]
         /\ q[1].kind \in {"MigrateBind", "Bind"} => t = <<>> \/ t[1].kind \in {"Delete", "Bind"}
<1> DEFINE t == Tail(q)
<1>1. GoodPlan(t)
  BY TailPlan
<1>2. q \in Seq(Element) /\ Len(q) \in Nat /\ Len(q) >= 1
  BY HeadOfPlan
<1>3. t \in Seq(Element) /\ Len(t) = Len(q) - 1 /\ \A i \in 1..Len(t) : t[i] = q[i + 1]
  BY <1>2
<1>4. t = <<>> <=> Len(q) = 1
  <2>1. t \in Seq(Element) /\ Len(t) = Len(q) - 1
    BY <1>3
  <2> HIDE DEF t
  <2>2. t = <<>> <=> Len(t) = 0
    BY ONLY <2>1, EmptySeq
  <2> QED
    BY ONLY <1>2, <2>1, <2>2
<1>5. Len(q) > 1 => t # <<>> /\ t[1] = q[2]
  BY <1>2, <1>3, <1>4
<1>6. Len(q) > 2 => t[2] = q[3]
  BY <1>2, <1>3
<1> HIDE DEF t
<1>7. q[1].kind = "Delete" =>
        t # <<>> /\ t[1].kind = "Create" /\ Step(t) = [Step(q) EXCEPT !.stage = "awaiting"]
  <2> SUFFICES ASSUME q[1].kind = "Delete"
               PROVE  t # <<>> /\ t[1].kind = "Create" /\ Step(t) = [Step(q) EXCEPT !.stage = "awaiting"]
    OBVIOUS
  <2>1. Len(q) >= 3 /\ q[2].kind = "Create" /\ q[2].dep = q[1].dep
    BY HeadOfPlan
  <2>2. t # <<>> /\ t[1] = q[2] /\ t[2] = q[3]
    BY <1>2, <1>5, <1>6, <2>1
  <2>3. Step(q) = [stage |-> "deleting", dep |-> q[1].dep, node |-> q[3].node]
    BY StepOf
  <2>4. Step(t) = [stage |-> "awaiting", dep |-> q[1].dep, node |-> q[3].node]
    BY <2>1, <2>2, StepOf
  <2> QED
    BY <2>1, <2>2, <2>3, <2>4
<1>8. q[1].kind = "Create" =>
        t # <<>> /\ t[1].kind = "MigrateBind" /\ Step(t) = [Step(q) EXCEPT !.stage = "binding"]
  <2> SUFFICES ASSUME q[1].kind = "Create"
               PROVE  t # <<>> /\ t[1].kind = "MigrateBind" /\ Step(t) = [Step(q) EXCEPT !.stage = "binding"]
    OBVIOUS
  <2>1. Len(q) >= 2 /\ q[2].kind = "MigrateBind" /\ q[2].dep = q[1].dep
    BY HeadOfPlan
  <2>2. t # <<>> /\ t[1] = q[2]
    BY <1>2, <1>5, <2>1
  <2>3. Step(q) = [stage |-> "awaiting", dep |-> q[1].dep, node |-> q[2].node]
    BY StepOf
  <2>4. Step(t) = [stage |-> "binding", dep |-> q[1].dep, node |-> q[2].node]
    BY <2>1, <2>2, StepOf
  <2> QED
    BY <2>1, <2>2, <2>3, <2>4
<1>9. q[1].kind \in {"MigrateBind", "Bind"} => t = <<>> \/ t[1].kind \in {"Delete", "Bind"}
  <2>1. q[1].kind \in {"MigrateBind", "Bind"} /\ Len(q) > 1 => q[2].kind \in {"Delete", "Bind"}
    BY HeadOfPlan
  <2>2. t # <<>> => Len(q) > 1
    BY <1>2, <1>4
  <2> QED
    BY <1>5, <2>1, <2>2
<1> QED
  BY <1>1, <1>3, <1>4, <1>5, <1>7, <1>8, <1>9 DEF t

-----------------------------------------------------------------------------
(* The bindings that the API server sees.                                  *)

(* A change of one pod changes the binding of that pod only.               *)
LEMMA Rebound ==
  ASSUME api \in [Pod -> ApiPod], NEW p \in Pod, NEW a, NEW n, a.node = n,
         api' = [api EXCEPT ![p] = a]
  PROVE  BoundByUs' = [BoundByUs EXCEPT ![p] = IF n \in Node THEN n ELSE Nil]
  BY DEF BoundByUs

(* A binding that is served binds an unbound pod, one that fails may have  *)
(* been served.                                                            *)
LEMMA DeployBinds ==
  ASSUME KubernetesTypeOK, podIdToName \subseteq Pod, NEW p, NEW n \in Node, NEW ok, Deploy(p, n, ok)
  PROVE  \/ p \in Pod /\ Protocol!BindOne(p, n)
         \/ ~ok /\ UNCHANGED BoundByUs
<1>1. CASE p \in podIdToName
  <2>1. p \in Pod /\ Bind(p, n, ok)
    BY <1>1 DEF Deploy
  <2>2. CASE ~ok /\ UNCHANGED api
    BY <2>2 DEF BoundByUs
  <2>3. CASE Unbound(p) /\ Change("Modified", p, [phase |-> "Pending", node |-> n])
    <3>1. api' = [api EXCEPT ![p] = [phase |-> "Pending", node |-> n]]
      BY <2>3 DEF Change
    <3>2. BoundByUs' = [BoundByUs EXCEPT ![p] = IF n \in Node THEN n ELSE Nil]
      <4>1. [phase |-> "Pending", node |-> n].node = n
        OBVIOUS
      <4>2. api \in [Pod -> ApiPod]
        BY DEF KubernetesTypeOK
      <4> QED
        BY ONLY <2>1, <3>1, <4>1, <4>2, Rebound
    <3>3. BoundByUs[p] = Nil
      BY <2>1, <2>3 DEF BoundByUs, Unbound
    <3> QED
      BY <2>1, <3>2, <3>3 DEF Protocol!BindOne
  <2> QED
    BY <2>1, <2>2, <2>3 DEF Bind, Served
<1>2. CASE p \notin podIdToName
  BY <1>2 DEF Deploy, kubernetesVars, BoundByUs
<1> QED
  BY <1>1, <1>2

(* A deletion that is served releases the pod, one that fails may have     *)
(* been served.                                                            *)
LEMMA DeleteReleases ==
  ASSUME KubernetesTypeOK, podIdToName \subseteq Pod, NEW p, NEW ok, DeletePod(p, ok)
  PROVE  \/ p \in Pod /\ Protocol!Release(p)
         \/ ~ok /\ UNCHANGED BoundByUs
<1>1. CASE p \in podIdToName
  <2>1. p \in Pod /\ Delete(p, ok)
    BY <1>1 DEF DeletePod
  <2>2. CASE ~ok /\ UNCHANGED api
    BY <2>2 DEF BoundByUs
  <2>3. CASE Change("Deleted", p, [phase |-> "Gone", node |-> Nil])
    <3>1. api' = [api EXCEPT ![p] = [phase |-> "Gone", node |-> Nil]]
      BY <2>3 DEF Change
    <3>2. BoundByUs' = [BoundByUs EXCEPT ![p] = IF Nil \in Node THEN Nil ELSE Nil]
      <4>1. [phase |-> "Gone", node |-> Nil].node = Nil
        OBVIOUS
      <4>2. api \in [Pod -> ApiPod]
        BY DEF KubernetesTypeOK
      <4> QED
        BY ONLY <2>1, <3>1, <4>1, <4>2, Rebound
    <3> QED
      BY <2>1, <3>2 DEF Protocol!Release
  <2> QED
    BY <2>1, <2>2, <2>3 DEF Delete, Served
<1>2. CASE p \notin podIdToName
  BY <1>2 DEF DeletePod, kubernetesVars, BoundByUs
<1> QED
  BY <1>1, <1>2

(* The call of a plan's first element is that of the step it stands for.   *)
LEMMA DoCalls ==
  ASSUME KubernetesTypeOK, podIdToName \subseteq Pod, NEW q, GoodPlan(q), q # <<>>,
         NEW o, q[1].kind = "MigrateBind" => Dep(o) = q[1].dep,
         NEW c, NEW ok, Do(q[1], o, c, ok)
  PROVE  \/ Protocol!Call(Step(q))
         \/ ~ok /\ UNCHANGED BoundByUs
<1> DEFINE e == q[1]
<1>1. WellFormed(e) /\ e.kind \in Kinds
  BY HeadOfPlan DEF Element
<1>2. CASE e.kind = "Delete"
  <2>1. Step(q).stage = "deleting" /\ Step(q).dep = e.dep /\ e.dep = DeploymentOf[Id(e.obj)]
    BY <1>1, <1>2, StepOf DEF WellFormed, Dep, Id
  <2>2. CASE ~ok /\ UNCHANGED kubernetesVars
    BY <2>2 DEF kubernetesVars, BoundByUs
  <2>3. CASE DeletePod(Id(e.obj), ok)
    BY <2>1, <2>3, DeleteReleases DEF Protocol!Call
  <2> QED
    BY <1>2, <2>2, <2>3 DEF Do
<1>3. CASE e.kind = "Create"
  <2>1. Step(q).stage = "awaiting"
    BY <1>3, StepOf
  <2>2. UNCHANGED BoundByUs
    BY <1>3 DEF Do, kubernetesVars, BoundByUs
  <2> QED
    BY <2>1, <2>2 DEF Protocol!Call
<1>4. CASE e.kind = "MigrateBind"
  <2>1. /\ Step(q).stage = "binding" /\ Step(q).dep = DeploymentOf[Id(o)]
        /\ Step(q).node = e.node /\ e.node \in Node
    BY <1>1, <1>4, StepOf DEF WellFormed, Dep, Id
  <2>2. Deploy(Id(o), e.node, ok)
    BY <1>4 DEF Do
  <2> QED
    BY <2>1, <2>2, DeployBinds DEF Protocol!Call
<1>5. CASE e.kind = "Bind"
  <2>1. /\ Step(q).stage = "placing" /\ Step(q).pod = Id(e.obj)
        /\ Step(q).node = e.node /\ e.node \in Node
    BY <1>1, <1>5, StepOf DEF WellFormed
  <2>2. Deploy(Id(e.obj), e.node, ok)
    BY <1>5 DEF Do
  <2> QED
    BY <2>1, <2>2, DeployBinds DEF Protocol!Call
<1> QED
  BY <1>1, <1>2, <1>3, <1>4, <1>5 DEF Kinds
-----------------------------------------------------------------------------
(* Each step of the scheduler is a step of the protocol, or a stutter.     *)

(* What the queue of IInv is.                                              *)
LEMMA QueueGood ==
  ASSUME IInv
  PROVE  GoodPlan(expectations) /\ KubernetesTypeOK /\ podIdToName \subseteq Pod
  BY DEF IInv, PlanOK, PlanTypeOK, OneKindOfPlan, MovesAreWhole, GoodPlan, ConnectorTypeOK

(* The step due after a step is that of the queue after it.                *)
LEMMA StepPrimed == Step(expectations)' = Step(expectations') /\ Len(expectations)' = Len(expectations')
  BY DEF Step, Id

(* Popping the head and calling for the next element is an advance of the  *)
(* move under way, or the beginning of what the plan holds next.           *)
LEMMA PopAdvances ==
  ASSUME IInv, expectations # <<>>, expectations' = Tail(expectations),
         \/ Len(expectations) = 1 /\ UNCHANGED BoundByUs
         \/ Len(expectations) > 1 /\ Protocol!Call(Step(Tail(expectations)))
  PROVE  Protocol!Next
<1> DEFINE q == expectations
           t == Tail(q)
<1>1. GoodPlan(q) /\ q # <<>>
  BY QueueGood
<1>2. /\ GoodPlan(t) /\ Len(t) = Len(q) - 1 /\ Len(q) \in Nat
      /\ Step(q)' = Step(t) /\ Len(q)' = Len(q) - 1
  BY <1>1, NextStep, HeadOfPlan, StepPrimed
<1>3. Step(q) # Nil
  BY <1>1, DueStep
<1>4. q[1].kind \in Kinds
  BY <1>1, HeadOfPlan DEF Element
<1>5. CASE q[1].kind \in {"Delete", "Create"}
  <2>1. Step(q) \in Protocol!Moving
    BY <1>1, <1>5, DueStep
  <2>2. \/ Step(q).stage = "deleting" /\ Step(t) = [Step(q) EXCEPT !.stage = "awaiting"]
        \/ Step(q).stage = "awaiting" /\ Step(t) = [Step(q) EXCEPT !.stage = "binding"]
    BY <1>1, <1>5, DueStep, NextStep
  <2>3. Len(q) # 1
    BY <1>1, <1>2, <1>5, NextStep
  <2> QED
    BY <1>2, <2>1, <2>2, <2>3 DEF Protocol!Next, Protocol!Advance
<1>6. CASE q[1].kind \in {"Bind", "MigrateBind"}
  <2>1. Step(q).stage \in {"placing", "binding"}
    BY <1>1, <1>6, DueStep
  <2>2. CASE Len(q) = 1
    <3>1. Step(t) = Nil
      BY <1>1, <2>2, NextStep, StepOfNothing
    <3> QED
      BY <1>2, <1>3, <2>1, <2>2, <3>1 DEF Protocol!Next, Protocol!Continue
  <2>3. CASE Len(q) > 1
    <3>1. t # <<>> /\ t[1].kind \in {"Delete", "Bind"}
      BY <1>1, <1>6, <2>3, NextStep
    <3>2. Step(t) \in Protocol!First /\ Len(t) >= Protocol!Waits(Step(t))
      BY <1>2, <3>1, DueStep
    <3>3. Len(q) > 1 /\ Protocol!Call(Step(t))
      BY <2>3
    <3>4. Step(q)' \in Protocol!First /\ Len(q)' >= Protocol!Waits(Step(q)') /\ Protocol!Call(Step(q)')
      <4>1. Step(q)' = Step(t) /\ Len(q)' = Len(t)
        BY <1>2
      <4> HIDE DEF q, t
      <4> QED
        BY ONLY <3>2, <3>3, <4>1
    <3>5. Protocol!Continue
      <4>1. Len(q)' = Len(q) - 1
        BY <1>2
      <4> QED
        BY ONLY <1>3, <2>1, <3>3, <3>4, <4>1 DEF Protocol!Continue
    <3> QED
      BY ONLY <3>5 DEF Protocol!Next
  <2> QED
    BY <2>2, <2>3
<1> QED
  BY <1>4, <1>5, <1>6 DEF Kinds

(* Where neither the queue nor the cluster changes, nothing does.          *)
LEMMA NothingDone ==
  ASSUME UNCHANGED <<expectations, api>>
  PROVE  UNCHANGED protocolVars
<1>1. UNCHANGED BoundByUs
  BY DEF BoundByUs
<1>2. Step(expectations)' = Step(expectations) /\ Len(expectations)' = Len(expectations)
  BY StepPrimed
<1> QED
  BY <1>1, <1>2 DEF protocolVars

(* Dropping the queue and leaving the cluster alone.                       *)
LEMMA QueueDropped ==
  ASSUME IInv, expectations' = <<>>, UNCHANGED BoundByUs
  PROVE  Protocol!Next \/ UNCHANGED protocolVars
<1>1. CASE expectations = <<>>
  <2>1. UNCHANGED expectations
    BY <1>1
  <2> QED
    BY <2>1, StepPrimed DEF protocolVars
<1>2. CASE expectations # <<>>
  <2>1. Step(expectations) # Nil
    BY <1>2, QueueGood, DueStep
  <2>2. Step(expectations)' = Nil /\ Len(expectations)' = 0
    BY StepPrimed, StepOfNothing
  <2> QED
    BY <2>1, <2>2 DEF Protocol!Next, Protocol!Drop
<1> QED
  BY <1>1, <1>2

(* A plan is queued: its first call succeeds, or fails and may have been   *)
(* served.                                                                 *)
LEMMA PlanBegins ==
  ASSUME IInv, expectations = <<>>, NEW plan, GoodPlan(plan), StartsAfresh(plan),
         NEW going, NEW expected, SchedulePlan(plan, going, expected)
  PROVE  Protocol!Next \/ UNCHANGED protocolVars
<1>1. CASE plan = <<>>
  BY <1>1, NothingDone DEF SchedulePlan, kubernetesVars
<1>2. CASE plan # <<>>
  <2>1. PICK ok \in BOOLEAN :
          /\ Do(plan[1], Nil, clusterState, ok)
          /\ expectations' = (IF ok THEN expectations ELSE <<>>) \o plan
    BY <1>2 DEF SchedulePlan
  <2>2. plan \in Seq(Element)
    BY DEF GoodPlan, IsPlan
  <2>3. expectations' = plan
    BY <2>1, <2>2
  <2>4. plan[1].kind \in {"Bind", "Delete"}
    BY <1>2 DEF StartsAfresh
  <2>5. Protocol!Call(Step(plan)) \/ UNCHANGED BoundByUs
    BY <1>2, <2>1, <2>4, QueueGood, DoCalls
  <2>6. Step(plan) \in Protocol!First /\ Len(plan) >= Protocol!Waits(Step(plan))
    BY <1>2, <2>4, DueStep
  <2>7. Step(expectations) = Nil /\ Step(expectations)' = Step(plan) /\ Len(expectations)' = Len(plan)
    BY <2>3, StepOfNothing, StepPrimed
  <2> QED
    BY <2>5, <2>6, <2>7 DEF Protocol!Next, Protocol!Begin
<1> QED
  BY <1>1, <1>2

(* The cluster itself binds no pod to a node of ours.                      *)
LEMMA WorldReleases ==
  ASSUME IInv, World
  PROVE  Protocol!Next \/ UNCHANGED protocolVars
<1>1. api \in [Pod -> ApiPod] /\ UNCHANGED expectations /\ ClusterChange
  BY DEF IInv, KubernetesTypeOK, World, schedulerVars, planVars
<1>2. PICK p \in Pod : \/ CreatePod(p) \/ StartPod(p) \/ FinishPod(p)
                       \/ DisruptPod(p) \/ BindForeign(p) \/ UpdatePod(p)
  BY <1>1 DEF ClusterChange
<1>3. Step(expectations)' = Step(expectations) /\ Len(expectations)' = Len(expectations)
  BY <1>1, StepPrimed
<1>4. ASSUME NEW a, a.node = api[p].node, api' = [api EXCEPT ![p] = a]
      PROVE  Protocol!Next \/ UNCHANGED protocolVars
  <2>1. BoundByUs' = [BoundByUs EXCEPT ![p] = IF api[p].node \in Node THEN api[p].node ELSE Nil]
    BY ONLY <1>1, <1>4, Rebound
  <2>2. UNCHANGED BoundByUs
    BY <2>1 DEF BoundByUs
  <2> QED
    BY <1>3, <2>2 DEF protocolVars
<1>5. ASSUME NEW a, NEW n, n \notin Node, a.node = n, api' = [api EXCEPT ![p] = a]
      PROVE  Protocol!Next
  <2>1. BoundByUs' = [BoundByUs EXCEPT ![p] = IF n \in Node THEN n ELSE Nil]
    BY ONLY <1>1, <1>5, Rebound
  <2>2. Protocol!Release(p)
    BY <1>5, <2>1 DEF Protocol!Release
  <2> QED
    BY <1>3, <2>2 DEF Protocol!Next, Protocol!Disappear
<1>6. Nil \notin Node
  BY NodesAreDistinct DEF Node
<1>7. CASE CreatePod(p)
  BY <1>5, <1>6, <1>7 DEF CreatePod, Change
<1>8. CASE DisruptPod(p)
  BY <1>5, <1>6, <1>8 DEF DisruptPod, Change
<1>9. CASE BindForeign(p)
  BY <1>5, <1>9, ForeignIsForeign DEF BindForeign, Change
<1>10. api[p] \in ApiPod
  BY <1>1
<1>11. CASE StartPod(p)
  BY <1>4, <1>10, <1>11 DEF StartPod, Change, ApiPod
<1>12. CASE FinishPod(p)
  BY <1>4, <1>10, <1>12 DEF FinishPod, Change, ApiPod
<1>13. CASE UpdatePod(p)
  BY <1>4, <1>13 DEF UpdatePod, Change
<1> QED
  BY <1>2, <1>7, <1>8, <1>9, <1>11, <1>12, <1>13

(* What an awaited event does to the queue is to pop it, and the call that *)
(* follows is that of the next step.                                       *)
LEMMA ExpectedAdvances ==
  ASSUME IInv, HandleExpected
  PROVE  Protocol!Next
<1> DEFINE t == Tail(expectations)
<1>1. expectations # <<>> /\ IsValid(expectations[1], event) /\ expectations' = t
  BY DEF HandleExpected, Expected, NextExpectation, Popped
<1>2. PICK r \in After(expectations[1], event.obj, clusterState) :
        IF Len(expectations) = 1 THEN UNCHANGED <<kubernetesVars, podIdToName>>
        ELSE Do(expectations[2], event.obj, r.cs, TRUE)
  BY DEF HandleExpected
<1>3. Len(expectations) # 1 => Len(expectations) > 1
  <2>1. Len(expectations) \in Nat /\ Len(expectations) >= 1
    BY <1>1, QueueGood, HeadOfPlan
  <2>2. \A n \in Nat : n >= 1 /\ n # 1 => n > 1
    OBVIOUS
  <2> QED
    BY <2>1, <2>2
<1>4. CASE Len(expectations) = 1
  <2>1. UNCHANGED BoundByUs
    BY <1>2, <1>4 DEF kubernetesVars, BoundByUs
  <2> QED
    BY <1>1, <1>4, <2>1, PopAdvances
<1>5. CASE Len(expectations) # 1
  <2>1. /\ GoodPlan(t) /\ t # <<>> /\ t[1] = expectations[2]
        /\ t[1].kind = "MigrateBind" => expectations[1].kind = "Create"
    <3>1. expectations[1].kind \in Kinds
      BY <1>1, QueueGood, HeadOfPlan DEF Element
    <3> QED
      BY <1>1, <1>3, <1>5, <3>1, QueueGood, NextStep DEF Kinds
  <2>2. t[1].kind = "MigrateBind" => Dep(event.obj) = t[1].dep
    <3> SUFFICES ASSUME t[1].kind = "MigrateBind"
                 PROVE  Dep(event.obj) = t[1].dep
      OBVIOUS
    <3>1. expectations[1].dep = Dep(event.obj)
      BY <1>1, <2>1 DEF IsValid
    <3>2. expectations[2].dep = expectations[1].dep
      BY <1>1, <2>1, QueueGood, HeadOfPlan
    <3> QED
      BY <2>1, <3>1, <3>2
  <2>3. Do(t[1], event.obj, r.cs, TRUE)
    BY <1>2, <1>5, <2>1
  <2> HIDE DEF t
  <2>4. Protocol!Call(Step(t))
    BY <2>1, <2>2, <2>3, QueueGood, DoCalls
  <2> QED
    BY <1>1, <1>3, <1>5, <2>4, PopAdvances DEF t
<1> QED
  BY <1>4, <1>5

(* The queue is dropped after a call that failed: the call of the next     *)
(* step, which may have been served.                                       *)
LEMMA CallDrops ==
  ASSUME IInv, expectations # <<>>, Len(expectations) > 1, expectations' = <<>>,
         \/ Protocol!Call(Step(Tail(expectations)))
         \/ UNCHANGED BoundByUs
  PROVE  Protocol!Next
<1> DEFINE q == expectations
           t == Tail(q)
<1>1. GoodPlan(q) /\ GoodPlan(t) /\ t # <<>> /\ q[1].kind \in Kinds
  BY QueueGood, NextStep, HeadOfPlan DEF Element
<1>2. Step(q) # Nil /\ Step(q)' = Nil /\ Len(q)' = 0
  BY <1>1, DueStep, StepPrimed, StepOfNothing
<1>3. CASE UNCHANGED BoundByUs
  BY <1>2, <1>3 DEF Protocol!Next, Protocol!Drop
<1>4. CASE Protocol!Call(Step(t)) /\ q[1].kind = "Delete"
  <2>1. Step(t).stage = "awaiting"
    BY <1>1, <1>4, NextStep, DueStep
  <2>2. UNCHANGED BoundByUs
    BY <1>4, <2>1 DEF Protocol!Call
  <2> QED
    BY <1>3, <2>2
<1>5. CASE Protocol!Call(Step(t)) /\ q[1].kind = "Create"
  <2>1. Step(q).stage = "awaiting" /\ Step(t) = [Step(q) EXCEPT !.stage = "binding"]
    BY <1>1, <1>5, NextStep, DueStep
  <2> QED
    BY <1>2, <1>5, <2>1 DEF Protocol!Next, Protocol!Drop
<1>6. CASE Protocol!Call(Step(t)) /\ q[1].kind \in {"Bind", "MigrateBind"}
  <2>1. Step(q).stage \in {"placing", "binding"}
    BY <1>1, <1>6, DueStep
  <2>2. t[1].kind \in {"Delete", "Bind"}
    BY <1>1, <1>6, NextStep
  <2>3. Step(t) \in Protocol!First
    BY <1>1, <2>2, DueStep
  <2> QED
    BY <1>2, <1>6, <2>1, <2>3 DEF Protocol!Next, Protocol!Drop
<1> QED
  BY <1>1, <1>3, <1>4, <1>5, <1>6 DEF Kinds

(* An awaited event whose consequences fail.                               *)
LEMMA FailedDrops ==
  ASSUME IInv, HandleFailed
  PROVE  Protocol!Next \/ UNCHANGED protocolVars
<1> DEFINE t == Tail(expectations)
<1>1. expectations # <<>> /\ IsValid(expectations[1], event)
  BY DEF HandleFailed, Expected
<1>2. PICK r \in After(expectations[1], event.obj, clusterState) :
        /\ IF r.ok THEN Len(expectations) > 1 /\ Do(expectations[2], event.obj, r.cs, FALSE)
           ELSE UNCHANGED <<kubernetesVars, podIdToName>>
        /\ Switch(r.cs, TRUE)
  BY DEF HandleFailed
<1>3. expectations' = <<>>
  BY <1>2 DEF Switch, FlushAndSchedule, Flush
<1>4. CASE ~r.ok
  <2>1. UNCHANGED BoundByUs
    BY <1>2, <1>4 DEF kubernetesVars, BoundByUs
  <2> QED
    BY <1>3, <2>1, QueueDropped
<1>5. CASE r.ok
  <2>1. /\ GoodPlan(t) /\ t # <<>> /\ t[1] = expectations[2]
        /\ t[1].kind = "MigrateBind" => expectations[1].kind = "Create"
    <3>1. expectations[1].kind \in Kinds
      BY <1>1, QueueGood, HeadOfPlan DEF Element
    <3> QED
      BY <1>1, <1>2, <1>5, <3>1, QueueGood, NextStep DEF Kinds
  <2>2. t[1].kind = "MigrateBind" => Dep(event.obj) = t[1].dep
    <3> SUFFICES ASSUME t[1].kind = "MigrateBind"
                 PROVE  Dep(event.obj) = t[1].dep
      OBVIOUS
    <3>1. expectations[1].dep = Dep(event.obj)
      BY <1>1, <2>1 DEF IsValid
    <3>2. expectations[2].dep = expectations[1].dep
      BY <1>1, <2>1, QueueGood, HeadOfPlan
    <3> QED
      BY <2>1, <3>1, <3>2
  <2>3. Do(t[1], event.obj, r.cs, FALSE)
    BY <1>2, <1>5, <2>1
  <2> HIDE DEF t
  <2>4. Protocol!Call(Step(t)) \/ UNCHANGED BoundByUs
    BY <2>1, <2>2, <2>3, QueueGood, DoCalls
  <2> QED
    BY <1>1, <1>2, <1>3, <1>5, <2>4, CallDrops DEF t
<1> QED
  BY <1>4, <1>5

(* The creation that a move waits for is found in the buffer.              *)
LEMMA MatchAdvances ==
  ASSUME IInv, MatchPending
  PROVE  Protocol!Next
<1> DEFINE t == Tail(expectations)
<1>1. PICK i \in DOMAIN newPodBuffer, ok \in BOOLEAN :
        /\ FirstAwaited(i)
        /\ Do(expectations[2], newPodBuffer[i], clusterState, ok)
        /\ IF ok THEN Popped /\ newPodBuffer' = WithoutBuffered(i)
           ELSE Flush /\ UNCHANGED newPodBuffer
  BY DEF MatchPending
<1>2. /\ expectations # <<>> /\ expectations[1].kind = "Create"
      /\ expectations[1].dep = Dep(newPodBuffer[i])
  BY <1>1 DEF MatchPending, CanMatch, FirstAwaited, Awaited
<1>3. Len(expectations) > 1 /\ expectations[2].dep = expectations[1].dep
  <2>1. Len(expectations) \in Nat /\ Len(expectations) >= 2 /\ expectations[2].dep = expectations[1].dep
    BY <1>2, QueueGood, HeadOfPlan
  <2> QED
    BY <2>1
<1>4. GoodPlan(t) /\ t # <<>> /\ t[1] = expectations[2]
  BY <1>2, <1>3, QueueGood, NextStep
<1>5. Do(t[1], newPodBuffer[i], clusterState, ok) /\ Dep(newPodBuffer[i]) = t[1].dep
  BY <1>1, <1>2, <1>3, <1>4
<1> HIDE DEF t
<1>6. Protocol!Call(Step(t)) \/ (~ok /\ UNCHANGED BoundByUs)
  BY <1>4, <1>5, QueueGood, DoCalls
<1>7. CASE ok
  BY <1>1, <1>2, <1>3, <1>6, <1>7, PopAdvances DEF t, Popped
<1>8. CASE ~ok
  BY <1>1, <1>2, <1>3, <1>6, <1>8, CallDrops DEF t, Flush
<1> QED
  BY <1>7, <1>8

(* Every other step leaves the queue and the cluster alone, or drops the   *)
(* queue.                                                                  *)
LEMMA OthersDrop ==
  ASSUME IInv, [Next]_vars,
         ~World, ~HandleExpected, ~HandleFailed, ~MatchPending, ~PlaceBatch, ~CheckSuggestion
  PROVE  \/ UNCHANGED <<expectations, api>>
         \/ expectations' = <<>> /\ UNCHANGED api
<1>1. CASE UNCHANGED vars
  BY <1>1 DEF vars, kubernetesVars, planVars
<1>2. CASE Watch
  BY <1>2 DEF Watch, Translate, TranslateForeign, schedulerVars, planVars
<1>3. CASE ReceiveEvent \/ IgnoreEvent
  BY <1>3 DEF ReceiveEvent, IgnoreEvent, planVars, kubernetesVars
<1>4. CASE HandleUnexpected
  BY <1>4 DEF HandleUnexpected, Switch, FlushAndSchedule, Flush, planVars, kubernetesVars
<1>5. CASE ScheduleTick \/ ListPending \/ ListFails \/ NothingNew
  BY <1>5 DEF ScheduleTick, ListPending, ListFails, NothingNew, planVars, kubernetesVars
<1>6. CASE AbandonReorder
  BY <1>6 DEF AbandonReorder, Flush, kubernetesVars
<1>7. CASE MakeSuggestion \/ DropSuggestion \/ CheckHealth \/ RecoverHealth
  BY <1>7 DEF MakeSuggestion, DropSuggestion, CheckHealth, RecoverHealth, planVars, kubernetesVars
<1>8. CASE RecoverStep
  BY <1>8 DEF RecoverStep, ForgetPod, SyncList, SyncListFails, PlacePod, FinishRecovery, Flush,
              planVars, kubernetesVars
<1>9. CASE Panic \/ Crash
  BY <1>9 DEF Panic, Crash, ProcessDies, Flush
<1>10. CASE Boot \/ StartWatching
  BY <1>10 DEF Boot, StartWatching, OpenWatch, planVars, kubernetesVars
<1> QED
  BY <1>1, <1>2, <1>3, <1>4, <1>5, <1>6, <1>7, <1>8, <1>9, <1>10 DEF Next, HandleEvent, ScheduleStep

(* Every step implements a step of the protocol, or leaves it alone.       *)
LEMMA StepImplements ==
  ASSUME IInv, [Next]_vars
  PROVE  Protocol!Next \/ UNCHANGED protocolVars
<1>1. CASE World
  BY <1>1, WorldReleases
<1>2. CASE HandleExpected
  BY <1>2, ExpectedAdvances
<1>3. CASE HandleFailed
  BY <1>3, FailedDrops
<1>4. CASE MatchPending
  BY <1>4, MatchAdvances
<1>5. CASE PlaceBatch
  <2>1. expectations = <<>>
    BY <1>5 DEF PlaceBatch
  <2>2. CASE UNCHANGED <<kubernetesVars, podIdToName, planVars>>
    BY <2>2, NothingDone DEF kubernetesVars, planVars
  <2>3. ASSUME NEW plan, NEW going, GoodPlan(plan), StartsAfresh(plan),
               SchedulePlan(plan, going, expectedReorderDeployments)
        PROVE  Protocol!Next \/ UNCHANGED protocolVars
    BY <2>1, <2>3, PlanBegins
  <2> QED
    BY <1>5, <2>2, <2>3, PlaceBatchPlans
<1>6. CASE CheckSuggestion
  <2>1. expectations = <<>>
    BY <1>6 DEF CheckSuggestion, Busy
  <2>2. ASSUME NEW plan, NEW going, NEW expected, GoodPlan(plan), StartsAfresh(plan),
               SchedulePlan(plan, going, expected)
        PROVE  Protocol!Next \/ UNCHANGED protocolVars
    BY <2>1, <2>2, PlanBegins
  <2> QED
    BY <1>6, <2>2, CheckSuggestionPlans
<1>7. CASE UNCHANGED <<expectations, api>>
  BY <1>7, NothingDone
<1>8. CASE expectations' = <<>> /\ UNCHANGED api
  BY <1>8, QueueDropped DEF BoundByUs
<1> QED
  BY <1>1, <1>2, <1>3, <1>4, <1>5, <1>6, <1>7, <1>8, OthersDrop

(* The namespace at launch is one of the protocol's initial states.        *)
LEMMA InitImplements ==
  ASSUME Init
  PROVE  Protocol!Init
<1>1. Step(expectations) = Nil /\ Len(expectations) = 0
  BY StepOfNothing DEF Init
<1>2. BoundByUs \in [Pod -> Node \cup {Nil}]
  BY DEF BoundByUs
<1> QED
  BY <1>1, <1>2 DEF Protocol!Init

-----------------------------------------------------------------------------
(* The theorem.                                                            *)

(* Whatever events, ticks, failures and crashes intervene, the scheduler's *)
(* queue (expectation.go, scheduler.go:110-160, 385-411) is a PlanProtocol:*)
(* it binds pods one by one, each by the step that is due for it, and goes *)
(* through the three stages of a move with nothing else bound in between.  *)
THEOREM Refinement == Spec => ImplementsProtocol
<1>1. Init => Protocol!Init
  BY InitImplements
<1>2. IInv /\ [Next]_vars => [Protocol!Next]_(Protocol!vars)
  BY StepImplements DEF protocolVars, Protocol!vars
<1> QED
  BY <1>1, <1>2, Invariant, PTL DEF Spec, ImplementsProtocol, Protocol!Spec
=============================================================================
