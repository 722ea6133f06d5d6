------------------------------ MODULE Scheduler ------------------------------
(***************************************************************************)
(* internal/scheduler: one goroutine that selects between events, timers   *)
(* and suggestions, and drives pods to nodes by a queue of expectations:   *)
(* each expectation waits for an event and then issues the next call.      *)
(*                                                                         *)
(* A handler is cut where it calls the API server, for there the cluster   *)
(* and the watch goroutine move on; pc says where it is:                   *)
(*   select        in the select statement of Run                          *)
(*   event         an event was received, handleEvent runs                 *)
(*   list          schedule: the buffer is empty, GetPendingPods is next   *)
(*   match         schedule: looking for awaited creations in the buffer   *)
(*   batch         schedule: deciding about the buffer                     *)
(*   wipe, place   recoverHealth: SyncPods before and after its listing    *)
(*   boot, bootplace  the process (re)starts: FindDeployments, then Run    *)
(***************************************************************************)
EXTENDS KubeConnector, Placement

CONSTANTS
    CloudHead,            \* Cloud.Nodes[0]
    BatchSize,            \* config batch_size
    MaxRecoveries,        \* bound on recoveries, if they are limited at all
    LimitRecoveries,      \* BOOLEAN
    MaxCrashes            \* bound on crashes nothing in the code causes

ASSUME CloudHeadIsCloud == CloudHead \in CloudNode
ASSUME SchedulerBounds ==
    /\ BatchSize \in Nat \ {0}
    /\ MaxRecoveries \in Nat /\ LimitRecoveries \in BOOLEAN /\ MaxCrashes \in Nat

VARIABLES
    newPodBuffer,                \* Seq(PodObj)
    expectations,                \* Seq(Element)
    goingToPlace,                \* SUBSET Pod
    expectedReorderDeployments,  \* [Deployment -> Nat]
    healthCheckSample,           \* length last sampled of the queue's plan, 0 if none
    suggestion,                  \* what the suggestion goroutine offers, or Nil
    pc, event,                   \* where the goroutine is, the event it handles
    toForget, toPlace,           \* SyncPods: objects to remove, pods to place
    recoveries, crashes

planVars  == <<expectations, goingToPlace, expectedReorderDeployments, healthCheckSample>>
syncVars  == <<toForget, toPlace>>
incidents == <<recoveries, crashes>>
vars == <<kubernetesVars, connectorVars, planVars, syncVars,
          newPodBuffer, suggestion, pc, event, incidents>>

Kinds == {"Delete", "Create", "MigrateBind", "Bind"}
Types == {"PLACING", "REORDERING"}

Element == [kind : Kinds, tp : Types, obj : PodObj \cup {Nil},
            dep : Deployment, node : Node \cup {Nil}]

BindElement(o, n, tp) == [kind |-> "Bind", tp |-> tp, obj |-> o, dep |-> Dep(o), node |-> n]

(* Mutant: the target is put on the deletion, not on the binding.          *)
MoveElementsSwapped(o, n) ==
    <<[kind |-> "Delete", tp |-> "REORDERING", obj |-> o, dep |-> Dep(o), node |-> n],
      [kind |-> "Create", tp |-> "REORDERING", obj |-> Nil, dep |-> Dep(o), node |-> Nil],
      [kind |-> "MigrateBind", tp |-> "REORDERING", obj |-> Nil, dep |-> Dep(o), node |-> Nil]>>

(* Moving a pod takes three elements: delete it, await the ReplicaSet's    *)
(* replacement, bind whatever pod of the deployment shows up.              *)
MoveElements(o, n) ==
    <<[kind |-> "Delete", tp |-> "REORDERING", obj |-> o, dep |-> Dep(o), node |-> Nil],
      [kind |-> "Create", tp |-> "REORDERING", obj |-> Nil, dep |-> Dep(o), node |-> Nil],
      [kind |-> "MigrateBind", tp |-> "REORDERING", obj |-> Nil, dep |-> Dep(o), node |-> n]>>

(* Mutant: first all deletions, then all creations, then all bindings.     *)
MovesInterleaved(moves) ==
    [i \in 1..(3 * Len(moves)) |->
        LET m == moves[((i - 1) % Len(moves)) + 1]
        IN MoveElements(m.obj, m.node)[((i - 1) \div Len(moves)) + 1]]

MovesPlan(moves) ==
    [i \in 1..(3 * Len(moves)) |->
        LET m == moves[((i - 1) \div 3) + 1] IN MoveElements(m.obj, m.node)[((i - 1) % 3) + 1]]

NoneExpected == [d \in Deployment |-> 0]

(* Everything the program still points to.                                 *)
InUse ==
    {o \in PodObj : clusterState.edgePods[o] > 0 \/ clusterState.cloudPods[o] > 0
                    \/ clusterState.podsMap[Id(o)] = o}
    \cup Range(newPodBuffer)
    \cup {expectations[i].obj : i \in DOMAIN expectations}
    \cup {eventStream[i].obj : i \in DOMAIN eventStream}
    \cup (IF event = Nil THEN {} ELSE {event.obj})
    \cup toForget

-----------------------------------------------------------------------------
(* flushExpectations, the part that changes the plan.                      *)
Flush ==
    /\ expectations' = <<>>
    /\ goingToPlace' = {}
    /\ expectedReorderDeployments' = NoneExpected
    /\ healthCheckSample' = 0

(* Where schedule() starts, given the plan and the buffer it finds.        *)
Schedule(exps, buffer) ==
    pc' = IF exps # <<>> /\ exps[1].tp = "PLACING" THEN "select"
          ELSE IF buffer = <<>> THEN "list" ELSE "match"

FlushAndSchedule == Flush /\ Schedule(<<>>, newPodBuffer)

(* Mutant: one element too many is popped.                                 *)
PoppedTwice ==
    /\ expectations' = SubSeq(expectations, 3, Len(expectations))
    /\ healthCheckSample' = IF Len(expectations) <= 2 THEN 0 ELSE healthCheckSample
    /\ UNCHANGED <<goingToPlace, expectedReorderDeployments>>

(* Mutant: the marks are cleared with the last element of a plan.          *)
PoppedClearing ==
    /\ expectations' = Tail(expectations)
    /\ healthCheckSample' = IF Len(expectations) = 1 THEN 0 ELSE healthCheckSample
    /\ goingToPlace' = IF Len(expectations) = 1 THEN {} ELSE goingToPlace
    /\ UNCHANGED expectedReorderDeployments

(* nextExpectation.                                                        *)
Popped ==
    /\ expectations' = Tail(expectations)
    /\ healthCheckSample' = IF Len(expectations) = 1 THEN 0 ELSE healthCheckSample
    /\ UNCHANGED <<goingToPlace, expectedReorderDeployments>>

NextExpectation ==
    /\ Popped
    /\ IF Len(expectations) = 1 THEN Schedule(<<>>, newPodBuffer) ELSE pc' = "select"

-----------------------------------------------------------------------------
(* The closures of a plan element.                                         *)

(* Mutant: an event about the pod is taken for the one that is awaited.    *)
IsValidById(e, ev) ==
    \/ e.kind \in {"Delete", "Bind"} /\ Id(e.obj) = Id(ev.obj)
    \/ e.kind \in {"Create", "MigrateBind"} /\ e.dep = Dep(ev.obj)

IsValid(e, ev) ==
    \/ e.kind = "Delete" /\ ev.type = "POD_DELETED" /\ Id(e.obj) = Id(ev.obj)
    \/ e.kind = "Create" /\ ev.type = "POD_CREATED" /\ e.dep = Dep(ev.obj)
    \/ e.kind = "MigrateBind" /\ ev.type = "POD_CHANGED" /\ e.dep = Dep(ev.obj) /\ e.node = ev.node
    \/ e.kind = "Bind" /\ ev.type = "POD_CHANGED" /\ Id(e.obj) = Id(ev.obj) /\ e.node = ev.node

OnlyOneRunning(c, o) == c.numRunning[Dep(o)] <= 1 /\ c.status[o] = "RUNNING"

(* do: o is the pod of the event that the previous element waited for.     *)
Do(e, o, c, ok) ==
    \/ e.kind = "Delete" /\ OnlyOneRunning(c, e.obj)
       /\ ~ok /\ UNCHANGED <<kubernetesVars, podIdToName>>
    \/ e.kind = "Delete" /\ ~OnlyOneRunning(c, e.obj) /\ DeletePod(Id(e.obj), ok)
    \/ e.kind = "Create" /\ ok /\ UNCHANGED <<kubernetesVars, podIdToName>>
    \/ e.kind = "MigrateBind" /\ Deploy(Id(o), e.node, ok)
    \/ e.kind = "Bind" /\ Deploy(Id(e.obj), e.node, ok)

(* after: the cluster states it can leave, and whether it returns nil.     *)
Deployed(c, o, n) ==
    IF n \in EdgeNode THEN {[cs |-> DeployEdge(c, o, n), ok |-> Fits(c, Id(o), n)]}
    ELSE {[cs |-> DeployCloud(c, o, t), ok |-> TRUE] : t \in CloudNode}

(* Mutant: a deleted pod is not taken out of the cluster state.            *)
AfterKeepingDeleted(e, o, c) ==
    CASE e.kind \in {"Delete", "Create"} -> {[cs |-> c, ok |-> TRUE]}
      [] e.kind = "MigrateBind" -> Deployed(c, o, e.node)
      [] e.kind = "Bind" -> Deployed(c, e.obj, e.node)

After(e, o, c) ==
    CASE e.kind = "Delete" -> {[cs |-> d, ok |-> RemovePodFinds(c, e.obj)] : d \in RemovePod(c, e.obj)}
      [] e.kind = "Create" -> {[cs |-> c, ok |-> TRUE]}
      [] e.kind = "MigrateBind" -> Deployed(c, o, e.node)
      [] e.kind = "Bind" -> Deployed(c, e.obj, e.node)

AfterPanics(e, c) == e.kind = "Delete" /\ RemovePodPanics(c, e.obj)

(* schedulePlan: the plan is appended to the queue.  A failed first call   *)
(* flushes what was queued, and then the plan is queued all the same.      *)
SchedulePlan(plan, going, expected) ==
    IF plan = <<>>
    THEN /\ UNCHANGED <<kubernetesVars, podIdToName, expectations, healthCheckSample>>
         /\ goingToPlace' = going /\ expectedReorderDeployments' = expected
    ELSE /\ healthCheckSample' = 0
         /\ \E ok \in BOOLEAN :
               /\ Do(plan[1], Nil, clusterState, ok)
               /\ expectations' = (IF ok THEN expectations ELSE <<>>) \o plan
               /\ goingToPlace' = IF ok THEN going ELSE {}
               /\ expectedReorderDeployments' = IF ok THEN expected ELSE NoneExpected

-----------------------------------------------------------------------------
(* handleEvent.                                                            *)

ReceiveEvent ==
    /\ pc = "select" /\ eventStream # <<>>
    /\ event' = eventStream[1] /\ eventStream' = <<>>
    /\ pc' = "event"
    /\ UNCHANGED <<kubernetesVars, clusterState, podIdToName, planVars, syncVars,
                   newPodBuffer, suggestion, incidents>>

(* The pod is looked up again by id: it need not be the event's object.    *)
Handled == clusterState.podsMap[Id(event.obj)]

(* Mutant: a changed pod is recognised by its status only.                 *)
SameStatus ==
    /\ clusterState.status[Handled] = event.status
    /\ event.type = "POD_CHANGED" \/ (event.type = "POD_CREATED" /\ event.node # Nil)

TheSame ==
    /\ clusterState.node[Handled] = event.node /\ clusterState.status[Handled] = event.status
    /\ \/ event.type = "POD_CHANGED"
       \/ event.type = "POD_CREATED" /\ event.node # Nil

StatusChange ==
    /\ event.type = "POD_CHANGED"
    /\ clusterState.node[Handled] = event.node /\ clusterState.status[Handled] # event.status

Expected == expectations # <<>> /\ IsValid(expectations[1], event)

(* Comparing the nodes dereferences nil when the event has none.           *)
IsValidPanics ==
    /\ expectations # <<>> /\ event.type = "POD_CHANGED" /\ event.node = Nil
    /\ \/ expectations[1].kind = "Bind" /\ Id(expectations[1].obj) = Id(event.obj)
       \/ expectations[1].kind = "MigrateBind" /\ expectations[1].dep = Dep(event.obj)

IgnoreEvent ==
    /\ pc = "event"
    /\ IF Handled = Nil THEN TRUE ELSE TheSame
    /\ pc' = "select" /\ event' = Nil
    /\ UNCHANGED <<kubernetesVars, connectorVars, planVars, syncVars,
                   newPodBuffer, suggestion, incidents>>

Handling == pc = "event" /\ Handled # Nil /\ ~TheSame

HandleExpected ==
    /\ Handling /\ Expected /\ ~AfterPanics(expectations[1], clusterState)
    /\ \E r \in After(expectations[1], event.obj, clusterState) :
          /\ r.ok
          /\ clusterState' = r.cs
          /\ IF Len(expectations) = 1 THEN UNCHANGED <<kubernetesVars, podIdToName>>
             ELSE Do(expectations[2], event.obj, r.cs, TRUE)
    /\ NextExpectation
    /\ event' = Nil
    /\ UNCHANGED <<eventStream, syncVars, newPodBuffer, suggestion, incidents>>

(* The counts that the event can leave the deployment of o with.           *)
Recounted(c, o) ==
    LET count == c.numRunning[Dep(o)]
    IN IF c.status[o] = event.status THEN {count}
       ELSE IF c.status[o] = "RUNNING" THEN OneLess(count)
       ELSE IF event.status = "RUNNING" THEN {OneMore(count)} ELSE {count}

SyncStatus(c, o) ==
    {[c EXCEPT !.status[o] = event.status, !.numRunning[Dep(o)] = count] : count \in Recounted(c, o)}

(* What removing o does before it is deployed where the event says.        *)
Detached(c, o) == IF c.node[o] = Nil THEN {c} ELSE RemovePod(c, o)

SwitchPanics(c) ==
    \/ event.type = "POD_CHANGED" /\ c.node[Handled] # event.node
       /\ \/ event.node = Nil
          \/ c.node[Handled] # Nil /\ RemovePodPanics(c, Handled)
    \/ event.type = "POD_DELETED" /\ RemovePodPanics(c, Handled)

(* The switch at the end of handleEvent, on the cluster state c that the   *)
(* expectation left; flushed says that the plan was dropped on the way.    *)
Switch(c, flushed) ==
    \/ /\ event.type = "POD_CREATED"
       /\ newPodBuffer' = Append(newPodBuffer, Handled)
       /\ clusterState' = c
       /\ IF flushed THEN Flush ELSE UNCHANGED planVars
       /\ pc' = "select"
    \/ /\ event.type = "POD_CHANGED" /\ c.node[Handled] = event.node
       /\ clusterState' \in SyncStatus(c, Handled)
       /\ IF flushed THEN Flush ELSE UNCHANGED planVars
       /\ pc' = "select" /\ UNCHANGED newPodBuffer
    \/ /\ event.type = "POD_CHANGED" /\ c.node[Handled] # event.node
       /\ \E d \in Detached(c, Handled) : \E r \in Deployed(d, Handled, event.node) :
             clusterState' \in SyncStatus(r.cs, Handled)
       /\ FlushAndSchedule /\ UNCHANGED newPodBuffer
    \/ /\ event.type = "POD_DELETED"
       /\ clusterState' \in RemovePod(c, Handled)
       /\ FlushAndSchedule /\ UNCHANGED newPodBuffer

HandleUnexpected ==
    /\ Handling /\ ~Expected /\ ~IsValidPanics /\ ~SwitchPanics(clusterState)
    /\ Switch(clusterState, event.type # "POD_CREATED" /\ ~StatusChange)
    /\ event' = Nil
    /\ UNCHANGED <<kubernetesVars, podIdToName, eventStream, syncVars, suggestion, incidents>>

(* onOccurred failed, in after or in the next call: the plan is dropped    *)
(* and the switch still runs, with the pod looked up at the beginning.     *)
HandleFailed ==
    /\ Handling /\ Expected /\ ~AfterPanics(expectations[1], clusterState)
    /\ \E r \in After(expectations[1], event.obj, clusterState) :
          /\ ~SwitchPanics(r.cs)
          /\ IF r.ok THEN Len(expectations) > 1 /\ Do(expectations[2], event.obj, r.cs, FALSE)
             ELSE UNCHANGED <<kubernetesVars, podIdToName>>
          /\ Switch(r.cs, TRUE)
    /\ event' = Nil
    /\ UNCHANGED <<eventStream, syncVars, suggestion, incidents>>

-----------------------------------------------------------------------------
(* schedule.                                                               *)

ScheduleTick ==
    /\ pc = "select"
    /\ Schedule(expectations, newPodBuffer)
    /\ pc' # "select"
    /\ UNCHANGED <<kubernetesVars, connectorVars, planVars, syncVars,
                   newPodBuffer, suggestion, event, incidents>>

ListPending ==
    /\ pc = "list"
    /\ newPodBuffer' \in PendingLists(InUse)
    /\ pc' = "match"
    /\ UNCHANGED <<kubernetesVars, connectorVars, planVars, syncVars, suggestion, event, incidents>>

ListFails ==
    /\ pc = "list" /\ Fault
    /\ pc' = "select"
    /\ UNCHANGED <<api, watchq, watching, disruptions, connectorVars, planVars, syncVars,
                   newPodBuffer, suggestion, event, incidents>>

(* A creation the plan waits for may sit in the buffer.  Only a Create     *)
(* element matches one, and a MigrateBind always follows it.               *)
Awaited(i) == expectations[1].kind = "Create" /\ expectations[1].dep = Dep(newPodBuffer[i])
FirstAwaited(i) == Awaited(i) /\ \A j \in 1..(i - 1) : ~Awaited(j)
CanMatch == expectations # <<>> /\ \E i \in DOMAIN newPodBuffer : Awaited(i)

WithoutBuffered(i) ==
    [j \in 1..(Len(newPodBuffer) - 1) |->
        IF j = i THEN newPodBuffer[Len(newPodBuffer)] ELSE newPodBuffer[j]]

MatchPending ==
    /\ pc = "match" /\ CanMatch
    /\ \E i \in DOMAIN newPodBuffer, ok \in BOOLEAN :
          /\ FirstAwaited(i)
          /\ Do(expectations[2], newPodBuffer[i], clusterState, ok)
          /\ IF ok THEN Popped /\ newPodBuffer' = WithoutBuffered(i)
             ELSE Flush /\ UNCHANGED newPodBuffer
    /\ pc' = "batch"
    /\ UNCHANGED <<clusterState, eventStream, syncVars, suggestion, event, incidents>>

Deciding == pc = "batch" \/ (pc = "match" /\ ~CanMatch)

(* Mutant: pods that are being bound are not skipped.                      *)
NotGoingAnyway == {i \in DOMAIN newPodBuffer : TRUE}

(* Where the buffer holds the pods that are not being bound already, and   *)
(* the one order that keeps such places as they are.                       *)
NotGoing == {i \in DOMAIN newPodBuffer : Id(newPodBuffer[i]) \notin goingToPlace}

InOrder(I) == {q \in SetToSeqs(I) : \A i, j \in DOMAIN q : i < j => q[i] < q[j]}

CountOf(d) == Cardinality({i \in NotGoing : Dep(newPodBuffer[i]) = d})

SomeAreNew == \E d \in Deployment : CountOf(d) > expectedReorderDeployments[d]

(* Nothing new: no pod at all, or all of them part of the reordering.      *)
NothingNew ==
    /\ Deciding
    /\ NotGoing = {} \/ (expectations # <<>> /\ ~SomeAreNew)
    /\ newPodBuffer' = <<>>
    /\ pc' = "select"
    /\ UNCHANGED <<kubernetesVars, connectorVars, planVars, syncVars, suggestion, event, incidents>>

(* New pods interrupt a reordering: the plan is dropped.                   *)
AbandonReorder ==
    /\ Deciding
    /\ NotGoing # {} /\ expectations # <<>> /\ SomeAreNew
    /\ \E q \in InOrder(NotGoing) : newPodBuffer' = [k \in DOMAIN q |-> newPodBuffer[q[k]]]
    /\ Flush
    /\ pc' = "batch"
    /\ UNCHANGED <<kubernetesVars, connectorVars, syncVars, suggestion, event, incidents>>

-----------------------------------------------------------------------------
(* The rest of schedule: a batch is decided about, mapped and planned.     *)

(* The order of a plan: cloud pods first, as buffered; the edge pods come  *)
(* in the order the permutation search leaves them in.                     *)
PlanOrder(q, I) ==
    \A i, j \in DOMAIN q : i < j /\ q[j] \notin I => q[i] \notin I /\ q[i] < q[j]

(* Pods that were given no edge node go to the first cloud node.           *)
BatchPlan(batch, q, f) ==
    [i \in DOMAIN q |->
        BindElement(batch[q[i]], IF q[i] \in DOMAIN f THEN f[q[i]] ELSE CloudHead, "PLACING")]

PlaceBatch ==
    /\ Deciding
    /\ NotGoing # {} /\ expectations = <<>>
    /\ \E order \in InOrder(NotGoing) :
       LET left  == [k \in DOMAIN order |-> newPodBuffer[order[k]]]
           n     == IF Len(left) < BatchSize THEN Len(left) ELSE BatchSize
           batch == SubSeq(left, 1, n)
           going == goingToPlace \cup {Id(batch[i]) : i \in DOMAIN batch}
       IN /\ newPodBuffer' = SubSeq(left, n + 1, Len(left))
          /\ IF Conflict(clusterState)
             THEN UNCHANGED <<kubernetesVars, podIdToName, planVars>>
             ELSE \E I \in EdgeSubsets(clusterState, batch) :
                  \E f \in EdgeMappings(RemainingOf(clusterState), batch, I) :
                  \E q \in SetToSeqs(1..n) :
                    /\ PlanOrder(q, I)
                    /\ SchedulePlan(BatchPlan(batch, q, f), going, expectedReorderDeployments)
    /\ pc' = "select"
    /\ UNCHANGED <<clusterState, eventStream, syncVars, suggestion, event, incidents>>

-----------------------------------------------------------------------------
(* The suggestion goroutine: alg.SuggestReorder on a clone, then           *)
(* checkSuggestion against whatever the cluster state has become.          *)

MakeSuggestion ==
    /\ pc = "select" /\ suggestion = Nil /\ ~ClonePanics(clusterState)
    /\ suggestion' \in Suggestions(clusterState)
    /\ UNCHANGED <<kubernetesVars, connectorVars, planVars, syncVars,
                   newPodBuffer, pc, event, incidents>>

(* The suggested pods that still sit on the first cloud node.              *)
StillOnCloud ==
    {p \in suggestion.toEdge : /\ clusterState.podsMap[p] # Nil
                               /\ clusterState.node[clusterState.podsMap[p]] = CloudHead}

(* A migration survives the check only if its target is the very node the  *)
(* suggestion's clone had the pod on.                                      *)
Surviving == {m \in suggestion.migrations : clusterState.podsMap[m.pod] # Nil /\ m.from = m.to}

(* The check has a clone of its own, the image, which maps a pod to its    *)
(* last entry: the nodes it may have the pod on, if any is an edge node.   *)
Homes(p) ==
    LET entries == {o \in ObjectsOf(p) : clusterState.edgePods[o] > 0}
    IN IF entries = {} THEN {Nil} ELSE {clusterState.node[o] : o \in entries}

(* The migrations are tried on the image one by one: the room at node n    *)
(* when the first i pods have been taken out of it, wherever home says     *)
(* they were, and those before the i-th put on their targets t.            *)
ImageRoom(objs, home, t, i, n, r) ==
    Remaining(clusterState, n, r)
    + Need(objs, {j \in 1..i : home[j] = n}, r) - Need(objs, {j \in 1..(i - 1) : t[j] = n}, r)

(* Where there is no room left the target is the first cloud node.         *)
OnImage(objs, home, to) ==
    {t \in [DOMAIN to -> Node] :
        \A i \in DOMAIN to :
            t[i] = IF \A r \in Resource :
                         ResourcesRequired[Dep(objs[i])][r] <= ImageRoom(objs, home, t, i, to[i], r)
                   THEN to[i] ELSE CloudHead}

(* The moves that can come of the surviving migrations, in any order.      *)
CheckedMigrations ==
    UNION {LET objs == [i \in DOMAIN q |-> clusterState.podsMap[q[i].pod]]
               homes == {h \in [DOMAIN q -> EdgeNode \cup {Nil}] : \A i \in DOMAIN q : h[i] \in Homes(q[i].pod)}
           IN UNION {{[i \in DOMAIN q |-> [obj |-> objs[i], node |-> t[i]]] :
                         t \in OnImage(objs, home, [i \in DOMAIN q |-> q[i].to])} : home \in homes}
           : q \in SetToSeqs(Surviving)}

(* A checked migration moves the pod, or just binds it if it has no node.  *)
IsMove(m) == clusterState.node[m.obj] # Nil

MigrationElements(m) ==
    IF IsMove(m) THEN MoveElements(m.obj, m.node) ELSE <<BindElement(m.obj, m.node, "REORDERING")>>

(* Mutant: the deletions of all the migrations first, and so on.           *)
MigrationsInterleaved(moved) == MovesInterleaved(SelectSeq(moved, IsMove))

MigrationsPlan(moved) == FoldLeft(LAMBDA plan, m : plan \o MigrationElements(m), <<>>, moved)

(* What MapPodToEdge starts from when these moves are made.                *)
RemainingAfter(moved) ==
    [n \in EdgeNode |-> [r \in Resource |->
        Remaining(clusterState, n, r)
        + MapThenSumSet(LAMBDA i :
              LET size == ResourcesRequired[Dep(moved[i].obj)][r]
              IN (IF clusterState.node[moved[i].obj] = n THEN size ELSE 0)
                 - (IF moved[i].node = n THEN size ELSE 0), DOMAIN moved)]]

(* Mutant: only a reordering keeps a suggestion from being taken up.       *)
BusyReordering == expectations # <<>> /\ expectations[1].tp = "REORDERING"

Busy == expectations # <<>>

DropSuggestion ==
    /\ pc = "select" /\ suggestion # Nil /\ Busy
    /\ suggestion' = Nil
    /\ UNCHANGED <<kubernetesVars, connectorVars, planVars, syncVars,
                   newPodBuffer, pc, event, incidents>>

(* Taking a pod with entries on both sides out of the image gives the      *)
(* resources back at a cloud node: the map has the cloud entry.            *)
ImagePanics ==
    \E m \in Surviving : OnEdge(clusterState, m.pod) /\ OnCloud(clusterState, m.pod)

CheckSuggestion ==
    /\ pc = "select" /\ suggestion # Nil /\ ~Busy /\ ~ClonePanics(clusterState) /\ ~ImagePanics
    /\ \E moved \in CheckedMigrations :
       LET objs     == [p \in StillOnCloud |-> clusterState.podsMap[p]]
           expected == [d \in Deployment |->
                           Cardinality({i \in DOMAIN moved : IsMove(moved[i]) /\ Dep(moved[i].obj) = d})]
       IN \E f \in EdgeMappings(RemainingAfter(moved), objs, StillOnCloud) :
          \E q \in SetToSeqs(DOMAIN f) :
             LET toEdge == [i \in DOMAIN q |-> [obj |-> objs[q[i]], node |-> f[q[i]]]]
             IN SchedulePlan(MigrationsPlan(moved) \o MovesPlan(toEdge), StillOnCloud, expected)
    /\ suggestion' = Nil
    /\ UNCHANGED <<clusterState, eventStream, syncVars, newPodBuffer, pc, event, incidents>>

-----------------------------------------------------------------------------
(* checkHealth and recoverHealth.                                          *)

(* Mutant: a plan of placements is never stuck.                            *)
StuckReordering ==
    /\ expectations # <<>> /\ healthCheckSample = Len(expectations)
    /\ expectations[Len(expectations)].tp # "PLACING"

Stuck == expectations # <<>> /\ healthCheckSample = Len(expectations)

(* The health ticker; when it is limited it stops with the last recovery.  *)
Ticking == LimitRecoveries => recoveries < MaxRecoveries

CheckHealth ==
    /\ pc = "select" /\ ~Stuck /\ Ticking
    /\ healthCheckSample' = Len(expectations)
    /\ healthCheckSample' # healthCheckSample
    /\ UNCHANGED <<kubernetesVars, connectorVars, expectations, goingToPlace,
                   expectedReorderDeployments, syncVars, newPodBuffer, suggestion, pc, event, incidents>>

Mapped == {clusterState.podsMap[p] : p \in Pod} \ {Nil}

RecoverHealth ==
    /\ pc = "select" /\ Stuck /\ Ticking
    /\ recoveries' = IF LimitRecoveries THEN recoveries + 1 ELSE recoveries
    /\ toForget' = Mapped
    /\ pc' = "wipe"
    /\ UNCHANGED <<kubernetesVars, connectorVars, planVars, toPlace,
                   newPodBuffer, suggestion, event, crashes>>

(* SyncPods: remove every pod of PodsMap, one by one ...                   *)
ForgetPod ==
    /\ pc = "wipe"
    /\ \E o \in toForget :
          /\ ~RemovePodPanics(clusterState, o)
          /\ clusterState' \in RemovePod(clusterState, o)
          /\ toForget' = toForget \ {o}
    /\ UNCHANGED <<kubernetesVars, podIdToName, eventStream, planVars, toPlace,
                   newPodBuffer, suggestion, pc, event, incidents>>

(* Mutant: the listing keeps the running pods only.                        *)
RunningPods == {<<p, api[p].node>> : p \in {q \in Pod : api[q].phase = "Running"}}

PodsToPlace == {<<p, api[p].node>> : p \in {q \in Pod : OnNode(q)}}

(* ... list the namespace, keep the pending pods for the buffer ...        *)
SyncList ==
    /\ pc = "wipe" /\ toForget = {}
    /\ toPlace' = PodsToPlace
    /\ newPodBuffer' \in PendingLists(InUse)
    /\ pc' = "place"
    /\ UNCHANGED <<kubernetesVars, connectorVars, planVars, toForget, suggestion, event, incidents>>

(* (the listing fails: recoverHealth calls itself again) ...               *)
SyncListFails ==
    /\ pc = "wipe" /\ toForget = {} /\ Fault
    /\ toForget' = Mapped
    /\ UNCHANGED <<api, watchq, watching, disruptions, connectorVars, planVars, toPlace,
                   newPodBuffer, suggestion, pc, event, incidents>>

(* ... and place the others one by one.                                    *)
PlacePod ==
    /\ pc \in {"place", "bootplace"}
    /\ \E m \in toPlace :
          /\ toPlace' = toPlace \ {m}
          /\ IF m[2] \in Node
             THEN /\ \E o \in FreshObj(m[1], InUse) : clusterState' \in Placed(clusterState, o, m[2])
                  /\ podIdToName' = podIdToName \cup {m[1]}
             ELSE UNCHANGED <<clusterState, podIdToName>>
    /\ UNCHANGED <<kubernetesVars, eventStream, planVars, toForget,
                   newPodBuffer, suggestion, pc, event, incidents>>

(* Mutant: the plan survives the recovery.                                 *)
FinishRecoveryKeepingPlan ==
    /\ pc = "place" /\ toPlace = {}
    /\ pc' = "select"
    /\ UNCHANGED <<kubernetesVars, connectorVars, planVars, syncVars,
                   newPodBuffer, suggestion, event, incidents>>

FinishRecovery ==
    /\ pc = "place" /\ toPlace = {}
    /\ Flush
    /\ pc' = "select"
    /\ UNCHANGED <<kubernetesVars, connectorVars, syncVars, newPodBuffer, suggestion, event, incidents>>

-----------------------------------------------------------------------------
(* The process: main, Start and Run; a panic anywhere kills all of it.     *)

ProcessDies ==
    /\ pc' = "boot" /\ event' = Nil
    /\ clusterState' = NewClusterState /\ podIdToName' = {} /\ eventStream' = <<>>
    /\ Flush
    /\ newPodBuffer' = <<>> /\ suggestion' = Nil
    /\ toForget' = {} /\ toPlace' = {}
    /\ CloseWatch
    /\ UNCHANGED <<api, disruptions, faults>>

(* The panics: an event has no node where one is needed, resources are     *)
(* given back at no edge node, or, when the select makes a clone (for a    *)
(* suggestion, its check or the web page), an edge entry has no node, or a *)
(* migrating pod is on both sides of the image.  A call that is served,    *)
(* whose reply is lost, and a panic in one step are not combined.          *)
Panics ==
    \/ /\ Handling
       /\ IF ~Expected THEN IsValidPanics \/ SwitchPanics(clusterState)
          ELSE \/ AfterPanics(expectations[1], clusterState)
               \/ \E r \in After(expectations[1], event.obj, clusterState) :
                     /\ r.ok => Len(expectations) > 1
                     /\ SwitchPanics(r.cs)
    \/ pc = "select" /\ ClonePanics(clusterState)
    \/ pc = "select" /\ suggestion # Nil /\ ~Busy /\ ImagePanics
    \/ pc = "wipe" /\ \E o \in toForget : RemovePodPanics(clusterState, o)

Panic == Panics /\ ProcessDies /\ UNCHANGED incidents

(* A concurrent access to PodsMap (the Go runtime stops the process), an   *)
(* eviction of the scheduler's own pod, a node failure.                    *)
Crash ==
    /\ crashes < MaxCrashes /\ crashes' = crashes + 1
    /\ pc # "boot"
    /\ ProcessDies
    /\ UNCHANGED recoveries

(* Mutant: the process starts with an empty view and relies on the watch.  *)
BootBlank ==
    /\ pc = "boot"
    /\ toPlace' = {}
    /\ pc' = "bootplace"
    /\ UNCHANGED <<kubernetesVars, connectorVars, planVars, toForget,
                   newPodBuffer, suggestion, event, incidents>>

Boot ==
    /\ pc = "boot"
    /\ toPlace' = PodsToPlace
    /\ pc' = "bootplace"
    /\ UNCHANGED <<kubernetesVars, connectorVars, planVars, toForget,
                   newPodBuffer, suggestion, event, incidents>>

StartWatching ==
    /\ pc = "bootplace" /\ toPlace = {}
    /\ OpenWatch
    /\ pc' = "select"
    /\ UNCHANGED <<connectorVars, planVars, syncVars, newPodBuffer, suggestion, event, incidents>>

-----------------------------------------------------------------------------
Init ==
    /\ KubernetesInit /\ ConnectorInit
    /\ newPodBuffer = <<>> /\ expectations = <<>> /\ goingToPlace = {}
    /\ expectedReorderDeployments = NoneExpected /\ healthCheckSample = 0
    /\ suggestion = Nil
    /\ pc = "boot" /\ event = Nil
    /\ toForget = {} /\ toPlace = {}
    /\ recoveries = 0 /\ crashes = 0

schedulerVars == <<planVars, syncVars, newPodBuffer, suggestion, pc, event, incidents>>

World == ClusterChange /\ UNCHANGED <<connectorVars, schedulerVars>>

Watch == (Translate(InUse) \/ TranslateForeign(InUse)) /\ UNCHANGED schedulerVars

HandleEvent == IgnoreEvent \/ HandleExpected \/ HandleUnexpected \/ HandleFailed

ScheduleStep == ListPending \/ ListFails \/ MatchPending \/ NothingNew \/ AbandonReorder \/ PlaceBatch

RecoverStep == ForgetPod \/ SyncList \/ SyncListFails \/ PlacePod \/ FinishRecovery

Next ==
    \/ World \/ Watch
    \/ ReceiveEvent \/ HandleEvent
    \/ ScheduleTick \/ ScheduleStep
    \/ MakeSuggestion \/ DropSuggestion \/ CheckSuggestion
    \/ CheckHealth \/ RecoverHealth \/ RecoverStep
    \/ Panic \/ Crash \/ Boot \/ StartWatching

Spec == Init /\ [][Next]_vars

=============================================================================
