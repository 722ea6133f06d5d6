------------------------------- MODULE Filling -------------------------------
(***************************************************************************)
(* The scheduler while its cluster fills up: from a namespace in which no  *)
(* pod is bound yet, as long as nothing fails and nothing is deleted.      *)
(* FillInv says then how the cluster, what is under way to the scheduler,  *)
(* the view and the queue hang together; FillingProofs proves it, and the  *)
(* invariants of SchedulerProperties from it.                              *)
(***************************************************************************)
EXTENDS SchedulerProperties

(* The setting: one cloud node, for with several DeployCloud draws one at  *)
(* random; a batch for every pod, for a pod that a batch leaves over in    *)
(* the buffer may be planned twice; resets are counted; nothing is bound.  *)
Filling ==
    /\ CloudNode = {CloudHead}
    /\ BatchSize >= Cardinality(Pod)
    /\ LimitRecoveries
    /\ \A p \in Pod : InitialPods[p].phase \in {"Absent", "Pending"} /\ InitialPods[p].node = Nil

(* Nothing has failed and nothing has been deleted so far.                 *)
Calm ==
    /\ disruptions = 0 /\ faults = 0 /\ crashes = 0 /\ recoveries = 0
    /\ \A p \in Pod : api[p].phase # "Gone"

-----------------------------------------------------------------------------
(* The view: a known pod has an object, that object alone may be entered,  *)
(* once and where the object says, and nodes are charged for what is there.*)

Seen(c, p) == c.podsMap[p] # Nil /\ c.node[c.podsMap[p]] # Nil

SeenAt(c, n) == {p \in Pod : Seen(c, p) /\ c.node[c.podsMap[p]] = n}

Tidy(c) ==
    /\ \A p \in Pod : c.podsMap[p] # Nil => Id(c.podsMap[p]) = p
    /\ \A o \in PodObj :
        /\ c.node[o] # Nil => c.podsMap[Id(o)] = o
        /\ c.edgePods[o] = IF c.node[o] \in EdgeNode THEN 1 ELSE 0
        /\ c.cloudPods[o] = IF c.node[o] \in CloudNode THEN 1 ELSE 0
    /\ \A n \in EdgeNode, r \in Resource :
        c.nodeUsed[n][r] = SumFunctionOnSet(Sizes(r), SeenAt(c, n))

-----------------------------------------------------------------------------
(* The cluster, and the view of it.                                        *)

Bound(p) == api[p].node # Nil
In(p)    == Seen(clusterState, p)

PodsFill ==
    /\ \A p \in Pod :
        /\ api[p].phase \in {"Absent", "Pending", "Running"}
        /\ api[p].node \in Node \cup {Nil}
        /\ api[p].phase = "Absent" => ~Bound(p) /\ p \notin podIdToName
        /\ api[p].phase = "Running" => Bound(p)
        /\ Bound(p) => p \in podIdToName

ViewFill ==
    /\ Tidy(clusterState)
    /\ \A p \in Pod : clusterState.podsMap[p] # Nil <=> p \in podIdToName
    /\ \A o \in PodObj : clusterState.node[o] # Nil => clusterState.node[o] = api[Id(o)].node

-----------------------------------------------------------------------------
(* What is under way to the scheduler, the next first: the event it        *)
(* handles, the one it is offered, the ones sent on the watch.             *)

Notes == [what : {"created", "bound", "started"}, pod : Pod]

Note(what, p) == [what |-> what, pod |-> p]

Said(e) == Note(IF e.type = "POD_CREATED" THEN "created"
                ELSE IF e.status = "RUNNING" THEN "started" ELSE "bound", Id(e.obj))

Says(e) == Note(IF e.type = "Added" THEN "created"
                ELSE IF e.phase = "Running" THEN "started" ELSE "bound", e.pod)

InHand       == IF pc = "event" THEN <<Said(event)>> ELSE <<>>
Under(es, q) == [i \in DOMAIN es |-> Said(es[i])] \o [i \in DOMAIN q |-> Says(q[i])]
Pipe         == InHand \o Under(eventStream, watchq)

Rank == [created |-> 1, bound |-> 2, started |-> 3]

(* Each pod's news come once and in their order.                           *)
Orderly(q) ==
    \A i, j \in DOMAIN q : i < j /\ q[i].pod = q[j].pod => Rank[q[i].what] < Rank[q[j].what]

(* The creation of p, if it is news, comes before any binding.             *)
CreatedFirst(q, p) ==
    \A j, k \in DOMAIN q : q[j] = Note("created", p) /\ q[k].what = "bound" => j < k

(* News are true, and those of a creation or a binding are new to the view.*)
IsNews(note) ==
    /\ Exists(note.pod)
    /\ note.what # "created" => Bound(note.pod)
    /\ note.what # "started" => ~In(note.pod)
    /\ note.what = "started" => api[note.pod].phase = "Running"

(* The binding of a pod that is not in the view is on its way.             *)
NewsFill ==
    /\ Orderly(Pipe)
    /\ \A i \in DOMAIN Pipe : IsNews(Pipe[i])
    /\ \A p \in Pod : Bound(p) /\ ~In(p) => \E i \in DOMAIN Pipe : Pipe[i] = Note("bound", p)

Sound(e) ==
    /\ Id(e.obj) \in podIdToName
    /\ e.type \in {"POD_CREATED", "POD_CHANGED"}
    /\ e.node = IF e.type = "POD_CREATED" THEN Nil ELSE api[Id(e.obj)].node

SoundWatch(e) ==
    \/ e.type = "Added" /\ e.pod \notin podIdToName /\ e.node = Nil
    \/ e.type = "Modified" /\ e.phase \in {"Pending", "Running"} /\ e.node = api[e.pod].node

(* A pod is unknown until its creation is read off the watch.              *)
WatchFill ==
    /\ \A i \in DOMAIN watchq : SoundWatch(watchq[i])
    /\ Len(eventStream) <= 1
    /\ \A i \in DOMAIN eventStream : Sound(eventStream[i])
    /\ pc = "event" => Sound(event)
    /\ \A p \in Pod \ podIdToName :
        Exists(p) /\ watching => \E i \in DOMAIN watchq : Says(watchq[i]) = Note("created", p)

-----------------------------------------------------------------------------
(* The queue: bindings of different pods, of which only the first may have *)
(* been made; or a move that is stuck, for its deletion would have been of *)
(* the only running pod.                                                   *)

Planned(i) == Id(expectations[i].obj)

Placing ==
    /\ \A i \in DOMAIN expectations :
        /\ expectations[i].kind = "Bind" /\ expectations[i].tp = "PLACING"
        /\ IF i = 1 /\ Bound(Planned(1))
           THEN api[Planned(1)].node = expectations[1].node /\ ~In(Planned(1))
           ELSE Unbound(Planned(i))
    /\ \A i, j \in DOMAIN expectations : Planned(i) = Planned(j) => i = j

StuckMove ==
    /\ expectations # <<>> /\ expectations[1].kind = "Delete"
    /\ \A i \in DOMAIN expectations : expectations[i].kind # "Bind"

Due(p) == expectations # <<>> /\ expectations[1].kind = "Bind" /\ Planned(1) = p

PlannedTo(n) ==
    {Planned(i) : i \in {j \in DOMAIN expectations : expectations[j].kind = "Bind" /\ expectations[j].node = n}}

QueueFill ==
    /\ Placing \/ StuckMove
    /\ \A p \in Pod : Bound(p) /\ ~In(p) => Due(p)
    /\ \A p \in Pod : Due(p) /\ Bound(p) => \A i \in DOMAIN expectations : Planned(i) \in goingToPlace
    /\ \A i \in DOMAIN expectations : i > 1 /\ expectations[i].kind = "Bind" => CreatedFirst(Pipe, Planned(i))
    /\ \A n \in EdgeNode, r \in Resource :
        SumFunctionOnSet(Sizes(r), SeenAt(clusterState, n) \cup PlannedTo(n)) <= Resources[n][r]

-----------------------------------------------------------------------------
(* The buffer holds pods that wait, or are being bound by the plan.        *)

Buffered(i) == Id(newPodBuffer[i])

BufferFill ==
    /\ \A i, j \in DOMAIN newPodBuffer : Buffered(i) = Buffered(j) => i = j
    /\ \A i \in DOMAIN newPodBuffer :
        \/ Unbound(Buffered(i))
        \/ /\ Bound(Buffered(i)) /\ Buffered(i) \in goingToPlace
           /\ ~(expectations = <<>> /\ pc \in {"select", "event"})
    /\ pc \in {"select", "event"} =>
        \A i \in DOMAIN newPodBuffer, j \in DOMAIN Pipe : Pipe[j] # Note("created", Buffered(i))

Booting == pc \in {"boot", "bootplace"}

MigrantsIn == suggestion # Nil => \A m \in suggestion.migrations : In(m.pod)

ControlFill ==
    /\ pc \in {"boot", "bootplace", "select", "event", "list", "match", "batch"}
    /\ toForget = {} /\ toPlace = {}
    /\ pc \in {"list", "match", "batch"} => expectations = <<>> \/ StuckMove
    /\ pc = "list" => newPodBuffer = <<>>
    /\ MigrantsIn
    /\ watching <=> ~Booting
    /\ Booting =>
        /\ podIdToName = {} /\ watchq = <<>> /\ eventStream = <<>>
        /\ expectations = <<>> /\ newPodBuffer = <<>> /\ suggestion = Nil

FillInv == PodsFill /\ ViewFill /\ NewsFill /\ WatchFill /\ QueueFill /\ BufferFill /\ ControlFill

CalmInv == Calm => FillInv
=============================================================================
