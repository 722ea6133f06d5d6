---------------------------- MODULE FillingProofs ----------------------------
(***************************************************************************)
(* FillInv holds as long as everything is calm, and with it the invariants *)
(* of SchedulerProperties about the scheduler's view of the cluster.  One  *)
(* lemma per action; an action that cannot happen in the calm has one that *)
(* says so.                                                                *)
(***************************************************************************)
EXTENDS NewsProofs

Fills == IInv /\ Filling /\ Calm /\ FillInv

-----------------------------------------------------------------------------
(* What FillInv says at once about one pod.                                *)

(* In a cluster that fills up a pod is absent, waiting, or on its node.    *)
LEMMA PodStates ==
  ASSUME PodsFill, NEW p \in Pod
  PROVE  /\ Bound(p) => Exists(p) /\ p \in podIdToName
         /\ Unbound(p) <=> Exists(p) /\ ~Bound(p)
         /\ Unbound(p) => api[p].phase # "Absent"
         /\ Exists(p) <=> api[p].phase # "Absent"
         /\ OnNode(p) <=> Bound(p)
         /\ Bound(p) => api[p].node \in Node
  BY NilIsNoObject DEF PodsFill, Exists, Bound, Unbound, OnNode

(* A known pod has an object of its own.                                   *)
LEMMA KnownPod ==
  ASSUME IInv, ViewFill, NEW p \in podIdToName
  PROVE  /\ p \in Pod /\ clusterState.podsMap[p] \in PodObj /\ clusterState.podsMap[p] # Nil
         /\ Id(clusterState.podsMap[p]) = p
  BY DEF IInv, ConnectorTypeOK, ClusterStates, ViewFill, Tidy

(* A pod in the view is where the view has it, and its name is known.      *)
LEMMA SeenIsThere ==
  ASSUME IInv, ViewFill, NEW p \in Pod, In(p)
  PROVE  /\ Bound(p) /\ p \in podIdToName
         /\ clusterState.node[clusterState.podsMap[p]] = api[p].node
<1>1. clusterState.podsMap[p] # Nil /\ clusterState.node[clusterState.podsMap[p]] # Nil
  BY DEF In, Seen
<1>2. p \in podIdToName
  BY <1>1 DEF ViewFill
<1>3. clusterState.podsMap[p] \in PodObj /\ Id(clusterState.podsMap[p]) = p
  BY <1>2, KnownPod
<1>4. clusterState.node[clusterState.podsMap[p]] = api[p].node
  BY <1>1, <1>3 DEF ViewFill
<1> QED
  BY <1>1, <1>2, <1>4 DEF Bound

(* A binding that is not in the view is the first of the plan.             *)
LEMMA AwayIsDue ==
  ASSUME IInv, QueueFill, NEW p \in Pod, Bound(p), ~In(p)
  PROVE  /\ expectations # <<>> /\ 1 \in DOMAIN expectations /\ expectations[1].kind = "Bind"
         /\ Planned(1) = p /\ Placing /\ expectations[1].node = api[p].node
         /\ \A i \in DOMAIN expectations : Planned(i) \in goingToPlace
<1>1. Due(p)
  BY DEF QueueFill
<1>2. expectations # <<>> /\ 1 \in DOMAIN expectations /\ expectations[1].kind = "Bind" /\ Planned(1) = p
  BY <1>1 DEF Due, IInv, PlanOK, PlanTypeOK, IsPlan
<1>3. Placing
  BY <1>2 DEF QueueFill, StuckMove
<1>4. expectations[1].node = api[p].node
  BY <1>2, <1>3 DEF Placing
<1> QED
  BY <1>1, <1>2, <1>3, <1>4 DEF QueueFill

-----------------------------------------------------------------------------
(* What a step does to one pod of the API server.                          *)

Created(p)  == api[p].phase = "Absent" /\ api' = [api EXCEPT ![p] = [phase |-> "Pending", node |-> Nil]]
Started(p)  == /\ api[p].phase = "Pending" /\ Bound(p)
               /\ api' = [api EXCEPT ![p] = [api[p] EXCEPT !.phase = "Running"]]
Binds(p, n) == /\ Unbound(p) /\ n \in Node
               /\ api' = [api EXCEPT ![p] = [phase |-> "Pending", node |-> n]]

(* A creation makes one pod exist and touches no other,                    *)
LEMMA CreatedMoves ==
  ASSUME IInv, PodsFill, NEW p \in Pod, Created(p)
  PROVE  /\ Grows /\ Exists(p)' /\ api'[p].node = Nil /\ ~Bound(p) /\ ~Exists(p)
         /\ \A q \in Pod : (Bound(q)' <=> Bound(q)) /\ (Unbound(q) => Unbound(q)') /\ (q # p => api'[q] = api[q])
<1>1. api \in [Pod -> ApiPod]
  BY DEF IInv, KubernetesTypeOK
<1>2. api'[p] = [phase |-> "Pending", node |-> Nil] /\ \A q \in Pod : q # p => api'[q] = api[q]
  BY <1>1 DEF Created
<1>3. ~Bound(p) /\ ~Exists(p)
  BY DEF Created, PodsFill, Exists
<1> QED
  BY <1>2, <1>3 DEF Grows, Exists, Bound, Unbound, Created

(* a start makes one pod run where it is,                                  *)
LEMMA StartedMoves ==
  ASSUME IInv, PodsFill, NEW p \in Pod, Started(p)
  PROVE  /\ Grows /\ api'[p].phase = "Running" /\ api[p].phase = "Pending" /\ Bound(p)'
         /\ api'[p].node = api[p].node /\ Exists(p)'
         /\ \A q \in Pod : (Bound(q)' <=> Bound(q)) /\ (Unbound(q) => Unbound(q)') /\ (q # p => api'[q] = api[q])
<1>1. api \in [Pod -> ApiPod] /\ api[p] \in ApiPod
  BY DEF IInv, KubernetesTypeOK
<1>2. api'[p] = [api[p] EXCEPT !.phase = "Running"] /\ \A q \in Pod : q # p => api'[q] = api[q]
  BY <1>1 DEF Started
<1>3. api'[p].phase = "Running" /\ api'[p].node = api[p].node
  BY <1>1, <1>2 DEF ApiPod
<1> QED
  BY <1>2, <1>3 DEF Grows, Exists, Bound, Unbound, Started

(* a binding gives one pod its node,                                       *)
LEMMA BindsMoves ==
  ASSUME IInv, PodsFill, NEW p \in Pod, NEW n, Binds(p, n)
  PROVE  /\ Grows /\ Exists(p)' /\ Bound(p)' /\ api'[p].node = n /\ api'[p].phase = "Pending" /\ ~Bound(p)
         /\ \A q \in Pod : q # p => api'[q] = api[q] /\ (Bound(q)' <=> Bound(q)) /\ (Unbound(q)' <=> Unbound(q))
<1>1. api \in [Pod -> ApiPod]
  BY DEF IInv, KubernetesTypeOK
<1>2. api'[p] = [phase |-> "Pending", node |-> n] /\ \A q \in Pod : q # p => api'[q] = api[q]
  BY <1>1 DEF Binds
<1>3. n # Nil
  BY NilIsNoObject DEF Binds
<1> QED
  BY <1>2, <1>3 DEF Grows, Exists, Bound, Unbound, Binds

(* and where the API server stands still, so do all pods.                  *)
LEMMA SameMoves ==
  ASSUME UNCHANGED api
  PROVE  /\ Grows
         /\ \A q \in Pod : /\ Bound(q)' <=> Bound(q)
                           /\ Unbound(q)' <=> Unbound(q)
                           /\ Exists(q)' <=> Exists(q)
  BY DEF Grows, Exists, Bound, Unbound

(* The pods keep their states when only names of existing pods are learnt, *)
LEMMA PodsFillSame ==
  ASSUME PodsFill, UNCHANGED api, podIdToName \subseteq podIdToName',
         \A p \in podIdToName' \ podIdToName : api[p].phase # "Absent"
  PROVE  PodsFill'
  BY DEF PodsFill, Bound

(* and when one pod is created, started or bound.                          *)
LEMMA PodsFillStep ==
  ASSUME IInv, PodsFill, UNCHANGED podIdToName, NEW p \in Pod,
         \/ Created(p) \/ Started(p)
         \/ \E n : Binds(p, n) /\ p \in podIdToName
  PROVE  PodsFill'
<1>1. CASE Created(p)
  <2>1. /\ api'[p].node = Nil
        /\ \A q \in Pod : (Bound(q)' <=> Bound(q)) /\ (q # p => api'[q] = api[q])
    BY <1>1, CreatedMoves
  <2>2. api'[p].phase = "Pending"
    BY <1>1 DEF Created, IInv, KubernetesTypeOK
  <2> QED
    BY <2>1, <2>2 DEF PodsFill, Bound
<1>2. CASE Started(p)
  <2>1. /\ api'[p].phase = "Running" /\ Bound(p)' /\ api'[p].node = api[p].node
        /\ \A q \in Pod : (Bound(q)' <=> Bound(q)) /\ (q # p => api'[q] = api[q])
    BY <1>2, StartedMoves
  <2> QED
    BY <2>1 DEF PodsFill, Bound
<1>3. CASE \E n : Binds(p, n) /\ p \in podIdToName
  <2>1. PICK n : Binds(p, n) /\ p \in podIdToName
    BY <1>3
  <2>2. /\ api'[p].phase = "Pending" /\ Bound(p)' /\ api'[p].node = n /\ n \in Node
        /\ \A q \in Pod : q # p => api'[q] = api[q]
    BY <2>1, BindsMoves DEF Binds
  <2> QED
    BY <2>1, <2>2 DEF PodsFill, Bound
<1> QED
  BY <1>1, <1>2, <1>3

-----------------------------------------------------------------------------
(* The view.                                                               *)

(* A view that nobody touches stays right while the cluster grows.         *)
LEMMA ViewSame ==
  ASSUME ViewFill, Grows, UNCHANGED <<clusterState, podIdToName>>
  PROVE  /\ ViewFill'
         /\ \A p \in Pod : In(p)' <=> In(p)
         /\ \A n : SeenAt(clusterState, n)' = SeenAt(clusterState, n)
<1>1. Tidy(clusterState)'
  BY DEF ViewFill, Tidy, SeenAt, Seen
<1>2. \A o \in PodObj : clusterState.node[o] # Nil => clusterState.node[o] = api'[Id(o)].node
  <2> TAKE o \in PodObj
  <2> HAVE clusterState.node[o] # Nil
  <2>1. clusterState.node[o] = api[Id(o)].node /\ Bound(Id(o)) /\ Id(o) \in Pod
    BY PodObjType DEF ViewFill, Bound
  <2> QED
    BY <2>1 DEF Grows
<1>3. (\A p \in Pod : clusterState.podsMap[p] # Nil <=> p \in podIdToName)'
  BY DEF ViewFill
<1> QED
  BY <1>1, <1>2, <1>3 DEF ViewFill, In, SeenAt, Seen

(* What only gives unknown pods an object, or changes the status of one.   *)
LEMMA ViewTouched ==
  ASSUME IInv, ViewFill, UNCHANGED api,
         clusterState'.node = clusterState.node, clusterState'.nodeUsed = clusterState.nodeUsed,
         clusterState'.edgePods = clusterState.edgePods, clusterState'.cloudPods = clusterState.cloudPods,
         NEW p \in Pod, NEW o \in PodObj, Id(o) = p,
         \/ clusterState'.podsMap = clusterState.podsMap /\ podIdToName' = podIdToName
         \/ /\ clusterState.podsMap[p] = Nil
            /\ clusterState'.podsMap = [clusterState.podsMap EXCEPT ![p] = o]
            /\ podIdToName' = podIdToName \cup {p}
  PROVE  /\ ViewFill'
         /\ \A x \in Pod : In(x)' <=> In(x)
         /\ \A n : SeenAt(clusterState, n)' = SeenAt(clusterState, n)
<1>1. clusterState \in ClusterStates /\ Tidy(clusterState)
  BY DEF IInv, ConnectorTypeOK, ViewFill
<1>2. clusterState'.podsMap = clusterState.podsMap \/ (clusterState.podsMap[p] = Nil /\ clusterState'.podsMap = [clusterState.podsMap EXCEPT ![p] = o])
  OBVIOUS
<1>3. /\ Tidy(clusterState')
      /\ \A x \in Pod : Seen(clusterState', x) <=> Seen(clusterState, x)
      /\ \A n : SeenAt(clusterState', n) = SeenAt(clusterState, n)
  BY <1>1, <1>2, SameEntriesTidy
<1>4. \A x \in Pod : clusterState'.podsMap[x] # Nil <=> x \in podIdToName'
  <2>1. clusterState.podsMap \in [Pod -> PodObj \cup {Nil}] /\ o # Nil
    BY <1>1, NilIsNoObject DEF ClusterStates
  <2> QED
    BY <2>1 DEF ViewFill
<1>5. (\A x \in PodObj : clusterState.node[x] # Nil => clusterState.node[x] = api[Id(x)].node)'
  BY DEF ViewFill
<1>6. Tidy(clusterState)'
  BY <1>3 DEF Tidy, SeenAt, Seen, Sizes
<1> QED
  BY <1>3, <1>4, <1>5, <1>6 DEF ViewFill, In, SeenAt, Seen

-----------------------------------------------------------------------------
(* Steps that neither bind a pod, nor enter one, nor change the plan.      *)

Quiet ==
  /\ Grows
  /\ \A p \in Pod : /\ Unbound(p) => Unbound(p)'
                    /\ Bound(p)' => Bound(p)
                    /\ In(p)' <=> In(p)
  /\ \A n : SeenAt(clusterState, n)' = SeenAt(clusterState, n)

Announces(q, p) == \E j \in DOMAIN q : q[j] = Note("created", p)

(* No creation of a pod that existed is put on the pipe.                   *)
Onward ==
  \A p \in Pod : Exists(p) => /\ CreatedFirst(Pipe, p) => CreatedFirst(Pipe', p)
                              /\ Announces(Pipe', p) => Announces(Pipe, p)

(* A queue that nobody touches stays as it was planned, if nothing in the  *)
(* view or on the pipe goes back.                                          *)
LEMMA QueueKept ==
  ASSUME IInv, PodsFill, QueueFill, Quiet, Onward, UNCHANGED <<expectations, goingToPlace>>
  PROVE  QueueFill'
<1>1. ASSUME NEW i \in DOMAIN expectations, expectations[i].kind = "Bind"
      PROVE  Planned(i) \in Pod
  BY <1>1, PodObjType DEF Planned, IInv, PlanOK, PlanTypeOK, IsPlan, WellFormed
<1>2. \A p \in Pod : Bound(p)' <=> Bound(p)
  BY DEF Quiet, Grows
<1>3. ASSUME Placing
      PROVE  Placing'
  <2>1. ASSUME NEW i \in DOMAIN expectations
        PROVE  /\ expectations[i].kind = "Bind" /\ expectations[i].tp = "PLACING"
               /\ i = 1 /\ Bound(Planned(1))' => api'[Planned(1)].node = expectations[1].node /\ ~In(Planned(1))'
               /\ ~(i = 1 /\ Bound(Planned(1))') => Unbound(Planned(i))'
    <3>1. expectations[i].kind = "Bind" /\ expectations[i].tp = "PLACING" /\ Planned(i) \in Pod
      BY <1>1, <1>3 DEF Placing
    <3>2. CASE i = 1 /\ Bound(Planned(1))
      <4>1. api[Planned(1)].node = expectations[1].node /\ ~In(Planned(1))
        BY <1>3, <3>2 DEF Placing
      <4>2. api'[Planned(1)].node = api[Planned(1)].node /\ ~In(Planned(1))' /\ Bound(Planned(1))'
        <5>1. Planned(1) \in Pod
          BY <3>1, <3>2
        <5>2. \A p \in Pod : Bound(p) /\ ~In(p) => api'[p].node = api[p].node /\ ~In(p)' /\ Bound(p)'
          BY <1>2 DEF Quiet, Grows
        <5> QED
          BY <3>2, <4>1, <5>1, <5>2 DEF Planned, In, Bound
      <4> QED
        BY <3>1, <3>2, <4>1, <4>2
    <3>3. CASE ~(i = 1 /\ Bound(Planned(1)))
      <4>1. Unbound(Planned(i))
        BY <1>3, <3>3 DEF Placing
      <4>2. Unbound(Planned(i))' /\ ~Bound(Planned(i))'
        <5>1. \A p \in Pod : Unbound(p) => Unbound(p)' /\ ~Bound(p)'
          BY <1>2, PodStates DEF Quiet
        <5> QED
          BY <3>1, <4>1, <5>1 DEF Planned, Unbound, Bound
      <4> QED
        BY <3>1, <4>2
    <3> QED
      BY <3>2, <3>3
  <2>2. \A i, j \in DOMAIN expectations : Planned(i) = Planned(j) => i = j
    BY <1>3 DEF Placing
  <2> QED
    BY <2>1, <2>2 DEF Placing, Planned
<1>4. Placing' \/ StuckMove'
  BY <1>3 DEF QueueFill, StuckMove
<1>5. (\A p \in Pod : Bound(p) /\ ~In(p) => Due(p))'
  BY <1>2 DEF QueueFill, Quiet, Due, Planned
<1>6. (\A p \in Pod : Due(p) /\ Bound(p) => \A i \in DOMAIN expectations : Planned(i) \in goingToPlace)'
  BY <1>2 DEF QueueFill, Due, Planned
<1>7. ASSUME NEW i \in DOMAIN expectations, i > 1, expectations[i].kind = "Bind"
      PROVE  CreatedFirst(Pipe', Planned(i))
  <2>1. Planned(i) \in Pod /\ CreatedFirst(Pipe, Planned(i)) /\ Placing
    BY <1>1, <1>7 DEF QueueFill, StuckMove
  <2>2. Unbound(Planned(i))
    BY <1>7, <2>1 DEF Placing
  <2>3. Exists(Planned(i))
    BY <2>1, <2>2, PodStates
  <2> QED
    BY <2>1, <2>3 DEF Onward
<1>8. (\A i \in DOMAIN expectations : i > 1 /\ expectations[i].kind = "Bind" => CreatedFirst(Pipe, Planned(i)))'
  BY <1>7 DEF CreatedFirst, Planned, Note
<1>9. (\A n \in EdgeNode, r \in Resource :
         SumFunctionOnSet(Sizes(r), SeenAt(clusterState, n) \cup PlannedTo(n)) <= Resources[n][r])'
  <2> SUFFICES ASSUME NEW n \in EdgeNode, NEW r \in Resource
               PROVE  (SumFunctionOnSet(Sizes(r), SeenAt(clusterState, n) \cup PlannedTo(n)) <= Resources[n][r])'
    OBVIOUS
  <2>1. SeenAt(clusterState, n)' = SeenAt(clusterState, n) /\ PlannedTo(n)' = PlannedTo(n)
    BY DEF Quiet, PlannedTo, Planned
  <2> QED
    BY <2>1 DEF QueueFill, Sizes
<1> QED
  BY <1>4, <1>5, <1>6, <1>8, <1>9 DEF QueueFill

(* The same for the buffer.                                                *)
LEMMA BufferKept ==
  ASSUME IInv, PodsFill, BufferFill, Quiet, Onward,
         UNCHANGED <<newPodBuffer, expectations, goingToPlace>>,
         pc' \in {"select", "event"} => pc \in {"select", "event"} \/ newPodBuffer = <<>>
  PROVE  BufferFill'
<1>1. \A i \in DOMAIN newPodBuffer : Buffered(i) \in Pod
  BY PodObjType DEF Buffered, IInv, ControlTypeOK
<1>2. \A p \in Pod : Bound(p)' <=> Bound(p)
  BY DEF Quiet, Grows
<1>3. ASSUME NEW i \in DOMAIN newPodBuffer
      PROVE  \/ Unbound(Buffered(i))'
             \/ /\ Bound(Buffered(i))' /\ Buffered(i) \in goingToPlace
                /\ ~(expectations = <<>> /\ pc' \in {"select", "event"})
  <2>1. newPodBuffer # <<>> /\ Buffered(i) \in Pod
    BY <1>1, <1>3 DEF IInv, ControlTypeOK
  <2>2. CASE Unbound(Buffered(i))
    <3>1. \A p \in Pod : Unbound(p) => Unbound(p)'
      BY DEF Quiet
    <3> QED
      BY <2>1, <2>2, <3>1 DEF Buffered, Unbound
  <2>3. CASE /\ Bound(Buffered(i)) /\ Buffered(i) \in goingToPlace
             /\ ~(expectations = <<>> /\ pc \in {"select", "event"})
    BY <1>2, <2>1, <2>3 DEF Buffered, Bound
  <2> QED
    BY <2>2, <2>3 DEF BufferFill
<1>4. ASSUME pc' \in {"select", "event"}, NEW i \in DOMAIN newPodBuffer, NEW j \in DOMAIN Pipe'
      PROVE  Pipe'[j] # Note("created", Buffered(i))
  <2>1. pc \in {"select", "event"} /\ Buffered(i) \in Pod
    BY <1>1, <1>4 DEF IInv, ControlTypeOK
  <2>2. ~Announces(Pipe, Buffered(i))
    BY <2>1 DEF BufferFill, Announces
  <2>3. Exists(Buffered(i))
    BY <2>1, PodStates DEF BufferFill
  <2> QED
    BY <2>1, <2>2, <2>3 DEF Onward, Announces
<1>5. (\A i, j \in DOMAIN newPodBuffer : Buffered(i) = Buffered(j) => i = j)'
  BY DEF BufferFill, Buffered
<1>6. (\A i \in DOMAIN newPodBuffer :
         \/ Unbound(Buffered(i))
         \/ /\ Bound(Buffered(i)) /\ Buffered(i) \in goingToPlace
            /\ ~(expectations = <<>> /\ pc \in {"select", "event"}))'
  BY <1>3 DEF Buffered
<1>7. (pc \in {"select", "event"} =>
         \A i \in DOMAIN newPodBuffer, j \in DOMAIN Pipe : Pipe[j] # Note("created", Buffered(i)))'
  BY <1>4 DEF Buffered, Note
<1> QED
  BY <1>5, <1>6, <1>7 DEF BufferFill

(* The pipe does not go back when it stays as it is,                       *)
LEMMA OnwardSame ==
  ASSUME Pipe' = Pipe
  PROVE  Onward
  BY DEF Onward

(* when news are sent, a creation only of what did not exist,              *)
LEMMA OnwardSent ==
  ASSUME IInv, NEW x \in Notes, Pipe' = Append(Pipe, x), x.what = "created" => ~Exists(x.pod)
  PROVE  Onward
<1> SUFFICES ASSUME NEW p \in Pod, Exists(p)
             PROVE  /\ CreatedFirst(Pipe, p) => CreatedFirst(Append(Pipe, x), p)
                    /\ Announces(Append(Pipe, x), p) => Announces(Pipe, p)
  BY DEF Onward
<1>1. Pipe \in Seq(Notes)
  BY PipeIs
<1>2. x # Note("created", p)
  BY NoteIs
<1>3. ASSUME Announces(Append(Pipe, x), p)
      PROVE  Announces(Pipe, p)
  <2>1. PICK j \in DOMAIN Append(Pipe, x) : Append(Pipe, x)[j] = Note("created", p)
    BY <1>3 DEF Announces
  <2>2. j # Len(Pipe) + 1
    BY <1>1, <1>2, <2>1, AppendAt
  <2>3. j \in DOMAIN Pipe /\ Pipe[j] = Append(Pipe, x)[j]
    BY <1>1, <2>2, AppendAt
  <2> QED
    BY <2>1, <2>3 DEF Announces
<1> QED
  BY <1>1, <1>2, <1>3, CreatedFirstAppend

(* or when the first of the news has been handled.                         *)
LEMMA OnwardHandled ==
  ASSUME IInv, Pipe # <<>>, Pipe' = Tail(Pipe)
  PROVE  Onward
<1>1. Pipe \in Seq(Notes)
  BY PipeIs
<1>2. \A p : Announces(Tail(Pipe), p) => Announces(Pipe, p)
  BY <1>1, TailAt DEF Announces
<1> QED
  BY <1>1, <1>2, CreatedFirstTail DEF Onward

-----------------------------------------------------------------------------
(* The events under way stay sound.                                        *)

(* An event that is offered stays sound while the cluster grows,           *)
LEMMA SoundKept ==
  ASSUME Grows, NEW e \in SchedulingEvent, Sound(e), IsNews(Said(e)), podIdToName \subseteq podIdToName'
  PROVE  Sound(e)'
<1>1. Id(e.obj) \in Pod /\ Said(e).pod = Id(e.obj)
  BY PodObjType, NoteIs DEF SchedulingEvent, Said
<1>2. e.type # "POD_CREATED" => Bound(Id(e.obj))
  <2>1. Said(e).what = IF e.type = "POD_CREATED" THEN "created" ELSE IF e.status = "RUNNING" THEN "started" ELSE "bound"
    BY NoteIs DEF Said
  <2> QED
    BY <1>1, <2>1 DEF IsNews
<1> QED
  BY <1>1, <1>2 DEF Sound, Grows

(* and so does one on the watch.                                           *)
LEMMA SoundWatchKept ==
  ASSUME Grows, NEW e \in WatchEvent, SoundWatch(e), IsNews(Says(e)), podIdToName' = podIdToName
  PROVE  SoundWatch(e)'
<1>1. e.pod \in Pod /\ Says(e).pod = e.pod
  BY NoteIs DEF WatchEvent, Says
<1>2. e.type # "Added" => Bound(e.pod)
  <2>1. Says(e).what = IF e.type = "Added" THEN "created" ELSE IF e.phase = "Running" THEN "started" ELSE "bound"
    BY NoteIs DEF Says
  <2> QED
    BY <1>1, <2>1 DEF IsNews
<1> QED
  BY <1>1, <1>2 DEF SoundWatch, Grows

(* What is under way stays sound when nothing is sent, or one sound event  *)
(* that tells of whatever was created.                                     *)
LEMMA WatchKept ==
  ASSUME IInv, NewsFill, WatchFill, Grows, UNCHANGED <<podIdToName, watching>>,
         eventStream' = eventStream, watchq' \in Seq(WatchEvent),
         pc' = "event" => pc = "event" /\ event' = event,
         \/ /\ watchq' = watchq
            /\ watching => \A p \in Pod \ podIdToName : Exists(p)' => Exists(p)
         \/ \E e \in WatchEvent :
              /\ watchq' = Append(watchq, e) /\ SoundWatch(e)'
              /\ \A p \in Pod \ podIdToName : Exists(p)' => Exists(p) \/ Says(e) = Note("created", p)
  PROVE  WatchFill'
<1>1. /\ eventStream \in Seq(SchedulingEvent) /\ watchq \in Seq(WatchEvent)
      /\ pc = "event" => event \in SchedulingEvent
  BY DEF IInv, ConnectorTypeOK, KubernetesTypeOK, ControlTypeOK
<1>2. \A e \in WatchEvent : (\E i \in DOMAIN watchq : watchq[i] = e) => SoundWatch(e)'
  <2> TAKE e \in WatchEvent
  <2> HAVE \E i \in DOMAIN watchq : watchq[i] = e
  <2>1. SoundWatch(e) /\ IsNews(Says(e))
    BY AllIsNews DEF WatchFill
  <2> QED
    BY <2>1, SoundWatchKept
<1>3. (\A i \in DOMAIN watchq : SoundWatch(watchq[i]))'
  <2>1. \A i \in DOMAIN watchq' : watchq'[i] \in WatchEvent
    OBVIOUS
  <2>2. \A i \in DOMAIN watchq' : (\E k \in DOMAIN watchq : watchq[k] = watchq'[i]) \/ SoundWatch(watchq[i])'
    <3>1. CASE watchq' = watchq
      BY <3>1
    <3>2. ASSUME NEW e \in WatchEvent, watchq' = Append(watchq, e), SoundWatch(e)', NEW i \in DOMAIN watchq'
          PROVE  (\E k \in DOMAIN watchq : watchq[k] = watchq'[i]) \/ SoundWatch(watchq[i])'
      <4>1. CASE i \in DOMAIN watchq
        BY <1>1, <3>2, <4>1, AppendAt
      <4>2. CASE i = Len(watchq) + 1
        <5>1. watchq'[i] = e
          BY <1>1, <3>2, <4>2, AppendAt
        <5> QED
          BY <3>2, <5>1 DEF SoundWatch
      <4> QED
        BY <1>1, <3>2, <4>1, <4>2, AppendAt
    <3> QED
      BY <3>1, <3>2
  <2> QED
    BY <1>2, <2>1, <2>2 DEF SoundWatch
<1>4. \A e \in SchedulingEvent : Sound(e) /\ IsNews(Said(e)) => Sound(e)'
  BY SoundKept
<1>5. (\A i \in DOMAIN eventStream : Sound(eventStream[i]))'
  <2>1. \A i \in DOMAIN eventStream : /\ eventStream[i] \in SchedulingEvent
                                      /\ Sound(eventStream[i]) /\ IsNews(Said(eventStream[i]))
    BY <1>1, AllIsNews DEF WatchFill
  <2> QED
    BY <1>4, <2>1 DEF Sound
<1>6. (pc = "event" => Sound(event))'
  <2>1. pc = "event" => event \in SchedulingEvent /\ Sound(event) /\ IsNews(Said(event))
    BY <1>1, AllIsNews DEF WatchFill
  <2> QED
    BY <1>4, <2>1 DEF Sound
<1>7. ASSUME NEW p \in Pod \ podIdToName, Exists(p)', watching
      PROVE  \E i \in DOMAIN watchq' : Says(watchq'[i]) = Note("created", p)
  <2>1. \A i \in DOMAIN watchq : i \in DOMAIN watchq' /\ watchq'[i] = watchq[i]
    BY <1>1, AppendAt
  <2>2. CASE Exists(p)
    <3>1. \E i \in DOMAIN watchq : Says(watchq[i]) = Note("created", p)
      BY <1>7, <2>2 DEF WatchFill
    <3> QED
      BY <2>1, <3>1
  <2>3. ASSUME ~Exists(p)
        PROVE  \E i \in DOMAIN watchq' : Says(watchq'[i]) = Note("created", p)
    <3>1. PICK e \in WatchEvent : watchq' = Append(watchq, e) /\ Says(e) = Note("created", p)
      BY <1>7, <2>3
    <3>2. Len(watchq) + 1 \in DOMAIN watchq' /\ watchq'[Len(watchq) + 1] = e
      BY <1>1, <3>1, AppendAt
    <3> QED
      BY <3>1, <3>2
  <2> QED
    BY <2>2, <2>3
<1>8. (\A p \in Pod \ podIdToName :
         Exists(p) /\ watching => \E i \in DOMAIN watchq : Says(watchq[i]) = Note("created", p))'
  BY <1>7 DEF Says, Note
<1>9. (Len(eventStream) <= 1)'
  BY DEF WatchFill
<1> QED
  BY <1>3, <1>5, <1>6, <1>8, <1>9 DEF WatchFill

(* The pods of suggested migrations stay in the view.                      *)
LEMMA SuggestionKept ==
  ASSUME IInv, ControlFill, UNCHANGED suggestion, \A p \in Pod : In(p) => In(p)'
  PROVE  MigrantsIn'
<1>1. suggestion # Nil => \A m \in suggestion.migrations : m.pod \in Pod /\ In(m.pod)
  BY DEF IInv, ControlTypeOK, Suggestion, Migration, ControlFill, MigrantsIn
<1>2. \A p \in Pod : In(p) => (clusterState'.podsMap[p] # Nil /\ clusterState'.node[clusterState'.podsMap[p]] # Nil)
  BY DEF In, Seen
<1> QED
  BY <1>1, <1>2 DEF MigrantsIn, In, Seen

(* What the control states say of each other stays while none of them      *)
(* changes.                                                                *)
LEMMA ControlKept ==
  ASSUME IInv, ControlFill, UNCHANGED <<pc, syncVars, expectations, newPodBuffer, suggestion, watching>>,
         \A p \in Pod : In(p) => In(p)',
         ~watching => UNCHANGED <<watchq, eventStream, podIdToName>>
  PROVE  ControlFill'
<1>2. MigrantsIn'
  BY SuggestionKept
<1>3. (watching <=> ~Booting)'
  BY DEF ControlFill, Booting
<1>4. (Booting => /\ podIdToName = {} /\ watchq = <<>> /\ eventStream = <<>>
                  /\ expectations = <<>> /\ newPodBuffer = <<>> /\ suggestion = Nil)'
  BY DEF ControlFill, Booting
<1>5. /\ pc' \in {"boot", "bootplace", "select", "event", "list", "match", "batch"}
      /\ toForget' = {} /\ toPlace' = {}
      /\ pc' \in {"list", "match", "batch"} => expectations' = <<>> \/ StuckMove'
      /\ pc' = "list" => newPodBuffer' = <<>>
  BY DEF ControlFill, syncVars, StuckMove
<1> QED
  BY <1>2, <1>3, <1>4, <1>5 DEF ControlFill

(* The pipe is made of these four variables.                               *)
LEMMA PipeStays ==
  ASSUME UNCHANGED <<pc, event, eventStream, watchq>>
  PROVE  Pipe' = Pipe
  BY DEF Pipe, InHand, Under, Said, Says

-----------------------------------------------------------------------------
(* The cluster.                                                            *)

(* Of its own accord it creates and starts pods, and tells the watch.      *)
LEMMA CalmWorld ==
  ASSUME IInv, Calm', World
  PROVE  /\ UNCHANGED <<connectorVars, schedulerVars, watching>>
         /\ \E p \in Pod :
              \/ Created(p) /\ watchq' = IF watching THEN Append(watchq, Event("Added", p, api'[p])) ELSE watchq
              \/ Started(p) /\ watchq' = IF watching THEN Append(watchq, Event("Modified", p, api'[p])) ELSE watchq
<1>1. disruptions \in Nat /\ disruptions' = 0 /\ api \in [Pod -> ApiPod]
  BY DEF IInv, KubernetesTypeOK, Calm
<1>2. disruptions' # disruptions + 1
  BY <1>1
<1>3. PICK p \in Pod : \/ CreatePod(p) \/ StartPod(p) \/ FinishPod(p)
                       \/ DisruptPod(p) \/ BindForeign(p) \/ UpdatePod(p)
  BY DEF World, ClusterChange
<1>4. CreatePod(p) \/ StartPod(p)
  BY <1>2, <1>3 DEF FinishPod, DisruptPod, BindForeign, UpdatePod, Disruption
<1>5. UNCHANGED <<connectorVars, schedulerVars, watching>>
  BY <1>4 DEF World, CreatePod, StartPod
<1>6. CASE CreatePod(p)
  <2>1. Created(p)
    BY <1>6 DEF CreatePod, Created, Change
  <2>2. api'[p] = [phase |-> "Pending", node |-> Nil]
    BY <1>1, <2>1 DEF Created
  <2>3. watchq' = IF watching THEN Append(watchq, Event("Added", p, api'[p])) ELSE watchq
    BY <1>6, <2>2 DEF CreatePod, Change
  <2> QED
    BY <1>5, <2>1, <2>3
<1>7. CASE StartPod(p)
  <2>1. Started(p)
    BY <1>7 DEF StartPod, Started, Change, Bound
  <2>2. api'[p] = [api[p] EXCEPT !.phase = "Running"]
    BY <1>1, <2>1 DEF Started
  <2>3. watchq' = IF watching THEN Append(watchq, Event("Modified", p, api'[p])) ELSE watchq
    BY <1>7, <2>2 DEF StartPod, Change
  <2> QED
    BY <1>5, <2>1, <2>3
<1> QED
  BY <1>4, <1>6, <1>7

(* What an event about the state of a pod says.                            *)
LEMMA EventIs ==
  ASSUME api' \in [Pod -> ApiPod], NEW p \in Pod, NEW type \in {"Added", "Modified"}
  PROVE  LET e == Event(type, p, api'[p])
         IN /\ e \in WatchEvent /\ e.type = type /\ e.pod = p
            /\ e.phase = api'[p].phase /\ e.node = api'[p].node
            /\ Says(e) = Note(IF type = "Added" THEN "created"
                              ELSE IF api'[p].phase = "Running" THEN "started" ELSE "bound", p)
  BY DEF Event, WatchEvent, ApiPod, Says

(* The controllers, the kubelets and, in the calm, nobody else.            *)
LEMMA WorldFills ==
  ASSUME Fills, IInv', Calm', World
  PROVE  FillInv'
<1>1. /\ IInv /\ PodsFill /\ ViewFill /\ NewsFill /\ WatchFill /\ QueueFill /\ BufferFill /\ ControlFill
      /\ UNCHANGED <<connectorVars, schedulerVars, watching>>
  BY CalmWorld DEF Fills, FillInv
<1>2. UNCHANGED <<clusterState, podIdToName, eventStream, planVars, syncVars, newPodBuffer, suggestion, pc, event,
                  expectations, goingToPlace, watching>>
  BY <1>1 DEF connectorVars, schedulerVars, planVars
<1>3. PICK p \in Pod :
        \/ Created(p) /\ watchq' = IF watching THEN Append(watchq, Event("Added", p, api'[p])) ELSE watchq
        \/ Started(p) /\ watchq' = IF watching THEN Append(watchq, Event("Modified", p, api'[p])) ELSE watchq
  BY CalmWorld DEF Fills
<1>4. /\ Grows
      /\ \A q \in Pod : (Bound(q)' <=> Bound(q)) /\ (Unbound(q) => Unbound(q)')
  BY <1>1, <1>3, CreatedMoves, StartedMoves
<1>5. PodsFill'
  BY <1>1, <1>2, <1>3, PodsFillStep
<1>6. /\ ViewFill'
      /\ \A q \in Pod : In(q)' <=> In(q)
      /\ \A n : SeenAt(clusterState, n)' = SeenAt(clusterState, n)
  BY <1>1, <1>2, <1>4, ViewSame
<1>7. Quiet
  BY <1>4, <1>6 DEF Quiet
<1>8. api' \in [Pod -> ApiPod] /\ watchq' \in Seq(WatchEvent)
  BY DEF IInv, KubernetesTypeOK
<1>9. ControlFill'
  BY <1>1, <1>2, <1>3, <1>6, ControlKept
<1>10. CASE ~watching
  <2>1. watchq' = watchq
    BY <1>3, <1>10
  <2>2. Pipe' = Pipe
    BY <1>2, <2>1, PipeStays
  <2>3. NewsFill' /\ Onward
    BY <1>1, <1>4, <1>6, <2>2, NewsSame, OnwardSame
  <2>4. WatchFill'
    BY <1>1, <1>2, <1>4, <1>8, <1>10, <2>1, WatchKept
  <2> QED
    BY <1>1, <1>2, <1>5, <1>6, <1>7, <1>9, <2>3, <2>4, QueueKept, BufferKept DEF FillInv
<1>11. CASE watching /\ Created(p)
  <2>1. Exists(p)' /\ api'[p].node = Nil /\ ~Bound(p) /\ ~Exists(p) /\ api[p].phase = "Absent"
        /\ \A q \in Pod : q # p => api'[q] = api[q]
    BY <1>1, <1>11, CreatedMoves DEF Created
  <2>2. watchq' = Append(watchq, Event("Added", p, api'[p]))
    BY <1>3, <1>11 DEF Created, Started
  <2>3. PICK e \in WatchEvent : /\ watchq' = Append(watchq, e) /\ e.type = "Added" /\ e.pod = p /\ e.node = Nil
                                /\ Says(e) = Note("created", p)
    BY <1>8, <2>1, <2>2, EventIs
  <2>4. Pipe' = Append(Pipe, Note("created", p)) /\ Note("created", p) \in Notes
    BY <1>1, <1>2, <2>3, PipeSent
  <2>5. \A i \in DOMAIN Pipe : Pipe[i].pod # p
    BY <1>1, <2>1 DEF NewsFill, IsNews
  <2>6. IsNews(Note("created", p))'
    <3>1. ~In(p)'
      BY <1>1, <1>6, <2>1, SeenIsThere
    <3> QED
      BY <2>1, <3>1, NoteIs DEF IsNews
  <2>7. NewsFill'
    BY <1>1, <1>4, <1>6, <2>4, <2>5, <2>6, NoteIs, NewsSent
  <2>8. Onward
    BY <1>1, <2>1, <2>4, NoteIs, OnwardSent
  <2>9. p \notin podIdToName
    BY <1>1, <2>1 DEF PodsFill
  <2>10. SoundWatch(e)'
    BY <1>2, <2>3, <2>9 DEF SoundWatch
  <2>11. \A q \in Pod \ podIdToName : Exists(q)' => Exists(q) \/ Says(e) = Note("created", q)
    BY <2>1, <2>3 DEF Exists
  <2>12. WatchFill'
    BY <1>1, <1>2, <1>4, <1>8, <2>3, <2>10, <2>11, WatchKept
  <2> QED
    BY <1>1, <1>2, <1>5, <1>6, <1>7, <1>9, <2>7, <2>8, <2>12, QueueKept, BufferKept DEF FillInv
<1>12. CASE watching /\ Started(p)
  <2>1. api'[p].phase = "Running" /\ api[p].phase = "Pending" /\ Bound(p)' /\ Exists(p)' /\ Exists(p)
        /\ \A q \in Pod : q # p => api'[q] = api[q]
    BY <1>1, <1>12, StartedMoves DEF Started, Exists
  <2>2. watchq' = Append(watchq, Event("Modified", p, api'[p]))
    BY <1>3, <1>12 DEF Created, Started
  <2>3. PICK e \in WatchEvent : /\ watchq' = Append(watchq, e) /\ e.type = "Modified" /\ e.pod = p
                                /\ e.phase = "Running" /\ e.node = api'[p].node /\ Says(e) = Note("started", p)
    BY <1>8, <2>1, <2>2, EventIs
  <2>4. Pipe' = Append(Pipe, Note("started", p)) /\ Note("started", p) \in Notes
    BY <1>1, <1>2, <2>3, PipeSent
  <2>5. \A i \in DOMAIN Pipe : Pipe[i].pod = p => Rank[Pipe[i].what] < Rank["started"]
    <3> TAKE i \in DOMAIN Pipe
    <3>1. Pipe[i] \in Notes /\ IsNews(Pipe[i])
      BY <1>1, PipeIs DEF NewsFill
    <3>2. Pipe[i].pod = p => Pipe[i].what # "started"
      BY <2>1, <3>1 DEF IsNews
    <3> QED
      BY <3>1, <3>2, NoteIs, RankIs
  <2>6. IsNews(Note("started", p))'
    BY <2>1, NoteIs DEF IsNews
  <2>7. NewsFill'
    BY <1>1, <1>4, <1>6, <2>4, <2>5, <2>6, NoteIs, NewsSent
  <2>8. Onward
    BY <1>1, <2>4, NoteIs, OnwardSent
  <2>9. SoundWatch(e)'
    BY <2>3 DEF SoundWatch
  <2>10. \A q \in Pod \ podIdToName : Exists(q)' => Exists(q)
    BY <2>1 DEF Exists
  <2>11. WatchFill'
    BY <1>1, <1>2, <1>4, <1>8, <2>3, <2>9, <2>10, WatchKept
  <2> QED
    BY <1>1, <1>2, <1>5, <1>6, <1>7, <1>9, <2>7, <2>8, <2>11, QueueKept, BufferKept DEF FillInv
<1> QED
  BY <1>3, <1>10, <1>11, <1>12

-----------------------------------------------------------------------------
(* The watch goroutine.                                                    *)

(* What the first event of the watch is like: of a pod that is not known   *)
(* it is the creation, of another one the binding or the start.            *)
LEMMA FirstSent ==
  ASSUME Fills, watchq # <<>>
  PROVE  LET e == Head(watchq)
         IN /\ e \in WatchEvent /\ e = watchq[1] /\ 1 \in DOMAIN watchq /\ e.pod \in Pod
            /\ SoundWatch(e) /\ IsNews(Says(e)) /\ Says(e).pod = e.pod
            /\ Says(e).what = IF e.type = "Added" THEN "created" ELSE IF e.phase = "Running" THEN "started" ELSE "bound"
            /\ Known(e) <=> e.pod \in podIdToName
            /\ Known(e) <=> e.type = "Modified"
            /\ e.type = "Modified" => Bound(e.pod)
            /\ ~Foreign(e)
<1> DEFINE e == Head(watchq)
<1>1. watchq \in Seq(WatchEvent)
  BY DEF Fills, IInv, KubernetesTypeOK
<1>2. e \in WatchEvent /\ e = watchq[1] /\ 1 \in DOMAIN watchq
  BY <1>1
<1>3. SoundWatch(e) /\ IsNews(Says(e))
  BY <1>2, AllIsNews DEF Fills, FillInv, WatchFill
<1> HIDE DEF e
<1>4. e.pod \in Pod /\ Says(e).pod = e.pod
      /\ Says(e).what = IF e.type = "Added" THEN "created" ELSE IF e.phase = "Running" THEN "started" ELSE "bound"
  BY <1>2, NoteIs DEF WatchEvent, Says
<1>5. Known(e) <=> e.pod \in podIdToName
  BY <1>4 DEF Known, Fills, FillInv, ViewFill
<1>6. e.type = "Modified" => Bound(e.pod)
  BY <1>3, <1>4 DEF IsNews
<1>7. Known(e) <=> e.type = "Modified"
  BY <1>3, <1>4, <1>5, <1>6, PodStates DEF SoundWatch, Fills, FillInv
<1>8. ~Foreign(e)
  <2>1. e.node \in Node \cup {Nil}
    BY <1>3, <1>4 DEF SoundWatch, Fills, FillInv, PodsFill
  <2> QED
    BY <2>1, ForeignIsForeign DEF Foreign
<1> QED
  BY <1>2, <1>3, <1>4, <1>5, <1>6, <1>7, <1>8 DEF e

(* An event of a known pod is passed on,                                   *)
LEMMA PassedOn ==
  ASSUME Fills, IInv', Translate(InUse), Known(Head(watchq))
  PROVE  /\ UNCHANGED <<clusterState, podIdToName>>
         /\ \E ev \in SchedulingEvent : eventStream' = <<ev>> /\ Said(ev) = Says(Head(watchq)) /\ Sound(ev)
<1> DEFINE e == Head(watchq)
<1>1. watchq # <<>>
  BY DEF Translate, CanTranslate
<1>2. /\ e \in WatchEvent /\ e.pod \in Pod /\ SoundWatch(e) /\ e.type = "Modified" /\ Bound(e.pod)
      /\ Known(e) /\ e.pod \in podIdToName
  BY <1>1, FirstSent
<1>3. PICK o \in PodObj :
        /\ Register(e, o)
        /\ eventStream' = <<[type |-> TypeOfEvent(e.type), obj |-> o, node |-> e.node, status |-> StatusOf(e.phase)]>>
  BY <1>2 DEF Translate
<1> DEFINE ev == [type |-> TypeOfEvent(e.type), obj |-> o, node |-> e.node, status |-> StatusOf(e.phase)]
<1> HIDE DEF e
<1>4. o = clusterState.podsMap[e.pod] /\ UNCHANGED <<clusterState, podIdToName>> /\ Id(o) = e.pod
  BY <1>2, <1>3, KnownPod DEF Register, Fills, FillInv
<1>5. ev.type = "POD_CHANGED" /\ ev.obj = o /\ ev.node = e.node /\ ev.status = StatusOf(e.phase)
  BY <1>2 DEF TypeOfEvent
<1>6. e.phase \in {"Pending", "Running"} /\ e.node = api[e.pod].node
  BY <1>2 DEF SoundWatch
<1>7. StatusOf(e.phase) = IF e.phase = "Running" THEN "RUNNING" ELSE "SCHEDULED"
  BY <1>6 DEF StatusOf
<1>8. ev \in SchedulingEvent
  <2>1. e.node \in Node
    BY <1>2, <1>6, PodStates DEF Fills, FillInv
  <2> QED
    BY <1>2, <1>7, <2>1 DEF SchedulingEvent, EventType, Status, TypeOfEvent
<1>9. Said(ev) = Says(e)
  BY <1>2, <1>4, <1>5, <1>6, <1>7 DEF Said, Says
<1>10. Sound(ev)
  BY <1>2, <1>4, <1>5, <1>6 DEF Sound
<1> QED
  BY <1>3, <1>4, <1>8, <1>9, <1>10 DEF e

(* and an unknown pod, which was just created, is registered.              *)
LEMMA Registered ==
  ASSUME Fills, IInv', Translate(InUse), ~Known(Head(watchq))
  PROVE  LET p == Head(watchq).pod
         IN /\ p \in Pod \ podIdToName /\ podIdToName' = podIdToName \cup {p} /\ Head(watchq).type = "Added"
            /\ \E o \in PodObj : /\ Id(o) = p /\ clusterState.podsMap[p] = Nil
                                 /\ clusterState'.podsMap = [clusterState.podsMap EXCEPT ![p] = o]
            /\ clusterState'.node = clusterState.node /\ clusterState'.nodeUsed = clusterState.nodeUsed
            /\ clusterState'.edgePods = clusterState.edgePods /\ clusterState'.cloudPods = clusterState.cloudPods
            /\ \E ev \in SchedulingEvent :
                 /\ eventStream' = <<ev>> /\ Said(ev) = Says(Head(watchq))
                 /\ Id(ev.obj) = p /\ ev.type = "POD_CREATED" /\ ev.node = Nil
<1> DEFINE e == Head(watchq)
           p == e.pod
<1>1. watchq # <<>>
  BY DEF Translate, CanTranslate
<1>2. /\ e \in WatchEvent /\ p \in Pod /\ SoundWatch(e) /\ ~Known(e) /\ e.type # "Modified" /\ p \notin podIdToName
  BY <1>1, FirstSent
<1>3. e.type = "Added" /\ e.node = Nil
  BY <1>2 DEF SoundWatch
<1>4. PICK o \in FreshObj(e.pod, InUse) :
        /\ Register(e, o)
        /\ eventStream' = <<[type |-> TypeOfEvent(e.type), obj |-> o, node |-> e.node, status |-> StatusOf(e.phase)]>>
  BY <1>2 DEF Translate
<1> DEFINE ev == [type |-> TypeOfEvent(e.type), obj |-> o, node |-> e.node, status |-> StatusOf(e.phase)]
<1> HIDE DEF e
<1>5. o \in PodObj /\ Id(o) = p
  BY <1>2, FreshObjType
<1>6. clusterState.podsMap[p] = Nil /\ clusterState \in ClusterStates /\ Tidy(clusterState)
  BY <1>2 DEF Known, Fills, FillInv, ViewFill, IInv, ConnectorTypeOK
<1>7. clusterState.node[o] = Nil
  BY <1>5, <1>6, Unseen DEF Seen
<1>8. /\ podIdToName' = podIdToName \cup {p}
      /\ clusterState' = [NewPod(clusterState, o, "SCHEDULED") EXCEPT !.podsMap[e.pod] = o]
  BY <1>2, <1>4 DEF Register
<1>9. clusterState' = [clusterState EXCEPT !.node = [clusterState.node EXCEPT ![o] = Nil],
                                           !.status = [clusterState.status EXCEPT ![o] = "SCHEDULED"],
                                           !.podsMap = [clusterState.podsMap EXCEPT ![p] = o]]
  BY <1>6, <1>8 DEF NewPod, ClusterStates
<1>10. [clusterState.node EXCEPT ![o] = Nil] = clusterState.node
  BY <1>5, <1>6, <1>7 DEF ClusterStates
<1>11. /\ clusterState'.node = clusterState.node /\ clusterState'.nodeUsed = clusterState.nodeUsed
       /\ clusterState'.edgePods = clusterState.edgePods /\ clusterState'.cloudPods = clusterState.cloudPods
       /\ clusterState'.podsMap = [clusterState.podsMap EXCEPT ![p] = o]
  BY <1>6, <1>9, <1>10 DEF ClusterStates
<1>12. ev \in SchedulingEvent /\ ev.type = "POD_CREATED" /\ ev.obj = o /\ ev.node = Nil
  <2>1. StatusOf(e.phase) \in Status
    BY DEF StatusOf, Status
  <2> QED
    BY <1>3, <1>5, <2>1 DEF SchedulingEvent, EventType, TypeOfEvent
<1>13. Said(ev) = Says(e)
  BY <1>3, <1>5, <1>12 DEF Said, Says
<1> QED
  BY <1>2, <1>3, <1>4, <1>5, <1>6, <1>8, <1>11, <1>12, <1>13 DEF e

(* The head of the watch is read, and makes a new pod known.               *)
LEMMA WatchRead ==
  ASSUME Fills, UNCHANGED <<api, pc, event, watching>>, watchq # <<>>, watchq' = Tail(watchq),
         NEW ev \in SchedulingEvent, eventStream' = <<ev>>, Sound(ev)',
         \A q \in Pod : q \in podIdToName' <=> q \in podIdToName \/ Says(Head(watchq)) = Note("created", q)
  PROVE  WatchFill'
<1>1. /\ IInv /\ NewsFill /\ WatchFill /\ Grows /\ watchq \in Seq(WatchEvent) /\ podIdToName \subseteq Pod
      /\ pc = "event" => event \in SchedulingEvent
  BY SameMoves DEF Fills, FillInv, IInv, KubernetesTypeOK, ConnectorTypeOK, ControlTypeOK
<1>2. /\ Head(watchq) = watchq[1] /\ 1 \in DOMAIN watchq
      /\ \A i \in DOMAIN watchq' : i + 1 \in DOMAIN watchq /\ watchq'[i] = watchq[i + 1] /\ i \in Nat
      /\ \A i \in DOMAIN watchq : i # 1 => i - 1 \in DOMAIN watchq' /\ watchq'[i - 1] = watchq[i]
  BY <1>1, TailAt
<1>3. ASSUME NEW i \in DOMAIN watchq'
      PROVE  SoundWatch(watchq[i])'
  <2> DEFINE e == watchq[i + 1]
  <2>1. e \in WatchEvent /\ SoundWatch(e) /\ IsNews(Says(e)) /\ watchq'[i] = e
    BY <1>1, <1>2, AllIsNews DEF WatchFill
  <2>2. Says(e) # Says(Head(watchq))
    <3>1. Ahead + (i + 1) \in DOMAIN Pipe /\ Pipe[Ahead + (i + 1)] = Says(e)
      BY <1>1, <1>2, PipeIndex
    <3>2. Ahead + 1 \in DOMAIN Pipe /\ Pipe[Ahead + 1] = Says(Head(watchq)) /\ Ahead \in Nat
      BY <1>1, <1>2, PipeIndex
    <3>3. Ahead + (i + 1) # Ahead + 1
      BY <1>2, <1>3, <3>2
    <3>4. Pipe \in Seq(Notes) /\ Orderly(Pipe)
      BY <1>1, PipeIs DEF NewsFill
    <3> QED
      BY <3>1, <3>2, <3>3, <3>4, ToldOnce
  <2>3. e.pod \in Pod /\ e.phase = e.phase
    BY <2>1 DEF WatchEvent
  <2> HIDE DEF e
  <2>4. CASE e.type = "Added" /\ e.pod \notin podIdToName /\ e.node = Nil
    <3>1. Says(e) = Note("created", e.pod)
      BY <2>4 DEF Says
    <3>2. e.pod \notin podIdToName'
      BY <2>2, <2>3, <2>4, <3>1
    <3> QED
      BY <2>1, <2>4, <3>2 DEF SoundWatch
  <2>5. CASE e.type = "Modified" /\ e.phase \in {"Pending", "Running"} /\ e.node = api[e.pod].node
    BY <2>1, <2>5 DEF SoundWatch
  <2> QED
    BY <2>1, <2>4, <2>5 DEF SoundWatch
<1>4. podIdToName \subseteq podIdToName'
  BY <1>1
<1>5. pc = "event" => Sound(event)'
  BY <1>1, <1>4, AllIsNews, SoundKept DEF WatchFill
<1>6. ASSUME NEW q \in Pod \ podIdToName', Exists(q), watching
      PROVE  \E i \in DOMAIN watchq' : Says(watchq'[i]) = Note("created", q)
  <2>1. q \notin podIdToName /\ Says(Head(watchq)) # Note("created", q)
    BY <1>6
  <2>2. PICK i \in DOMAIN watchq : Says(watchq[i]) = Note("created", q)
    BY <1>1, <1>6, <2>1 DEF WatchFill
  <2>3. i # 1
    BY <1>2, <2>1, <2>2
  <2> QED
    BY <1>2, <2>2, <2>3
<1>7. (\A i \in DOMAIN watchq : SoundWatch(watchq[i]))'
  BY <1>3 DEF SoundWatch
<1>8. (\A i \in DOMAIN eventStream : Sound(eventStream[i]))' /\ Len(eventStream') <= 1
  BY DEF Sound
<1>9. (pc = "event" => Sound(event))'
  BY <1>5 DEF Sound
<1>10. (\A q \in Pod \ podIdToName :
          Exists(q) /\ watching => \E i \in DOMAIN watchq : Says(watchq[i]) = Note("created", q))'
  BY <1>6 DEF Exists, Says, Note
<1> QED
  BY <1>7, <1>8, <1>9, <1>10 DEF WatchFill

(* So the watch goroutine keeps FillInv.                                   *)
LEMMA WatchFills ==
  ASSUME Fills, IInv', Watch
  PROVE  FillInv'
<1>1. /\ IInv /\ PodsFill /\ ViewFill /\ NewsFill /\ WatchFill /\ QueueFill /\ BufferFill /\ ControlFill
      /\ UNCHANGED <<planVars, syncVars, expectations, goingToPlace, newPodBuffer, suggestion, pc, event>>
  BY DEF Fills, FillInv, Watch, schedulerVars, planVars
<1>2. Translate(InUse)
  <2>1. watchq # <<>> => ~Foreign(Head(watchq))
    BY FirstSent
  <2> QED
    BY <2>1 DEF Watch, TranslateForeign, CanTranslate
<1>3. /\ UNCHANGED <<api, watching>> /\ watchq # <<>> /\ eventStream = <<>> /\ watchq' = Tail(watchq) /\ watching
  BY <1>2 DEF Translate, CanTranslate
<1> DEFINE e == Head(watchq)
<1>4. /\ e \in WatchEvent /\ e.pod \in Pod /\ IsNews(Says(e)) /\ Says(e).pod = e.pod
      /\ Says(e).what = IF e.type = "Added" THEN "created" ELSE IF e.phase = "Running" THEN "started" ELSE "bound"
      /\ Known(e) <=> e.pod \in podIdToName
      /\ Known(e) <=> e.type = "Modified"
  BY <1>3, FirstSent
<1>5. /\ Grows /\ \A q \in Pod : (Bound(q)' <=> Bound(q)) /\ (Unbound(q)' <=> Unbound(q)) /\ (Exists(q)' <=> Exists(q))
  BY <1>3, SameMoves
<1>6. /\ PodsFill' /\ ViewFill' /\ WatchFill'
      /\ \A q \in Pod : In(q)' <=> In(q)
      /\ \A n : SeenAt(clusterState, n)' = SeenAt(clusterState, n)
      /\ \E ev \in SchedulingEvent : eventStream' = <<ev>> /\ Said(ev) = Says(e)
  <2>1. CASE Known(e)
    <3>1. PICK ev \in SchedulingEvent : eventStream' = <<ev>> /\ Said(ev) = Says(e) /\ Sound(ev)
      BY <1>2, <2>1, PassedOn
    <3>2. UNCHANGED <<clusterState, podIdToName>>
      BY <1>2, <2>1, PassedOn
    <3>3. Sound(ev)'
      BY <1>3, <3>1, <3>2 DEF Sound
    <3>4. \A q \in Pod : q \in podIdToName' <=> q \in podIdToName \/ Says(e) = Note("created", q)
      BY <1>4, <2>1, <3>2, NoteIs
    <3>5. WatchFill'
      <4> HIDE DEF e
      <4>1. \A q \in Pod : q \in podIdToName' <=> q \in podIdToName \/ Says(Head(watchq)) = Note("created", q)
        BY <3>4 DEF e
      <4> QED
        BY <1>1, <1>3, <3>1, <3>3, <4>1, WatchRead
    <3>6. PodsFill'
      BY <1>1, <1>3, <3>2, PodsFillSame
    <3>7. /\ ViewFill'
          /\ \A q \in Pod : In(q)' <=> In(q)
          /\ \A n : SeenAt(clusterState, n)' = SeenAt(clusterState, n)
      BY <1>1, <1>5, <3>2, ViewSame
    <3> QED
      BY <3>1, <3>5, <3>6, <3>7
  <2>2. CASE ~Known(e)
    <3>1. /\ e.pod \in Pod \ podIdToName /\ podIdToName' = podIdToName \cup {e.pod} /\ e.type = "Added"
          /\ clusterState'.node = clusterState.node /\ clusterState'.nodeUsed = clusterState.nodeUsed
          /\ clusterState'.edgePods = clusterState.edgePods /\ clusterState'.cloudPods = clusterState.cloudPods
      BY <1>2, <2>2, Registered
    <3>2. PICK o \in PodObj : /\ Id(o) = e.pod /\ clusterState.podsMap[e.pod] = Nil
                              /\ clusterState'.podsMap = [clusterState.podsMap EXCEPT ![e.pod] = o]
      BY <1>2, <2>2, Registered
    <3>3. PICK ev \in SchedulingEvent :
            /\ eventStream' = <<ev>> /\ Said(ev) = Says(e)
            /\ Id(ev.obj) = e.pod /\ ev.type = "POD_CREATED" /\ ev.node = Nil
      BY <1>2, <2>2, Registered
    <3>4. Sound(ev)'
      BY <3>1, <3>3 DEF Sound
    <3>5. Says(e) = Note("created", e.pod)
      BY <3>1 DEF Says
    <3>6. \A q \in Pod : q \in podIdToName' <=> q \in podIdToName \/ Says(e) = Note("created", q)
      BY <3>1, <3>5, NoteIs
    <3>7. WatchFill'
      <4> HIDE DEF e
      <4>1. \A q \in Pod : q \in podIdToName' <=> q \in podIdToName \/ Says(Head(watchq)) = Note("created", q)
        BY <3>6 DEF e
      <4> QED
        BY <1>1, <1>3, <3>3, <3>4, <4>1, WatchRead
    <3>8. PodsFill'
      <4>1. Exists(e.pod)
        BY <1>4 DEF IsNews
      <4>2. api[e.pod].phase # "Absent"
        BY <4>1 DEF Exists
      <4> QED
        BY <1>1, <1>3, <3>1, <4>2, PodsFillSame
    <3>9. /\ ViewFill'
          /\ \A q \in Pod : In(q)' <=> In(q)
          /\ \A n : SeenAt(clusterState, n)' = SeenAt(clusterState, n)
      <4> HIDE DEF e
      <4> QED
        BY <1>1, <1>3, <3>1, <3>2, ViewTouched
    <3> QED
      BY <3>3, <3>7, <3>8, <3>9
  <2> QED
    BY <2>1, <2>2
<1>7. Quiet
  BY <1>5, <1>6 DEF Quiet
<1>8. Pipe' = Pipe
  BY <1>1, <1>3, <1>6, PipeOffered
<1>9. NewsFill' /\ Onward
  BY <1>1, <1>5, <1>6, <1>8, NewsSame, OnwardSame
<1>10. ControlFill'
  BY <1>1, <1>3, <1>6, ControlKept
<1> QED
  BY <1>1, <1>6, <1>7, <1>9, <1>10, QueueKept, BufferKept DEF FillInv

-----------------------------------------------------------------------------
(* Steps of the scheduler between two of its states.                       *)

(* The goroutine of the scheduler goes from one of its states to another.  *)
LEMMA ControlMoved ==
  ASSUME IInv, ControlFill, ~Booting, pc' \in {"select", "event", "list", "match", "batch"},
         UNCHANGED <<syncVars, watching>>,
         pc' \in {"list", "match", "batch"} => expectations' = <<>> \/ StuckMove',
         pc' = "list" => newPodBuffer' = <<>>,
         MigrantsIn'
  PROVE  ControlFill' /\ ~Booting'
<1>1. ~Booting' /\ watching'
  BY DEF ControlFill, Booting
<1>2. toForget' = {} /\ toPlace' = {}
  BY DEF ControlFill, syncVars
<1> QED
  BY <1>1, <1>2 DEF ControlFill

(* Nothing on the API server and in the view changes.                      *)
LEMMA StillWorld ==
  ASSUME IInv, PodsFill, ViewFill, UNCHANGED <<api, clusterState, podIdToName>>
  PROVE  /\ PodsFill' /\ ViewFill' /\ Quiet /\ Grows
         /\ \A p \in Pod : /\ In(p)' <=> In(p)
                           /\ Bound(p)' <=> Bound(p)
                           /\ Unbound(p)' <=> Unbound(p)
                           /\ Exists(p)' <=> Exists(p)
<1>1. /\ Grows
      /\ \A p \in Pod : (Bound(p)' <=> Bound(p)) /\ (Unbound(p)' <=> Unbound(p)) /\ (Exists(p)' <=> Exists(p))
  BY SameMoves
<1>2. PodsFill'
  BY PodsFillSame
<1>3. /\ ViewFill'
      /\ \A p \in Pod : In(p)' <=> In(p)
      /\ \A n : SeenAt(clusterState, n)' = SeenAt(clusterState, n)
  BY <1>1, ViewSame
<1> QED
  BY <1>1, <1>2, <1>3 DEF Quiet

(* Nor does what is under way, and no event is being handled.              *)
LEMMA StillNewsAndWatch ==
  ASSUME IInv, IInv', PodsFill, ViewFill, NewsFill, WatchFill, pc # "event", pc' # "event",
         UNCHANGED <<api, clusterState, podIdToName, eventStream, watchq, watching>>
  PROVE  NewsFill' /\ WatchFill' /\ Onward /\ Pipe' = Pipe
<1>1. Pipe' = Pipe
  BY PipeIdle
<1>2. /\ Grows
      /\ \A p \in Pod : (In(p)' <=> In(p)) /\ (Bound(p)' <=> Bound(p)) /\ (Exists(p)' <=> Exists(p))
  BY StillWorld
<1>3. NewsFill'
  BY <1>1, <1>2, NewsSame
<1>4. WatchFill'
  BY <1>2, WatchKept DEF IInv, KubernetesTypeOK
<1> QED
  BY <1>1, <1>3, <1>4, OnwardSame

(* A step that only moves the control on, or drops a suggestion.           *)
LEMMA ControlOnly ==
  ASSUME Fills, IInv', pc # "event", pc' # "event",
         UNCHANGED <<api, clusterState, podIdToName, eventStream, watchq, watching,
                     expectations, goingToPlace, newPodBuffer>>,
         ControlFill', pc' = "select" => pc = "select" \/ newPodBuffer = <<>>
  PROVE  FillInv'
<1>1. /\ IInv /\ PodsFill /\ ViewFill /\ NewsFill /\ WatchFill /\ QueueFill /\ BufferFill
  BY DEF Fills, FillInv
<1>2. PodsFill' /\ ViewFill' /\ Quiet
  BY <1>1, StillWorld
<1>3. NewsFill' /\ WatchFill' /\ Onward
  BY <1>1, StillNewsAndWatch
<1>4. QueueFill' /\ BufferFill'
  BY <1>1, <1>2, <1>3, QueueKept, BufferKept
<1> QED
  BY <1>2, <1>3, <1>4 DEF FillInv

(* A sequence of at most one element.                                      *)
LEMMA OneElement ==
  ASSUME NEW S, NEW q \in Seq(S), Len(q) <= 1, q # <<>>
  PROVE  q = <<q[1]>> /\ q[1] \in S
<1>1. Len(q) \in Nat /\ Len(q) # 0
  OBVIOUS
<1>2. Len(q) = 1 /\ q[1] \in S
  BY <1>1
<1>3. Len(<<q[1]>>) = 1 /\ <<q[1]>> \in Seq(S) /\ <<q[1]>>[1] = q[1]
  BY <1>2
<1> QED
  BY <1>2, <1>3

(* The event on offer is taken in hand.                                    *)
LEMMA ReceiveFills ==
  ASSUME Fills, IInv', ReceiveEvent
  PROVE  FillInv'
<1>1. /\ IInv /\ PodsFill /\ ViewFill /\ NewsFill /\ WatchFill /\ QueueFill /\ BufferFill /\ ControlFill
      /\ pc = "select" /\ pc' = "event" /\ eventStream # <<>> /\ event' = eventStream[1] /\ eventStream' = <<>>
      /\ UNCHANGED <<api, clusterState, podIdToName, watchq, watching, expectations, goingToPlace,
                     newPodBuffer, syncVars, suggestion>>
  BY DEF Fills, FillInv, ReceiveEvent, kubernetesVars, planVars
<1>2. PICK e \in SchedulingEvent : eventStream = <<e>> /\ event' = e
  <2>1. eventStream \in Seq(SchedulingEvent) /\ Len(eventStream) <= 1 /\ eventStream # <<>>
    BY <1>1 DEF IInv, ConnectorTypeOK, WatchFill
  <2>2. eventStream = <<eventStream[1]>> /\ eventStream[1] \in SchedulingEvent
    BY <2>1, OneElement
  <2> QED
    BY <1>1, <2>2
<1>3. Pipe' = Pipe
  BY <1>1, <1>2, PipeTaken
<1>4. /\ PodsFill' /\ ViewFill' /\ Quiet /\ Grows
      /\ \A p \in Pod : (In(p)' <=> In(p)) /\ (Bound(p)' <=> Bound(p)) /\ (Exists(p)' <=> Exists(p))
  BY <1>1, StillWorld
<1>5. NewsFill' /\ Onward
  BY <1>1, <1>3, <1>4, NewsSame, OnwardSame
<1>6. QueueFill' /\ BufferFill'
  BY <1>1, <1>4, <1>5, QueueKept, BufferKept
<1>7. WatchFill'
  <2>1. (\A i \in DOMAIN watchq : SoundWatch(watchq[i]))'
    BY <1>1 DEF WatchFill, SoundWatch
  <2>2. (\A p \in Pod \ podIdToName :
           Exists(p) /\ watching => \E i \in DOMAIN watchq : Says(watchq[i]) = Note("created", p))'
    BY <1>1 DEF WatchFill, Exists, Says, Note
  <2>3. Sound(e)
    BY <1>1, <1>2 DEF WatchFill
  <2>4. Sound(event)'
    BY <1>1, <1>2, <2>3 DEF Sound
  <2>5. Len(<<>>) <= 1 /\ DOMAIN <<>> = {}
    OBVIOUS
  <2> QED
    BY <1>1, <2>1, <2>2, <2>4, <2>5 DEF WatchFill
<1>8. ControlFill'
  <2>1. ~Booting
    BY <1>1 DEF Booting
  <2>2. MigrantsIn'
    BY <1>1, <1>4, SuggestionKept
  <2> QED
    BY <1>1, <2>1, <2>2, ControlMoved
<1> QED
  BY <1>4, <1>5, <1>6, <1>7, <1>8 DEF FillInv

(* The scheduling timer fires.                                             *)
LEMMA TickFills ==
  ASSUME Fills, IInv', ScheduleTick
  PROVE  FillInv'
<1>1. /\ IInv /\ QueueFill /\ ControlFill /\ pc = "select" /\ pc' # "event"
      /\ UNCHANGED <<api, clusterState, podIdToName, eventStream, watchq, watching, expectations, goingToPlace,
                     newPodBuffer, syncVars, suggestion>>
  BY DEF Fills, FillInv, ScheduleTick, Schedule, kubernetesVars, connectorVars, planVars
<1>2. pc' \in {"list", "match"} /\ (pc' = "list" => newPodBuffer = <<>>)
      /\ ~(expectations # <<>> /\ expectations[1].tp = "PLACING")
  BY <1>1 DEF ScheduleTick, Schedule
<1>3. expectations' = <<>> \/ StuckMove'
  <2>1. Placing => expectations = <<>>
    BY <1>1, <1>2 DEF Placing, IInv, PlanOK, PlanTypeOK, IsPlan
  <2> QED
    BY <1>1, <2>1 DEF QueueFill, StuckMove
<1>4. MigrantsIn'
  BY <1>1, SuggestionKept DEF In, Seen
<1>5. ControlFill'
  BY <1>1, <1>2, <1>3, <1>4, ControlMoved DEF Booting
<1> QED
  BY <1>1, <1>2, <1>5, ControlOnly

(* A suggestion is dropped, or the health check takes a sample.            *)
LEMMA DropFills ==
  ASSUME Fills, IInv', DropSuggestion \/ CheckHealth
  PROVE  FillInv'
<1>1. /\ IInv /\ QueueFill /\ ControlFill /\ pc = "select" /\ pc' = "select"
      /\ UNCHANGED <<api, clusterState, podIdToName, eventStream, watchq, watching, expectations, goingToPlace,
                     newPodBuffer, syncVars>>
      /\ suggestion' = Nil \/ suggestion' = suggestion
  BY DEF Fills, FillInv, DropSuggestion, CheckHealth, kubernetesVars, connectorVars, planVars
<1>2. MigrantsIn'
  <2>1. CASE suggestion' = Nil
    BY <2>1 DEF MigrantsIn
  <2>2. CASE suggestion' = suggestion
    BY <1>1, <2>2, SuggestionKept DEF In, Seen
  <2> QED
    BY <1>1, <2>1, <2>2
<1>3. ControlFill'
  BY <1>1, <1>2, ControlMoved DEF Booting
<1> QED
  BY <1>1, <1>3, ControlOnly

(* A migration is suggested only of what is entered on the edge.           *)
LEMMA SuggestFills ==
  ASSUME Fills, IInv', MakeSuggestion
  PROVE  FillInv'
<1>1. /\ IInv /\ ViewFill /\ ControlFill /\ pc = "select" /\ pc' = "select"
      /\ UNCHANGED <<api, clusterState, podIdToName, eventStream, watchq, watching, expectations, goingToPlace,
                     newPodBuffer, syncVars>>
      /\ suggestion' \in Suggestions(clusterState)
  BY DEF Fills, FillInv, MakeSuggestion, kubernetesVars, connectorVars, planVars
<1>2. ASSUME NEW m \in suggestion'.migrations
      PROVE  m.pod \in Pod /\ In(m.pod)
  <2>1. suggestion'.migrations = {} \/ suggestion'.migrations \in MigrationsOf(clusterState)
    <3>1. CASE Conflict(clusterState)
      BY <1>1, <3>1 DEF Suggestions
    <3>2. CASE ~Conflict(clusterState)
      <4>1. PICK S \in CloudToEdge(clusterState) :
              suggestion' \in {[toEdge |-> S, migrations |-> ms] : ms \in IF S = {} THEN {{}} ELSE MigrationsOf(clusterState)}
        BY <1>1, <3>2 DEF Suggestions
      <4>2. PICK ms \in (IF S = {} THEN {{}} ELSE MigrationsOf(clusterState)) :
              suggestion' = [toEdge |-> S, migrations |-> ms]
        BY <4>1
      <4> QED
        BY <4>2
    <3> QED
      BY <3>1, <3>2
  <2>2. suggestion'.migrations \in MigrationsOf(clusterState) /\ suggestion'.migrations # {}
    BY <1>2, <2>1
  <2>3. PICK M, f : /\ M \in SUBSET {o \in PodObj : clusterState.edgePods[o] > 0} /\ f \in [M -> EdgeNode]
                    /\ suggestion'.migrations = {[pod |-> Id(o), from |-> clusterState.node[o], to |-> f[o]] : o \in DOMAIN f}
    BY <2>2 DEF MigrationsOf
  <2>4. PICK o \in PodObj : clusterState.edgePods[o] > 0 /\ m.pod = Id(o)
    BY <1>2, <2>3
  <2>5. clusterState.node[o] \in EdgeNode
    BY <1>1, <2>4 DEF ViewFill, Tidy
  <2>6. clusterState.podsMap[Id(o)] = o /\ clusterState.node[o] # Nil /\ o # Nil
    BY <1>1, <2>5, NodesAreDistinct, NilIsNoObject DEF ViewFill, Tidy
  <2> QED
    BY <2>4, <2>6, PodObjType DEF In, Seen
<1>4. MigrantsIn'
  BY <1>1, <1>2 DEF MigrantsIn, In, Seen
<1>5. ControlFill'
  BY <1>1, <1>4, ControlMoved DEF Booting
<1> QED
  BY <1>1, <1>5, ControlOnly

-----------------------------------------------------------------------------
(* handleEvent.                                                            *)

(* The event that is handled: its pod is known, and what it says is news.  *)
LEMMA EventIsNews ==
  ASSUME Fills, pc = "event"
  PROVE  LET p == Id(event.obj)
         IN /\ event \in SchedulingEvent /\ event.obj \in PodObj /\ p \in Pod /\ p \in podIdToName
            /\ Handled \in PodObj /\ Handled # Nil /\ Id(Handled) = p
            /\ Pipe \in Seq(Notes) /\ Pipe # <<>> /\ 1 \in DOMAIN Pipe /\ Pipe[1] = Said(event) /\ Said(event).pod = p
            /\ Said(event).what = IF event.type = "POD_CREATED" THEN "created"
                                  ELSE IF event.status = "RUNNING" THEN "started" ELSE "bound"
            /\ event.type \in {"POD_CREATED", "POD_CHANGED"}
            /\ event.type = "POD_CREATED" => ~In(p) /\ event.node = Nil /\ Exists(p)
            /\ event.type = "POD_CHANGED" => Bound(p) /\ event.node = api[p].node /\ event.node # Nil /\ event.node \in Node
            /\ event.type = "POD_CHANGED" /\ event.status # "RUNNING" => ~In(p)
            /\ In(p) <=> clusterState.node[Handled] # Nil
            /\ In(p) => clusterState.node[Handled] = api[p].node
<1> DEFINE p == Id(event.obj)
<1>1. /\ IInv /\ PodsFill /\ ViewFill /\ NewsFill /\ WatchFill /\ event \in SchedulingEvent
  BY DEF Fills, FillInv, IInv, ControlTypeOK
<1>2. /\ event.obj \in PodObj /\ p \in Pod
      /\ Said(event) = Note(IF event.type = "POD_CREATED" THEN "created"
                            ELSE IF event.status = "RUNNING" THEN "started" ELSE "bound", p)
  BY <1>1, PodObjType DEF SchedulingEvent, Said
<1>3. Sound(event)
  BY <1>1 DEF WatchFill
<1>4. p \in podIdToName /\ event.type \in {"POD_CREATED", "POD_CHANGED"}
      /\ event.node = IF event.type = "POD_CREATED" THEN Nil ELSE api[p].node
  BY <1>3 DEF Sound
<1> HIDE DEF p
<1>5. Handled = clusterState.podsMap[p]
  BY DEF Handled, p
<1>6. Handled \in PodObj /\ Handled # Nil /\ Id(Handled) = p
  BY <1>1, <1>4, <1>5, KnownPod
<1>7. Pipe \in Seq(Notes) /\ Pipe # <<>> /\ Pipe[1] = Said(event) /\ 1 \in DOMAIN Pipe
  BY <1>1, PipeIs, TailAt
<1>8. /\ Said(event).pod = p
      /\ Said(event).what = IF event.type = "POD_CREATED" THEN "created"
                            ELSE IF event.status = "RUNNING" THEN "started" ELSE "bound"
  BY <1>2, NoteIs
<1>9. IsNews(Said(event))
  BY <1>1, AllIsNews
<1>10. In(p) <=> clusterState.node[Handled] # Nil
  BY <1>5, <1>6 DEF In, Seen
<1>11. In(p) => clusterState.node[Handled] = api[p].node
  BY <1>1, <1>2, <1>5, SeenIsThere
<1>12. event.type = "POD_CREATED" => ~In(p) /\ event.node = Nil /\ Exists(p)
  BY <1>4, <1>8, <1>9 DEF IsNews
<1>13. event.type = "POD_CHANGED" => Bound(p) /\ event.node = api[p].node /\ event.node # Nil /\ event.node \in Node
  BY <1>1, <1>2, <1>4, <1>8, <1>9, PodStates DEF IsNews, Bound
<1>14. event.type = "POD_CHANGED" /\ event.status # "RUNNING" => ~In(p)
  BY <1>8, <1>9 DEF IsNews
<1> QED
  BY <1>1, <1>2, <1>4, <1>6, <1>7, <1>8, <1>10, <1>11, <1>12, <1>13, <1>14 DEF p

(* An event that binds nothing is done with, and nobody is called.         *)
LEMMA DoneWith ==
  ASSUME Fills, IInv', pc = "event", pc' # "event", Pipe[1].what # "bound",
         UNCHANGED <<api, podIdToName, eventStream, watchq, watching>>, ViewFill',
         \A q \in Pod : In(q)' <=> In(q), \A n : SeenAt(clusterState, n)' = SeenAt(clusterState, n)
  PROVE  PodsFill' /\ NewsFill' /\ WatchFill' /\ Quiet /\ Onward /\ Pipe' = Tail(Pipe)
<1>1. IInv /\ PodsFill /\ NewsFill /\ WatchFill
  BY DEF Fills, FillInv
<1>2. Pipe \in Seq(Notes) /\ Pipe # <<>>
  BY EventIsNews
<1>3. Pipe' = Tail(Pipe)
  BY <1>1, PipeHandled
<1>4. /\ Grows /\ \A q \in Pod : (Bound(q)' <=> Bound(q)) /\ (Unbound(q)' <=> Unbound(q)) /\ (Exists(q)' <=> Exists(q))
  BY SameMoves
<1>5. \A q \in Pod : Pipe[1] # Note("bound", q)
  BY NoteIs
<1>6. NewsFill'
  BY <1>1, <1>2, <1>3, <1>4, <1>5, NewsHandled
<1>7. PodsFill'
  BY <1>1, PodsFillSame
<1>8. WatchFill'
  BY <1>1, <1>4, WatchKept DEF IInv, KubernetesTypeOK
<1>9. Quiet
  BY <1>4 DEF Quiet
<1> QED
  BY <1>1, <1>2, <1>3, <1>6, <1>7, <1>8, <1>9, OnwardHandled

(* What is ignored is the start of a pod whose binding came with it.       *)
LEMMA IgnoreFills ==
  ASSUME Fills, IInv', IgnoreEvent
  PROVE  FillInv'
<1>1. /\ IInv /\ PodsFill /\ ViewFill /\ NewsFill /\ WatchFill /\ QueueFill /\ BufferFill /\ ControlFill
      /\ pc = "event" /\ pc' = "select"
      /\ UNCHANGED <<api, clusterState, podIdToName, eventStream, watchq, watching, expectations, goingToPlace,
                     newPodBuffer, syncVars, suggestion>>
  BY DEF Fills, FillInv, IgnoreEvent, kubernetesVars, connectorVars, planVars
<1>2. TheSame
  BY <1>1, EventIsNews DEF IgnoreEvent
<1>3. Pipe[1].what # "bound"
  BY <1>1, <1>2, EventIsNews DEF TheSame
<1>4. /\ ViewFill' /\ \A q \in Pod : In(q)' <=> In(q)
      /\ \A n : SeenAt(clusterState, n)' = SeenAt(clusterState, n)
  BY <1>1, StillWorld DEF Quiet
<1>5. PodsFill' /\ NewsFill' /\ WatchFill' /\ Quiet /\ Onward
  BY <1>1, <1>3, <1>4, DoneWith
<1>6. QueueFill' /\ BufferFill'
  BY <1>1, <1>5, QueueKept, BufferKept
<1>7. ControlFill'
  <2>1. MigrantsIn'
    BY <1>1, <1>4, SuggestionKept
  <2> QED
    BY <1>1, <2>1, ControlMoved DEF Booting
<1> QED
  BY <1>4, <1>5, <1>6, <1>7 DEF FillInv

(* Only the status of the object and the count of running pods change.     *)
LEMMA SyncKeeps ==
  ASSUME NEW c \in ClusterStates, NEW o, NEW d \in SyncStatus(c, o)
  PROVE  /\ d.node = c.node /\ d.nodeUsed = c.nodeUsed /\ d.podsMap = c.podsMap
         /\ d.edgePods = c.edgePods /\ d.cloudPods = c.cloudPods
<1>1. PICK s, m : d = [c EXCEPT !.status = s, !.numRunning = m]
  BY DEF SyncStatus, ClusterStates
<1> QED
  BY <1>1 DEF ClusterStates

(* A pod that is not in the view is not said to have started before it is  *)
(* said to be bound.                                                       *)
LEMMA StartedIsIn ==
  ASSUME Fills, pc = "event", event.type = "POD_CHANGED", event.status = "RUNNING"
  PROVE  In(Id(event.obj))
<1> DEFINE p == Id(event.obj)
<1>1. /\ Pipe \in Seq(Notes) /\ 1 \in DOMAIN Pipe /\ Pipe[1].pod = p /\ Pipe[1].what = "started" /\ p \in Pod /\ Bound(p)
  BY EventIsNews
<1> SUFFICES ASSUME ~In(p)
             PROVE  FALSE
  OBVIOUS
<1> HIDE DEF p
<1>2. PICK i \in DOMAIN Pipe : Pipe[i] = Note("bound", p)
  BY <1>1 DEF Fills, FillInv, NewsFill
<1>3. i # 1 /\ 1 < i /\ Pipe[i].pod = p /\ Pipe[i].what = "bound"
  <2>1. Pipe[i].pod = p /\ Pipe[i].what = "bound"
    BY <1>2, NoteIs
  <2>2. i # 1
    BY <1>1, <2>1
  <2> QED
    BY <1>1, <2>1, <2>2
<1>4. Rank[Pipe[1].what] < Rank[Pipe[i].what]
  BY <1>1, <1>3 DEF Fills, FillInv, NewsFill, Orderly
<1> QED
  BY <1>1, <1>3, <1>4, RankIs

(* A binding the scheduler did not wait for does not happen.               *)
LEMMA BoundIsExpected ==
  ASSUME Fills, pc = "event", event.type = "POD_CHANGED", event.status # "RUNNING"
  PROVE  /\ Expected /\ 1 \in DOMAIN expectations /\ expectations[1].kind = "Bind" /\ Placing
         /\ Planned(1) = Id(event.obj) /\ expectations[1].node = event.node
         /\ \A i \in DOMAIN expectations : Planned(i) \in goingToPlace
<1>1. IInv /\ QueueFill
  BY DEF Fills, FillInv
<1>2. Id(event.obj) \in Pod /\ Bound(Id(event.obj)) /\ ~In(Id(event.obj)) /\ event.node = api[Id(event.obj)].node
  BY EventIsNews
<1>3. /\ expectations # <<>> /\ 1 \in DOMAIN expectations /\ expectations[1].kind = "Bind" /\ Placing
      /\ Planned(1) = Id(event.obj) /\ expectations[1].node = event.node
      /\ \A i \in DOMAIN expectations : Planned(i) \in goingToPlace
  BY <1>1, <1>2, AwayIsDue
<1>4. Expected
  BY <1>3 DEF Expected, IsValid, Planned
<1> QED
  BY <1>3, <1>4

(* A creation that was not expected puts the pod in the buffer.            *)
LEMMA NewPodFills ==
  ASSUME Fills, IInv', HandleUnexpected, event.type = "POD_CREATED"
  PROVE  FillInv'
<1> DEFINE p == Id(event.obj)
<1>1. /\ IInv /\ PodsFill /\ ViewFill /\ NewsFill /\ WatchFill /\ QueueFill /\ BufferFill /\ ControlFill
      /\ pc = "event" /\ UNCHANGED <<api, podIdToName, eventStream, watchq, watching, syncVars, suggestion>>
  BY DEF Fills, FillInv, HandleUnexpected, Handling, kubernetesVars
<1>2. /\ newPodBuffer' = Append(newPodBuffer, Handled) /\ pc' = "select"
      /\ UNCHANGED <<clusterState, expectations, goingToPlace>>
  BY DEF HandleUnexpected, Switch, planVars
<1>3. /\ p \in Pod /\ Handled \in PodObj /\ Id(Handled) = p /\ ~In(p) /\ Exists(p)
      /\ Pipe \in Seq(Notes) /\ Pipe # <<>> /\ 1 \in DOMAIN Pipe /\ Pipe[1].what = "created" /\ Pipe[1].pod = p
      /\ Pipe[1] = Note("created", p)
  <2>1. /\ p \in Pod /\ Handled \in PodObj /\ Id(Handled) = p /\ ~In(p) /\ Exists(p)
        /\ Pipe \in Seq(Notes) /\ Pipe # <<>> /\ 1 \in DOMAIN Pipe /\ Pipe[1].what = "created" /\ Pipe[1].pod = p
    BY <1>1, EventIsNews
  <2>2. Pipe[1] \in Notes
    BY <2>1
  <2> QED
    BY <2>1, <2>2, NoteIs
<1> HIDE DEF p
<1>4. /\ ViewFill' /\ \A q \in Pod : In(q)' <=> In(q)
      /\ \A n : SeenAt(clusterState, n)' = SeenAt(clusterState, n)
  BY <1>1, <1>2, StillWorld DEF Quiet
<1>5. PodsFill' /\ NewsFill' /\ WatchFill' /\ Quiet /\ Onward /\ Pipe' = Tail(Pipe)
  BY <1>1, <1>2, <1>3, <1>4, DoneWith
<1>6. QueueFill'
  BY <1>1, <1>2, <1>5, QueueKept
<1>7. ControlFill'
  <2>1. MigrantsIn'
    BY <1>1, <1>4, SuggestionKept
  <2> QED
    BY <1>1, <1>2, <2>1, ControlMoved DEF Booting
<1>8. /\ newPodBuffer \in Seq(PodObj) /\ DOMAIN newPodBuffer = 1..Len(newPodBuffer) /\ Len(newPodBuffer) \in Nat
      /\ \A i \in DOMAIN newPodBuffer : newPodBuffer'[i] = newPodBuffer[i]
      /\ newPodBuffer'[Len(newPodBuffer) + 1] = Handled
      /\ \A i \in DOMAIN newPodBuffer' : i \in DOMAIN newPodBuffer \/ i = Len(newPodBuffer) + 1
  <2>1. newPodBuffer \in Seq(PodObj)
    BY <1>1 DEF IInv, ControlTypeOK
  <2> QED
    BY <1>2, <1>3, <2>1, AppendAt
<1>9. \A i \in DOMAIN newPodBuffer : Buffered(i) # p
  BY <1>1, <1>3 DEF BufferFill
<1>10. Unbound(p) \/ (Bound(p) /\ p \in goingToPlace /\ expectations # <<>>)
  <2>1. Unbound(p) \/ Bound(p)
    BY <1>1, <1>3, PodStates
  <2>2. Bound(p) => p \in goingToPlace /\ expectations # <<>>
    BY <1>1, <1>3, AwayIsDue
  <2> QED
    BY <2>1, <2>2
<1>11. ASSUME NEW i \in DOMAIN newPodBuffer', NEW j \in DOMAIN newPodBuffer', Id(newPodBuffer'[i]) = Id(newPodBuffer'[j])
       PROVE  i = j
  <2>1. ASSUME NEW k \in DOMAIN newPodBuffer'
        PROVE  \/ k \in DOMAIN newPodBuffer /\ Id(newPodBuffer'[k]) = Buffered(k) /\ Buffered(k) # p
               \/ k = Len(newPodBuffer) + 1 /\ Id(newPodBuffer'[k]) = p
    BY <1>3, <1>8, <1>9 DEF Buffered
  <2> QED
    BY <1>1, <1>11, <2>1 DEF BufferFill
<1>12. ASSUME NEW i \in DOMAIN newPodBuffer'
       PROVE  \/ Unbound(Id(newPodBuffer'[i]))
              \/ /\ Bound(Id(newPodBuffer'[i])) /\ Id(newPodBuffer'[i]) \in goingToPlace
                 /\ expectations # <<>>
  <2>1. CASE i \in DOMAIN newPodBuffer
    BY <1>1, <1>8, <2>1 DEF BufferFill, Buffered
  <2>2. CASE i = Len(newPodBuffer) + 1
    BY <1>3, <1>8, <1>10, <2>2
  <2> QED
    BY <1>8, <2>1, <2>2
<1>13. ASSUME NEW i \in DOMAIN newPodBuffer', NEW j \in DOMAIN Pipe'
       PROVE  Pipe'[j] # Note("created", Id(newPodBuffer'[i]))
  <2>1. j + 1 \in DOMAIN Pipe /\ Pipe'[j] = Pipe[j + 1] /\ 1 < j + 1
    BY <1>3, <1>5, TailAt
  <2>2. Pipe[j + 1] # Pipe[1]
    BY <1>1, <1>3, <2>1, ToldOnce DEF NewsFill
  <2>3. CASE i \in DOMAIN newPodBuffer
    BY <1>1, <1>8, <2>1, <2>3 DEF BufferFill, Buffered
  <2>4. CASE i = Len(newPodBuffer) + 1
    BY <1>3, <1>8, <2>1, <2>2, <2>4
  <2> QED
    BY <1>8, <2>3, <2>4
<1>14. BufferFill'
  <2>1. (\A i, j \in DOMAIN newPodBuffer : Buffered(i) = Buffered(j) => i = j)'
    BY <1>11 DEF Buffered
  <2>2. (\A i \in DOMAIN newPodBuffer :
           \/ Unbound(Buffered(i))
           \/ /\ Bound(Buffered(i)) /\ Buffered(i) \in goingToPlace
              /\ ~(expectations = <<>> /\ pc \in {"select", "event"}))'
    BY <1>1, <1>2, <1>12 DEF Buffered, Unbound, Bound
  <2>3. (pc \in {"select", "event"} =>
           \A i \in DOMAIN newPodBuffer, j \in DOMAIN Pipe : Pipe[j] # Note("created", Buffered(i)))'
    BY <1>13 DEF Buffered, Note
  <2> QED
    BY <2>1, <2>2, <2>3 DEF BufferFill
<1> QED
  BY <1>4, <1>5, <1>6, <1>7, <1>14 DEF FillInv

(* A start is noted in the object the view has.                            *)
LEMMA StatusFills ==
  ASSUME Fills, IInv', HandleUnexpected, event.type = "POD_CHANGED"
  PROVE  FillInv'
<1> DEFINE p == Id(event.obj)
<1>1. /\ IInv /\ PodsFill /\ ViewFill /\ NewsFill /\ WatchFill /\ QueueFill /\ BufferFill /\ ControlFill
      /\ pc = "event" /\ ~TheSame /\ ~Expected
      /\ UNCHANGED <<api, podIdToName, eventStream, watchq, watching, syncVars, suggestion>>
  BY DEF Fills, FillInv, HandleUnexpected, Handling, kubernetesVars
<1>2. event.status = "RUNNING"
  BY <1>1, BoundIsExpected
<1>3. /\ p \in Pod /\ Handled \in PodObj /\ Id(Handled) = p /\ In(p) /\ clusterState.node[Handled] = event.node
      /\ Pipe[1].what = "started"
  BY <1>1, <1>2, StartedIsIn, EventIsNews
<1>4. StatusChange
  BY <1>1, <1>3 DEF StatusChange, TheSame
<1>5. /\ clusterState' \in SyncStatus(clusterState, Handled) /\ pc' = "select"
      /\ UNCHANGED <<newPodBuffer, expectations, goingToPlace>>
  BY <1>3, <1>4 DEF HandleUnexpected, Switch, planVars
<1> HIDE DEF p
<1>6. /\ clusterState'.node = clusterState.node /\ clusterState'.nodeUsed = clusterState.nodeUsed
      /\ clusterState'.edgePods = clusterState.edgePods /\ clusterState'.cloudPods = clusterState.cloudPods
      /\ clusterState'.podsMap = clusterState.podsMap
  BY <1>1, <1>5, SyncKeeps DEF IInv, ConnectorTypeOK
<1>7. /\ ViewFill' /\ \A q \in Pod : In(q)' <=> In(q)
      /\ \A n : SeenAt(clusterState, n)' = SeenAt(clusterState, n)
  BY <1>1, <1>3, <1>6, ViewTouched
<1>8. PodsFill' /\ NewsFill' /\ WatchFill' /\ Quiet /\ Onward
  BY <1>1, <1>3, <1>5, <1>7, DoneWith
<1>9. QueueFill' /\ BufferFill'
  BY <1>1, <1>5, <1>8, QueueKept, BufferKept
<1>10. ControlFill'
  <2>1. MigrantsIn'
    BY <1>1, <1>7, SuggestionKept
  <2> QED
    BY <1>1, <1>5, <2>1, ControlMoved DEF Booting
<1> QED
  BY <1>7, <1>8, <1>9, <1>10 DEF FillInv

(* An event nobody waits for brings a new pod, or the start of one.        *)
LEMMA UnexpectedFills ==
  ASSUME Fills, IInv', HandleUnexpected
  PROVE  FillInv'
<1>1. event.type \in {"POD_CREATED", "POD_CHANGED"}
  BY EventIsNews DEF HandleUnexpected, Handling
<1> QED
  BY <1>1, NewPodFills, StatusFills

-----------------------------------------------------------------------------
(* The binding that is awaited.                                            *)

(* A set of pods takes at least the room of each of its subsets.           *)
LEMMA SizesOrdered ==
  ASSUME NEW r \in Resource, NEW T \in SUBSET Pod, NEW S \in SUBSET T
  PROVE  /\ SumFunctionOnSet(Sizes(r), S) <= SumFunctionOnSet(Sizes(r), T)
         /\ SumFunctionOnSet(Sizes(r), S) \in Nat /\ SumFunctionOnSet(Sizes(r), T) \in Nat
<1>1. IsFiniteSet(T) /\ (\A p \in T : Sizes(r)[p] \in Nat) /\ S \subseteq T /\ S \in SUBSET Pod
  BY SizesType, PodsFinite
<1> QED
  BY <1>1, SumSubset, SizeSumType

(* A queued binding is of an object of its pod, and at a node.             *)
LEMMA PlannedIs ==
  ASSUME IInv, NEW i \in DOMAIN expectations, expectations[i].kind = "Bind"
  PROVE  /\ expectations[i].obj \in PodObj /\ Planned(i) = Id(expectations[i].obj) /\ Planned(i) \in Pod
         /\ expectations[i].node \in Node /\ Planned(i) \in PlannedTo(expectations[i].node)
<1>1. WellFormed(expectations[i])
  BY DEF IInv, PlanOK, PlanTypeOK, IsPlan
<1> QED
  BY <1>1, PodObjType DEF WellFormed, Planned, PlannedTo

(* Who is or will be at a node is a pod.                                   *)
LEMMA PlacesArePods ==
  ASSUME IInv, NEW n
  PROVE  SeenAt(clusterState, n) \cup PlannedTo(n) \in SUBSET Pod
  BY PlannedIs DEF SeenAt, PlannedTo

(* The event that is expected is the binding of the first of the plan.     *)
LEMMA ExpectedIsBinding ==
  ASSUME Fills, Handling, Expected
  PROVE  LET p == Id(event.obj)
         IN /\ Placing /\ 1 \in DOMAIN expectations /\ expectations[1].kind = "Bind"
            /\ event.type = "POD_CHANGED" /\ Planned(1) = p /\ expectations[1].node = api[p].node
            /\ Bound(p) /\ ~In(p) /\ Pipe[1] = Note("bound", p)
            /\ \A i \in DOMAIN expectations : Planned(i) \in goingToPlace
<1> DEFINE p == Id(event.obj)
<1>1. /\ pc = "event" /\ IInv /\ QueueFill /\ expectations # <<>> /\ 1 \in DOMAIN expectations
  BY DEF Fills, FillInv, Handling, Expected, IInv, PlanOK, PlanTypeOK, IsPlan
<1>2. event.type \in {"POD_CREATED", "POD_CHANGED"} /\ p \in Pod
  BY <1>1, EventIsNews
<1>3. expectations[1].kind = "Bind" /\ Placing
  <2>1. expectations[1].kind # "Delete"
    BY <1>2 DEF Expected, IsValid
  <2>2. Placing
    BY <1>1, <2>1 DEF QueueFill, StuckMove
  <2> QED
    BY <1>1, <2>2 DEF Placing
<1>4. event.type = "POD_CHANGED" /\ Planned(1) = p /\ expectations[1].node = event.node
  BY <1>3 DEF Expected, IsValid, Planned
<1>5. Bound(p) /\ event.node = api[p].node
  BY <1>1, <1>4, EventIsNews
<1> HIDE DEF p
<1>6. ~In(p)
  BY <1>1, <1>3, <1>4, <1>5 DEF Placing
<1>7. event.status # "RUNNING"
  BY <1>1, <1>4, <1>6, StartedIsIn DEF p
<1>8. Pipe[1] \in Notes /\ Pipe[1].what = "bound" /\ Pipe[1].pod = p
  BY <1>1, <1>4, <1>7, EventIsNews DEF p
<1>9. Pipe[1] = Note("bound", p)
  BY <1>8, NoteIs
<1>10. \A i \in DOMAIN expectations : Planned(i) \in goingToPlace
  BY <1>1, <1>2, <1>5, <1>6, AwayIsDue DEF p
<1> QED
  BY <1>1, <1>3, <1>4, <1>5, <1>6, <1>9, <1>10 DEF p

(* There is room for it where it was planned to go,                        *)
LEMMA FirstFits ==
  ASSUME IInv, ViewFill, QueueFill, 1 \in DOMAIN expectations, expectations[1].kind = "Bind",
         ~In(Planned(1)), expectations[1].node \in EdgeNode
  PROVE  Fits(clusterState, Planned(1), expectations[1].node)
<1> DEFINE p == Planned(1)
           n == expectations[1].node
<1>1. p \in Pod /\ p \in PlannedTo(n)
  BY PlannedIs
<1>2. p \notin SeenAt(clusterState, n) /\ SeenAt(clusterState, n) \subseteq Pod
  BY DEF SeenAt, In
<1> HIDE DEF p, n
<1>3. n \in EdgeNode
  BY DEF n
<1> SUFFICES ASSUME NEW r \in Resource
             PROVE  ResourcesRequired[DeploymentOf[p]][r] <= Remaining(clusterState, n, r)
  BY DEF Fits, p, n
<1>4. clusterState.nodeUsed[n][r] = SumFunctionOnSet(Sizes(r), SeenAt(clusterState, n))
  BY <1>3 DEF ViewFill, Tidy
<1>5. SumFunctionOnSet(Sizes(r), SeenAt(clusterState, n) \cup {p}) = Sizes(r)[p] + SumFunctionOnSet(Sizes(r), SeenAt(clusterState, n))
  <2>1. IsFiniteSet(SeenAt(clusterState, n)) /\ Sizes(r)[p] \in Int
        /\ \A x \in SeenAt(clusterState, n) : Sizes(r)[x] \in Int
    BY <1>1, <1>2, SizesType, PodsFinite
  <2> QED
    BY <1>2, <2>1, SumAdd
<1>6. SumFunctionOnSet(Sizes(r), SeenAt(clusterState, n) \cup {p})
        <= SumFunctionOnSet(Sizes(r), SeenAt(clusterState, n) \cup PlannedTo(n))
  <2>1. SeenAt(clusterState, n) \cup PlannedTo(n) \in SUBSET Pod
    BY PlacesArePods
  <2> QED
    BY <1>1, <2>1, SizesOrdered
<1>7. SumFunctionOnSet(Sizes(r), SeenAt(clusterState, n) \cup PlannedTo(n)) <= Resources[n][r]
  BY <1>3 DEF QueueFill
<1>8. /\ SumFunctionOnSet(Sizes(r), SeenAt(clusterState, n)) \in Nat
      /\ SumFunctionOnSet(Sizes(r), SeenAt(clusterState, n) \cup PlannedTo(n)) \in Nat
      /\ Sizes(r)[p] \in Nat /\ Sizes(r)[p] = ResourcesRequired[DeploymentOf[p]][r]
      /\ Resources[n][r] \in Nat
  BY <1>1, <1>2, <1>3, SizesType, SizeSumType, PlacesArePods, ResourcesAreVectors
<1> HIDE DEF Sizes
<1>9. Sizes(r)[p] <= Resources[n][r] - SumFunctionOnSet(Sizes(r), SeenAt(clusterState, n))
  BY <1>5, <1>6, <1>7, <1>8
<1> QED
  BY <1>4, <1>8, <1>9 DEF Remaining

(* so it is entered there.                                                 *)
LEMMA BindingEntered ==
  ASSUME Fills, Handling, Expected, NEW r \in After(expectations[1], event.obj, clusterState)
  PROVE  LET p == Id(event.obj)
             n == api[p].node
         IN /\ r.ok /\ r.cs \in ClusterStates /\ Tidy(r.cs) /\ n \in Node
            /\ \E o \in PodObj : /\ Id(o) = p
                                 /\ r.cs.node = [clusterState.node EXCEPT ![o] = n]
                                 /\ r.cs.podsMap = [clusterState.podsMap EXCEPT ![p] = o]
            /\ \A q \in Pod : Seen(r.cs, q) <=> In(q) \/ q = p
            /\ \A m : SeenAt(r.cs, m) = IF m = n THEN SeenAt(clusterState, m) \cup {p} ELSE SeenAt(clusterState, m)
<1> DEFINE p == Id(event.obj)
           n == api[p].node
           o == expectations[1].obj
<1>1. /\ 1 \in DOMAIN expectations /\ expectations[1].kind = "Bind" /\ Planned(1) = p /\ expectations[1].node = n
      /\ ~In(p)
  BY ExpectedIsBinding
<1>2. /\ IInv /\ ViewFill /\ QueueFill /\ clusterState \in ClusterStates /\ Tidy(clusterState) /\ CloudNode = {CloudHead}
  BY DEF Fills, FillInv, Filling, IInv, ConnectorTypeOK, ViewFill
<1>3. o \in PodObj /\ Id(o) = p /\ n \in Node
  BY <1>1, <1>2, PlannedIs
<1>4. r \in Deployed(clusterState, o, n)
  BY <1>1 DEF After
<1>5. n \in EdgeNode => Fits(clusterState, p, n)
  BY <1>1, <1>2, FirstFits
<1> HIDE DEF p, n, o
<1>6. /\ r.ok
      /\ \/ n \in EdgeNode /\ Fits(clusterState, Id(o), n) /\ r.cs = DeployEdge(clusterState, o, n)
         \/ n \in CloudNode /\ r.cs = DeployCloud(clusterState, o, n)
  <2>1. CASE n \in EdgeNode
    <3>1. r = [cs |-> DeployEdge(clusterState, o, n), ok |-> Fits(clusterState, Id(o), n)]
      BY <1>4, <2>1 DEF Deployed
    <3>2. Fits(clusterState, Id(o), n)
      BY <1>3, <1>5, <2>1
    <3>3. r.cs = DeployEdge(clusterState, o, n) /\ r.ok = Fits(clusterState, Id(o), n)
      BY <3>1
    <3> QED
      BY <2>1, <3>2, <3>3
  <2>2. CASE n \notin EdgeNode
    BY <1>2, <1>3, <1>4, <2>2 DEF Deployed, Node
  <2> QED
    BY <2>1, <2>2
<1>7. ~Seen(clusterState, Id(o))
  BY <1>1, <1>3 DEF In
<1> DEFINE d == r.cs
<1>8. /\ d \in ClusterStates /\ Tidy(d)
      /\ d.node = [clusterState.node EXCEPT ![o] = n]
      /\ d.podsMap = [clusterState.podsMap EXCEPT ![Id(o)] = o]
      /\ \A q \in Pod : Seen(d, q) <=> Seen(clusterState, q) \/ q = Id(o)
      /\ \A m : SeenAt(d, m) = IF m = n THEN SeenAt(clusterState, m) \cup {Id(o)} ELSE SeenAt(clusterState, m)
  <2>1. \/ n \in EdgeNode /\ Fits(clusterState, Id(o), n) /\ d = DeployEdge(clusterState, o, n)
        \/ n \in CloudNode /\ d = DeployCloud(clusterState, o, n)
    BY <1>6
  <2> HIDE DEF d
  <2>2. clusterState \in ClusterStates /\ Tidy(clusterState) /\ o \in PodObj /\ n \in Node
    BY <1>2, <1>3
  <2> QED
    BY ONLY <1>7, <2>1, <2>2, DeployTidy
<1> QED
  BY <1>3, <1>6, <1>8 DEF In, p, n

(* The view has the pod where the API server has it.                       *)
LEMMA ViewEntered ==
  ASSUME IInv, PodsFill, ViewFill, Grows, UNCHANGED podIdToName, NEW p \in podIdToName, Bound(p),
         NEW o \in PodObj, Id(o) = p, Tidy(clusterState'),
         clusterState'.node = [clusterState.node EXCEPT ![o] = api[p].node],
         clusterState'.podsMap = [clusterState.podsMap EXCEPT ![p] = o]
  PROVE  ViewFill'
<1>1. p \in Pod /\ clusterState \in ClusterStates /\ o # Nil
  BY NilIsNoObject DEF IInv, ConnectorTypeOK
<1>2. clusterState.node \in [PodObj -> Node \cup {Nil}] /\ clusterState.podsMap \in [Pod -> PodObj \cup {Nil}]
  BY <1>1 DEF ClusterStates
<1>3. Tidy(clusterState)'
  BY DEF Tidy, SeenAt, Seen, Sizes
<1>4. \A q \in Pod : clusterState'.podsMap[q] # Nil <=> q \in podIdToName'
  BY <1>1, <1>2 DEF ViewFill
<1>5. ASSUME NEW x \in PodObj, clusterState'.node[x] # Nil
      PROVE  clusterState'.node[x] = api'[Id(x)].node
  <2>1. CASE x = o
    BY <1>1, <1>2, <2>1 DEF Grows
  <2>2. CASE x # o
    <3>1. clusterState'.node[x] = clusterState.node[x] /\ Id(x) \in Pod
      BY <1>2, <2>2, PodObjType
    <3>2. clusterState.node[x] = api[Id(x)].node /\ Bound(Id(x))
      BY <1>5, <3>1 DEF ViewFill, Bound
    <3> QED
      BY <3>1, <3>2 DEF Grows
  <2> QED
    BY <2>1, <2>2
<1> QED
  BY <1>3, <1>4, <1>5 DEF ViewFill

(* In the calm a binding of a known pod that has no node is made.          *)
LEMMA BindingMade ==
  ASSUME IInv, Calm, Calm', NEW p \in podIdToName, Unbound(p), NEW n \in Node, NEW ok \in BOOLEAN,
         Deploy(p, n, ok)
  PROVE  /\ ok /\ Binds(p, n) /\ UNCHANGED <<podIdToName, watching>>
         /\ watchq' = IF watching THEN Append(watchq, Event("Modified", p, api'[p])) ELSE watchq
<1>1. Bind(p, n, ok) /\ UNCHANGED <<podIdToName, watching>>
  BY DEF Deploy, Bind
<1>2. faults = 0 /\ faults' = 0
  BY DEF Calm
<1>3. ~Fault
  BY <1>2 DEF Fault
<1>4. ok /\ Change("Modified", p, [phase |-> "Pending", node |-> n])
  BY <1>1, <1>3 DEF Bind, Served
<1>5. api' = [api EXCEPT ![p] = [phase |-> "Pending", node |-> n]]
  BY <1>4 DEF Change
<1>6. api'[p] = [phase |-> "Pending", node |-> n]
  BY <1>5 DEF IInv, KubernetesTypeOK, ConnectorTypeOK
<1>7. watchq' = IF watching THEN Append(watchq, Event("Modified", p, api'[p])) ELSE watchq
  BY <1>4, <1>6 DEF Change
<1> QED
  BY <1>1, <1>4, <1>5, <1>7 DEF Binds

(* The event of a binding tells of it, and is sound.                       *)
LEMMA BindingSays ==
  ASSUME IInv', NEW p \in Pod, NEW n \in Node, api'[p] = [phase |-> "Pending", node |-> n]
  PROVE  \E e \in WatchEvent : e = Event("Modified", p, api'[p]) /\ Says(e) = Note("bound", p) /\ SoundWatch(e)'
<1>1. api' \in [Pod -> ApiPod]
  BY DEF IInv, KubernetesTypeOK
<1>2. PICK e \in WatchEvent : /\ e = Event("Modified", p, api'[p])
                              /\ e.type = "Modified" /\ e.pod = p /\ e.phase = "Pending" /\ e.node = n
                              /\ Says(e) = Note("bound", p)
  <2>1. api'[p].phase = "Pending" /\ api'[p].node = n
    OBVIOUS
  <2> QED
    BY <1>1, <2>1, EventIs
<1>3. SoundWatch(e)'
  BY <1>2 DEF SoundWatch
<1> QED
  BY <1>2, <1>3

(* While a binding is handled, the creation of the next pod has been read. *)
LEMMA NextIsKnown ==
  ASSUME Fills, pc = "event", NEW q \in Pod, Pipe[1] = Note("bound", q),
         NEW p \in Pod, Unbound(p), CreatedFirst(Pipe, p)
  PROVE  p \in podIdToName
<1>1. IInv /\ PodsFill /\ WatchFill /\ watching
  BY DEF Fills, FillInv, ControlFill, Booting
<1> SUFFICES ASSUME p \notin podIdToName
             PROVE  FALSE
  OBVIOUS
<1>2. Exists(p)
  BY <1>1, PodStates
<1>3. PICK i \in DOMAIN watchq : Says(watchq[i]) = Note("created", p)
  BY <1>1, <1>2 DEF WatchFill
<1>4. Ahead + i \in DOMAIN Pipe /\ Pipe[Ahead + i] = Note("created", p) /\ Ahead \in Nat /\ i \in Nat /\ i >= 1
  BY <1>1, <1>3, PipeIndex DEF IInv, KubernetesTypeOK
<1>5. 1 \in DOMAIN Pipe /\ Pipe[1].what = "bound"
  BY EventIsNews, NoteIs
<1>6. Ahead + i < 1
  BY <1>4, <1>5 DEF CreatedFirst
<1> QED
  BY <1>4, <1>6

(* The places to be filled do not become more.                             *)
LEMMA RoomKept ==
  ASSUME IInv, QueueFill,
         \A n \in EdgeNode :
            SeenAt(clusterState, n)' \cup PlannedTo(n)' \subseteq SeenAt(clusterState, n) \cup PlannedTo(n)
  PROVE  (\A n \in EdgeNode, r \in Resource :
            SumFunctionOnSet(Sizes(r), SeenAt(clusterState, n) \cup PlannedTo(n)) <= Resources[n][r])'
<1> SUFFICES ASSUME NEW n \in EdgeNode, NEW r \in Resource
             PROVE  (SumFunctionOnSet(Sizes(r), SeenAt(clusterState, n) \cup PlannedTo(n)) <= Resources[n][r])'
  OBVIOUS
<1> DEFINE S == SeenAt(clusterState, n)' \cup PlannedTo(n)'
           T == SeenAt(clusterState, n) \cup PlannedTo(n)
<1>1. S \subseteq T /\ T \in SUBSET Pod
  BY PlacesArePods
<1>2. SumFunctionOnSet(Sizes(r), T) <= Resources[n][r]
  BY DEF QueueFill
<1>3. Resources[n][r] \in Nat
  BY ResourcesAreVectors
<1>4. SumFunctionOnSet(Sizes(r), S) <= Resources[n][r]
  <2> HIDE DEF S, T
  <2>1. /\ SumFunctionOnSet(Sizes(r), S) <= SumFunctionOnSet(Sizes(r), T)
        /\ SumFunctionOnSet(Sizes(r), S) \in Nat /\ SumFunctionOnSet(Sizes(r), T) \in Nat
    BY <1>1, SizesOrdered
  <2> QED
    BY ONLY <1>2, <1>3, <2>1
<1> QED
  BY <1>4 DEF Sizes

(* The last binding of a plan is handled: the queue is empty after it.     *)
LEMMA LastBindingFills ==
  ASSUME Fills, IInv', HandleExpected, Len(expectations) = 1
  PROVE  FillInv'
<1> DEFINE p == Id(event.obj)
<1>1. /\ IInv /\ PodsFill /\ ViewFill /\ NewsFill /\ WatchFill /\ QueueFill /\ BufferFill /\ ControlFill
      /\ pc = "event" /\ Handling /\ Expected
      /\ UNCHANGED <<api, podIdToName, eventStream, watchq, watching, goingToPlace, newPodBuffer, syncVars, suggestion>>
  BY DEF Fills, FillInv, HandleExpected, Handling, NextExpectation, Popped, kubernetesVars
<1>2. PICK r \in After(expectations[1], event.obj, clusterState) : clusterState' = r.cs
  BY DEF HandleExpected
<1>3. /\ p \in Pod /\ p \in podIdToName /\ Bound(p) /\ ~In(p) /\ Pipe[1] = Note("bound", p)
      /\ Pipe \in Seq(Notes) /\ Pipe # <<>> /\ 1 \in DOMAIN expectations /\ expectations[1].kind = "Bind"
      /\ Planned(1) = p /\ expectations[1].node = api[p].node
  BY <1>1, ExpectedIsBinding, EventIsNews
<1>4. expectations' = <<>> /\ pc' \in {"list", "match"} /\ (pc' = "list" => newPodBuffer' = <<>>)
  <2>1. expectations \in Seq(Element) /\ expectations' = Tail(expectations)
    BY <1>1 DEF IInv, PlanOK, PlanTypeOK, IsPlan, HandleExpected, NextExpectation, Popped
  <2> QED
    BY <1>1, <2>1 DEF HandleExpected, NextExpectation, Schedule
<1>5. /\ Tidy(clusterState')
      /\ \E o \in PodObj : /\ Id(o) = p
                           /\ clusterState'.node = [clusterState.node EXCEPT ![o] = api[p].node]
                           /\ clusterState'.podsMap = [clusterState.podsMap EXCEPT ![p] = o]
      /\ \A q \in Pod : Seen(clusterState', q) <=> In(q) \/ q = p
      /\ \A m : SeenAt(clusterState', m) = IF m = api[p].node THEN SeenAt(clusterState, m) \cup {p} ELSE SeenAt(clusterState, m)
  BY <1>1, <1>2, BindingEntered
<1> HIDE DEF p
<1>6. /\ Grows /\ \A q \in Pod : (Bound(q)' <=> Bound(q)) /\ (Unbound(q)' <=> Unbound(q)) /\ (Exists(q)' <=> Exists(q))
  BY <1>1, SameMoves
<1>7. ViewFill'
  BY <1>1, <1>3, <1>5, <1>6, ViewEntered
<1>8. \A q \in Pod : In(q)' <=> In(q) \/ q = p
  BY <1>5 DEF In, Seen
<1>9. Pipe' = Tail(Pipe)
  BY <1>1, <1>4, PipeHandled
<1>10. NewsFill'
  <2>1. \A q \in Pod : In(q)' <=> In(q) \/ Pipe[1] = Note("bound", q)
    BY <1>3, <1>8, NoteIs
  <2> QED
    BY <1>1, <1>3, <1>6, <1>9, <2>1, NewsHandled
<1>11. PodsFill'
  BY <1>1, PodsFillSame
<1>12. WatchFill'
  BY <1>1, <1>4, <1>6, WatchKept DEF IInv, KubernetesTypeOK
<1>13. QueueFill'
  <2>1. DOMAIN expectations' = {}
    BY <1>4
  <2>2. (Placing \/ StuckMove)'
    BY <2>1 DEF Placing
  <2>3. (\A q \in Pod : Bound(q) /\ ~In(q) => Due(q))'
    <3>1. \A q \in Pod : Bound(q) /\ ~In(q) => q = p
      BY <1>1, <1>3, AwayIsDue
    <3>2. \A q \in Pod : ~(Bound(q)' /\ ~In(q)')
      BY <1>6, <1>8, <3>1
    <3> QED
      BY <3>2
  <2>4. (\A q \in Pod : Due(q) /\ Bound(q) => \A i \in DOMAIN expectations : Planned(i) \in goingToPlace)'
    BY <2>1
  <2>5. (\A i \in DOMAIN expectations : i > 1 /\ expectations[i].kind = "Bind" => CreatedFirst(Pipe, Planned(i)))'
    BY <2>1
  <2>6. ASSUME NEW n \in EdgeNode
        PROVE  SeenAt(clusterState, n)' \cup PlannedTo(n)' \subseteq SeenAt(clusterState, n) \cup PlannedTo(n)
    <3>1. PlannedTo(n)' = {}
      BY <2>1 DEF PlannedTo
    <3>2. SeenAt(clusterState, n)' = SeenAt(clusterState', n)
      BY DEF SeenAt, Seen
    <3>3. SeenAt(clusterState', n) \subseteq SeenAt(clusterState, n) \cup IF n = api[p].node THEN {p} ELSE {}
      BY <1>5
    <3>4. n = api[p].node => p \in PlannedTo(n)
      BY <1>1, <1>3, PlannedIs
    <3> QED
      BY <3>1, <3>2, <3>3, <3>4
  <2>7. (\A n \in EdgeNode, r2 \in Resource :
           SumFunctionOnSet(Sizes(r2), SeenAt(clusterState, n) \cup PlannedTo(n)) <= Resources[n][r2])'
    BY <1>1, <2>6, RoomKept
  <2> QED
    BY <2>2, <2>3, <2>4, <2>5, <2>7 DEF QueueFill
<1>14. BufferFill'
  <2>1. (\A i, j \in DOMAIN newPodBuffer : Buffered(i) = Buffered(j) => i = j)'
    BY <1>1 DEF BufferFill, Buffered
  <2>2. (\A i \in DOMAIN newPodBuffer :
           \/ Unbound(Buffered(i))
           \/ /\ Bound(Buffered(i)) /\ Buffered(i) \in goingToPlace
              /\ ~(expectations = <<>> /\ pc \in {"select", "event"}))'
    BY <1>1, <1>4 DEF BufferFill, Buffered, Unbound, Bound
  <2> QED
    BY <1>4, <2>1, <2>2 DEF BufferFill
<1>15. ControlFill'
  <2>1. MigrantsIn'
    BY <1>1, <1>8, SuggestionKept
  <2> QED
    BY <1>1, <1>4, <2>1, ControlMoved DEF Booting
<1> QED
  BY <1>7, <1>10, <1>11, <1>12, <1>13, <1>14, <1>15 DEF FillInv

(* The next of the plan can be bound.                                      *)
LEMMA NextCanBind ==
  ASSUME Fills, Handling, Expected, Len(expectations) # 1
  PROVE  /\ 2 \in DOMAIN expectations /\ expectations[2].kind = "Bind" /\ expectations[2].node \in Node
         /\ Planned(2) \in podIdToName /\ Unbound(Planned(2)) /\ Planned(2) # Id(event.obj)
         /\ Planned(2) = Id(expectations[2].obj) /\ Planned(2) \in Pod
         /\ Len(expectations) \in Nat /\ Len(expectations) > 1
<1>1. /\ IInv /\ QueueFill /\ pc = "event" /\ expectations \in Seq(Element)
  BY DEF Fills, FillInv, Handling, IInv, PlanOK, PlanTypeOK, IsPlan
<1>2. /\ Placing /\ 1 \in DOMAIN expectations /\ Planned(1) = Id(event.obj)
      /\ Id(event.obj) \in Pod /\ Pipe[1] = Note("bound", Id(event.obj))
  BY <1>1, ExpectedIsBinding, EventIsNews
<1>3. 2 \in DOMAIN expectations /\ Len(expectations) \in Nat /\ Len(expectations) > 1
  <2>1. DOMAIN expectations = 1..Len(expectations) /\ Len(expectations) \in Nat
    BY <1>1
  <2>2. Len(expectations) > 1
    BY <1>2, <2>1
  <2> QED
    BY <2>1, <2>2
<1>4. expectations[2].kind = "Bind" /\ Unbound(Planned(2)) /\ Planned(2) # Planned(1)
  BY <1>2, <1>3 DEF Placing
<1>5. Planned(2) \in Pod /\ expectations[2].node \in Node /\ Planned(2) = Id(expectations[2].obj)
  BY <1>1, <1>3, <1>4, PlannedIs
<1>6. CreatedFirst(Pipe, Planned(2))
  BY <1>1, <1>3, <1>4 DEF QueueFill
<1>7. Planned(2) \in podIdToName
  BY <1>1, <1>2, <1>4, <1>5, <1>6, NextIsKnown
<1> QED
  BY <1>2, <1>3, <1>4, <1>5, <1>7

(* and in the calm it is.                                                  *)
LEMMA NextBound ==
  ASSUME Fills, IInv', Calm', Handling, Expected, Len(expectations) # 1, NEW c, NEW ok \in BOOLEAN,
         Do(expectations[2], event.obj, c, ok)
  PROVE  /\ ok /\ Binds(Planned(2), expectations[2].node) /\ UNCHANGED <<podIdToName, watching>> /\ watching
         /\ \E e \in WatchEvent : watchq' = Append(watchq, e) /\ Says(e) = Note("bound", Planned(2)) /\ SoundWatch(e)'
<1> DEFINE p == Planned(2)
           n == expectations[2].node
<1>1. /\ 2 \in DOMAIN expectations /\ expectations[2].kind = "Bind" /\ n \in Node
      /\ p \in podIdToName /\ Unbound(p) /\ p = Id(expectations[2].obj) /\ p \in Pod
  BY NextCanBind
<1>2. Deploy(Id(expectations[2].obj), n, ok)
  BY <1>1 DEF Do
<1>3. IInv /\ Calm /\ PodsFill /\ watching
  BY DEF Fills, FillInv, ControlFill, Booting, Handling
<1>4. Deploy(p, n, ok)
  BY <1>1, <1>2
<1> HIDE DEF p, n
<1>5. /\ ok /\ Binds(p, n) /\ UNCHANGED <<podIdToName, watching>>
      /\ watchq' = Append(watchq, Event("Modified", p, api'[p]))
  BY <1>1, <1>3, <1>4, BindingMade
<1>6. api'[p] = [phase |-> "Pending", node |-> n]
  BY <1>1, <1>3, <1>5 DEF Binds, IInv, KubernetesTypeOK
<1>7. \E e \in WatchEvent : e = Event("Modified", p, api'[p]) /\ Says(e) = Note("bound", p) /\ SoundWatch(e)'
  BY <1>1, <1>6, BindingSays
<1> QED
  BY <1>3, <1>5, <1>7 DEF p, n

(* What is left of the plan when its first element is done with.           *)
LEMMA PlanTail ==
  ASSUME IInv, Placing, expectations # <<>>, expectations' = Tail(expectations)
  PROVE  /\ \A i \in DOMAIN expectations' :
              /\ i \in Nat /\ i + 1 \in DOMAIN expectations /\ 1 < i + 1 /\ i + 1 # 1
              /\ expectations'[i] = expectations[i + 1]
              /\ Id(expectations'[i].obj) = Planned(i + 1) /\ Planned(i + 1) # Planned(1)
         /\ \A n : PlannedTo(n)' \subseteq PlannedTo(n)
         /\ expectations \in Seq(Element)
<1>1. expectations \in Seq(Element)
  BY DEF IInv, PlanOK, PlanTypeOK, IsPlan
<1>2. /\ 1 \in DOMAIN expectations
      /\ \A i \in DOMAIN Tail(expectations) :
           i + 1 \in DOMAIN expectations /\ Tail(expectations)[i] = expectations[i + 1] /\ i \in Nat /\ 1 < i + 1
  BY <1>1, TailAt
<1>3. \A i \in DOMAIN expectations' :
        /\ i \in Nat /\ i + 1 \in DOMAIN expectations /\ 1 < i + 1 /\ i + 1 # 1
        /\ expectations'[i] = expectations[i + 1]
        /\ Id(expectations'[i].obj) = Planned(i + 1) /\ Planned(i + 1) # Planned(1)
  BY <1>2 DEF Planned, Placing
<1> QED
  BY <1>1, <1>3 DEF PlannedTo, Planned

(* The queue goes on with the second of the plan, which is being bound.    *)
LEMMA NextIsDue ==
  ASSUME Fills, IInv', Handling, Expected, Len(expectations) # 1, Binds(Planned(2), expectations[2].node),
         expectations' = Tail(expectations), UNCHANGED goingToPlace,
         Pipe' = Append(Tail(Pipe), Note("bound", Planned(2))),
         \A q \in Pod : In(q)' <=> In(q) \/ q = Id(event.obj),
         \A n \in EdgeNode : SeenAt(clusterState, n)' \subseteq
            SeenAt(clusterState, n) \cup IF n = api[Id(event.obj)].node THEN {Id(event.obj)} ELSE {}
  PROVE  /\ QueueFill' /\ Planned(2) \in goingToPlace /\ expectations' # <<>>
         /\ \A i \in DOMAIN expectations' : expectations'[i].kind = "Bind"
<1>0. PICK p, s : p = Id(event.obj) /\ s = Planned(2)
  OBVIOUS
<1>1. /\ IInv /\ PodsFill /\ QueueFill /\ pc = "event" /\ expectations # <<>>
  BY DEF Fills, FillInv, Handling, Expected
<1>2. /\ Placing /\ 1 \in DOMAIN expectations /\ expectations[1].kind = "Bind" /\ Planned(1) = p /\ Bound(p) /\ ~In(p)
      /\ p \in Pod /\ expectations[1].node = api[p].node
      /\ \A i \in DOMAIN expectations : Planned(i) \in goingToPlace
  BY <1>0, <1>1, ExpectedIsBinding, EventIsNews
<1>3. /\ 2 \in DOMAIN expectations /\ expectations[2].kind = "Bind" /\ expectations[2].node \in Node
      /\ Unbound(s) /\ s # p /\ s \in Pod /\ Len(expectations) \in Nat /\ Len(expectations) > 1
  BY <1>0, NextCanBind
<1>4. /\ \A i \in DOMAIN expectations' :
           /\ i \in Nat /\ i + 1 \in DOMAIN expectations /\ 1 < i + 1 /\ i + 1 # 1
           /\ expectations'[i] = expectations[i + 1]
           /\ Id(expectations'[i].obj) = Planned(i + 1) /\ Planned(i + 1) # p
      /\ \A n : PlannedTo(n)' \subseteq PlannedTo(n)
      /\ expectations \in Seq(Element)
  BY <1>1, <1>2, PlanTail
<1>5. expectations' # <<>> /\ 1 \in DOMAIN expectations' /\ expectations'[1] = expectations[2]
  <2>1. DOMAIN Tail(expectations) = 1..(Len(expectations) - 1)
    BY <1>1, <1>4, TailAt
  <2>2. 1 \in DOMAIN expectations'
    BY <1>3, <2>1
  <2>3. expectations'[1] = expectations[1 + 1]
    BY <1>4, <2>2
  <2> QED
    BY <2>2, <2>3
<1>6. /\ Bound(s)' /\ api'[s].node = expectations[2].node
      /\ \A q \in Pod : q # s => api'[q] = api[q] /\ (Bound(q)' <=> Bound(q)) /\ (Unbound(q)' <=> Unbound(q))
  BY <1>0, <1>1, <1>3, BindsMoves
<1>7. ~In(s) /\ ~In(s)'
  <2>1. ~Bound(s)
    BY <1>1, <1>3, PodStates
  <2>2. ~In(s)
    BY <1>3, <2>1, SeenIsThere DEF Fills, FillInv
  <2> QED
    BY <1>0, <1>3, <2>2
<1>8. ASSUME NEW i \in DOMAIN expectations'
      PROVE  /\ expectations'[i].kind = "Bind" /\ expectations'[i].tp = "PLACING"
             /\ i # 1 => Planned(i + 1) \in Pod /\ Planned(i + 1) # s /\ Unbound(Planned(i + 1))
             /\ Planned(i + 1) \in goingToPlace
  <2>1. expectations[i + 1].kind = "Bind" /\ expectations[i + 1].tp = "PLACING"
    BY <1>2, <1>4 DEF Placing
  <2>2. Planned(i + 1) \in Pod
    BY <1>1, <1>4, <2>1, PlannedIs
  <2>3. i # 1 => i + 1 # 2
    BY <1>4
  <2>4. Unbound(Planned(i + 1))
    BY <1>2, <1>4 DEF Placing
  <2>5. i # 1 => Planned(i + 1) # s
    BY <1>0, <1>2, <1>3, <1>4, <2>3 DEF Placing
  <2> QED
    BY <1>2, <1>4, <2>1, <2>2, <2>4, <2>5
<1>9. Id(expectations'[1].obj) = s
  BY <1>0, <1>5 DEF Planned
<1>10. Placing'
  <2>1. ASSUME NEW i \in DOMAIN expectations'
        PROVE  /\ expectations'[i].kind = "Bind" /\ expectations'[i].tp = "PLACING"
               /\ i = 1 => /\ api'[Id(expectations'[1].obj)].node = expectations'[1].node
                           /\ api'[Id(expectations'[1].obj)].node # Nil
               /\ i # 1 => LET a == api'[Id(expectations'[i].obj)] IN a.phase = "Pending" /\ a.node = Nil
    <3>1. expectations'[i].kind = "Bind" /\ expectations'[i].tp = "PLACING"
      BY <1>8
    <3>2. api'[s].node = expectations'[1].node /\ api'[s].node # Nil
      BY <1>5, <1>6 DEF Bound
    <3>3. PICK q : q = Planned(i + 1) /\ q = Id(expectations'[i].obj)
      BY <1>4
    <3>4. i # 1 => Unbound(q)'
      BY <1>6, <1>8, <3>3
    <3>5. i # 1 => api'[q].phase = "Pending" /\ api'[q].node = Nil
      BY <3>3, <3>4 DEF Unbound
    <3> QED
      BY <1>9, <3>1, <3>2, <3>3, <3>5
  <2>2. ~(clusterState'.podsMap[s] # Nil /\ clusterState'.node[clusterState'.podsMap[s]] # Nil)
    BY <1>7 DEF In, Seen
  <2>3. \A i \in DOMAIN expectations' :
          IF i = 1 /\ Bound(Planned(1))' THEN api'[Planned(1)'].node = expectations'[1].node /\ ~In(Planned(1))'
          ELSE Unbound(Planned(i))'
    <3> TAKE i \in DOMAIN expectations'
    <3>1. CASE i = 1
      <4>1. Bound(Planned(1))'
        BY <1>9, <2>1, <3>1 DEF Bound, Planned
      <4>2. ~In(Planned(1))'
        BY <1>9, <2>2 DEF In, Seen, Planned
      <4> QED
        BY <2>1, <3>1, <4>1, <4>2 DEF Planned
    <3>2. CASE i # 1
      BY <2>1, <3>2 DEF Unbound, Planned
    <3> QED
      BY <3>1, <3>2
  <2>4. ASSUME NEW i \in DOMAIN expectations', NEW j \in DOMAIN expectations',
               Id(expectations'[i].obj) = Id(expectations'[j].obj)
        PROVE  i = j
    <3>1. i + 1 = j + 1
      BY <1>2, <1>4, <2>4 DEF Placing
    <3> QED
      BY <1>4, <3>1
  <2>5. (\A i, j \in DOMAIN expectations : Planned(i) = Planned(j) => i = j)'
    BY <2>4 DEF Planned
  <2> QED
    BY <2>1, <2>3, <2>5 DEF Placing
<1>11. (\A q \in Pod : Bound(q) /\ ~In(q) => Due(q))'
  <2>1. ASSUME NEW q \in Pod, Bound(q)', ~In(q)'
        PROVE  q = s
    <3>1. CASE Bound(q) /\ ~In(q)
      <4>1. q = p
        BY <1>1, <1>2, <3>1, AwayIsDue
      <4>2. In(q)'
        BY <1>0, <1>2, <4>1
      <4> QED
        BY <2>1, <4>2
    <3>2. CASE ~Bound(q)
      BY <1>6, <2>1, <3>2
    <3> QED
      BY <2>1, <3>1, <3>2
  <2>2. expectations'[1].kind = "Bind" /\ expectations' # <<>>
    BY <1>5, <1>8
  <2> QED
    BY <1>9, <2>1, <2>2 DEF Due, Planned
<1>12. (\A q \in Pod : Due(q) /\ Bound(q) => \A i \in DOMAIN expectations : Planned(i) \in goingToPlace)'
  BY <1>4, <1>8 DEF Planned
<1>13. (\A i \in DOMAIN expectations : i > 1 /\ expectations[i].kind = "Bind" => CreatedFirst(Pipe, Planned(i)))'
  <2>1. /\ Pipe \in Seq(Notes) /\ Pipe # <<>> /\ Tail(Pipe) \in Seq(Notes)
        /\ Note("bound", s) \in Notes
    <3>1. Pipe \in Seq(Notes) /\ Pipe # <<>>
      BY <1>1, EventIsNews
    <3>2. Note("bound", s) \in Notes
      BY <1>3 DEF Note, Notes
    <3> QED
      BY <3>1, <3>2, TailAt
  <2>2. ASSUME NEW i \in DOMAIN expectations', i > 1
        PROVE  CreatedFirst(Pipe', Planned(i + 1))
    <3>1. CreatedFirst(Pipe, Planned(i + 1))
      <4>1. i + 1 \in DOMAIN expectations /\ i + 1 > 1 /\ expectations[i + 1].kind = "Bind"
        BY <1>4, <1>8
      <4> QED
        BY <1>1, <4>1 DEF QueueFill
    <3>2. CreatedFirst(Tail(Pipe), Planned(i + 1))
      BY <2>1, <3>1, CreatedFirstTail
    <3>3. Note("bound", s) # Note("created", Planned(i + 1))
      BY NoteIs
    <3>4. CreatedFirst(Append(Tail(Pipe), Note("bound", s)), Planned(i + 1))
      BY <2>1, <3>2, <3>3, CreatedFirstAppend
    <3> QED
      BY <1>0, <3>4
  <2>3. \A i \in DOMAIN expectations' : Planned(i)' = Planned(i + 1)
    BY <1>4 DEF Planned
  <2> QED
    BY ONLY <2>2, <2>3 DEF CreatedFirst, Note
<1>14. ASSUME NEW n \in EdgeNode
       PROVE  SeenAt(clusterState, n)' \cup PlannedTo(n)' \subseteq SeenAt(clusterState, n) \cup PlannedTo(n)
  <2>1. n = api[p].node => p \in PlannedTo(n)
    BY <1>1, <1>2, PlannedIs
  <2> QED
    BY <1>0, <1>4, <2>1
<1>15. (\A n \in EdgeNode, r \in Resource :
          SumFunctionOnSet(Sizes(r), SeenAt(clusterState, n) \cup PlannedTo(n)) <= Resources[n][r])'
  BY <1>1, <1>14, RoomKept
<1>16. QueueFill'
  BY <1>10, <1>11, <1>12, <1>13, <1>15 DEF QueueFill
<1> QED
  BY <1>0, <1>2, <1>3, <1>5, <1>8, <1>16

(* A binding is handled and the next one made.                             *)
LEMMA NextBindingFills ==
  ASSUME Fills, IInv', Calm', HandleExpected, Len(expectations) # 1
  PROVE  FillInv'
<1>0. PICK p, s, n : p = Id(event.obj) /\ s = Planned(2) /\ n = expectations[2].node
  OBVIOUS
<1>1. /\ IInv /\ PodsFill /\ ViewFill /\ NewsFill /\ WatchFill /\ QueueFill /\ BufferFill /\ ControlFill
      /\ pc = "event" /\ Handling /\ Expected /\ pc' = "select" /\ expectations' = Tail(expectations)
      /\ UNCHANGED <<eventStream, goingToPlace, newPodBuffer, syncVars, suggestion>>
  BY DEF Fills, FillInv, HandleExpected, Handling, NextExpectation, Popped
<1>2. PICK r \in After(expectations[1], event.obj, clusterState) :
        clusterState' = r.cs /\ Do(expectations[2], event.obj, r.cs, TRUE)
  BY DEF HandleExpected
<1>3. /\ p \in Pod /\ p \in podIdToName /\ Bound(p) /\ ~In(p) /\ Pipe[1] = Note("bound", p)
      /\ Pipe \in Seq(Notes) /\ Pipe # <<>> /\ 1 \in DOMAIN Pipe
  BY <1>0, <1>1, ExpectedIsBinding, EventIsNews
<1>4. s \in Pod /\ Unbound(s) /\ s \in podIdToName /\ s # p /\ n \in Node
  BY <1>0, <1>1, NextCanBind
<1>5. Binds(s, n) /\ UNCHANGED <<podIdToName, watching>> /\ watching
  BY <1>0, <1>1, <1>2, NextBound
<1>6. PICK e \in WatchEvent : watchq' = Append(watchq, e) /\ Says(e) = Note("bound", s) /\ SoundWatch(e)'
  BY <1>0, <1>1, <1>2, NextBound
<1>7. /\ Tidy(clusterState')
      /\ \E o \in PodObj : /\ Id(o) = p
                           /\ clusterState'.node = [clusterState.node EXCEPT ![o] = api[p].node]
                           /\ clusterState'.podsMap = [clusterState.podsMap EXCEPT ![p] = o]
      /\ \A q \in Pod : Seen(clusterState', q) <=> In(q) \/ q = p
      /\ \A m : SeenAt(clusterState', m) = IF m = api[p].node THEN SeenAt(clusterState, m) \cup {p} ELSE SeenAt(clusterState, m)
  BY <1>0, <1>1, <1>2, BindingEntered
<1>8. /\ Grows /\ Exists(s)' /\ Bound(s)' /\ ~Bound(s)
      /\ \A q \in Pod : q # s => api'[q] = api[q] /\ (Bound(q)' <=> Bound(q)) /\ (Unbound(q)' <=> Unbound(q))
  BY <1>1, <1>4, <1>5, BindsMoves
<1>9. PodsFill'
  BY <1>1, <1>4, <1>5, PodsFillStep
<1>10. ViewFill'
  BY <1>1, <1>3, <1>5, <1>7, <1>8, ViewEntered
<1>11. \A q \in Pod : In(q)' <=> In(q) \/ q = p
  BY <1>7 DEF In, Seen
<1>12. Pipe' = Append(Tail(Pipe), Note("bound", s))
  BY <1>1, <1>6, PipeHandledSent
<1>13. ~In(s)'
  <2>1. ~In(s)
    BY <1>1, <1>4, <1>8, SeenIsThere
  <2> QED
    BY <1>4, <1>11, <2>1
<1>14. NewsFill'
  <2>1. IsNews(Note("bound", s))'
    BY <1>8, <1>13, NoteIs DEF IsNews
  <2>2. \A q \in Pod : /\ In(q)' <=> In(q) \/ Pipe[1] = Note("bound", q)
                       /\ Bound(q)' => Bound(q) \/ q = s
    BY <1>3, <1>8, <1>11, NoteIs
  <2> QED
    BY <1>1, <1>3, <1>4, <1>8, <1>12, <2>1, <2>2, NewsHandledSent
<1>15. WatchFill'
  <2>1. \A q \in Pod \ podIdToName : Exists(q)' => Exists(q)
    BY <1>4, <1>8 DEF Exists
  <2>2. watchq' \in Seq(WatchEvent)
    BY DEF IInv, KubernetesTypeOK
  <2> QED
    BY <1>1, <1>5, <1>6, <1>8, <2>1, <2>2, WatchKept
<1>16. /\ QueueFill' /\ s \in goingToPlace /\ expectations' # <<>>
       /\ \A i \in DOMAIN expectations' : expectations'[i].kind = "Bind"
  <2>1. \A m \in EdgeNode : SeenAt(clusterState, m)' \subseteq
            SeenAt(clusterState, m) \cup IF m = api[p].node THEN {p} ELSE {}
    BY <1>7 DEF SeenAt, Seen
  <2>2. Len(expectations) # 1 /\ Binds(Planned(2), expectations[2].node)
        /\ Pipe' = Append(Tail(Pipe), Note("bound", Planned(2)))
    BY <1>0, <1>5, <1>12
  <2>3. \A q \in Pod : In(q)' <=> In(q) \/ q = Id(event.obj)
    BY <1>0, <1>11
  <2>4. \A m \in EdgeNode : SeenAt(clusterState, m)' \subseteq
            SeenAt(clusterState, m) \cup IF m = api[Id(event.obj)].node THEN {Id(event.obj)} ELSE {}
    BY <1>0, <2>1
  <2> QED
    BY <1>0, <1>1, <2>2, <2>3, <2>4, NextIsDue
<1>17. BufferFill'
  <2>1. (\A i, j \in DOMAIN newPodBuffer : Buffered(i) = Buffered(j) => i = j)'
    BY <1>1 DEF BufferFill, Buffered
  <2>2. ASSUME NEW i \in DOMAIN newPodBuffer
        PROVE  LET q == Id(newPodBuffer[i])
               IN (api'[q].phase = "Pending" /\ api'[q].node = Nil) \/ (api'[q].node # Nil /\ q \in goingToPlace)
    <3>1. PICK q \in Pod : q = Id(newPodBuffer[i])
      BY <1>1, PodObjType DEF IInv, ControlTypeOK
    <3>2. Unbound(q) \/ (Bound(q) /\ q \in goingToPlace)
      BY <1>1, <3>1 DEF BufferFill, Buffered
    <3>3. CASE q = s
      BY <1>8, <1>16, <3>1, <3>3 DEF Bound
    <3>4. CASE q # s
      BY <1>8, <3>1, <3>2, <3>4 DEF Bound, Unbound
    <3> QED
      BY <3>3, <3>4
  <2>3. (\A i \in DOMAIN newPodBuffer :
           \/ Unbound(Buffered(i))
           \/ /\ Bound(Buffered(i)) /\ Buffered(i) \in goingToPlace
              /\ ~(expectations = <<>> /\ pc \in {"select", "event"}))'
    BY <1>1, <1>16, <2>2 DEF Buffered, Unbound, Bound
  <2>4. ASSUME NEW i \in DOMAIN newPodBuffer, NEW j \in DOMAIN Pipe'
        PROVE  Pipe'[j] # Note("created", Id(newPodBuffer[i]))
    <3>1. Tail(Pipe) \in Seq(Notes) /\ Note("bound", s) \in Notes
      BY <1>3, <1>4, TailAt DEF Note, Notes
    <3>2. CASE j \in DOMAIN Tail(Pipe)
      <4>1. Pipe'[j] = Pipe[j + 1] /\ j + 1 \in DOMAIN Pipe
        BY <1>3, <1>12, <3>1, <3>2, AppendAt, TailAt
      <4> QED
        BY <1>1, <4>1 DEF BufferFill, Buffered
    <3>3. CASE j = Len(Tail(Pipe)) + 1
      <4>1. Pipe'[j] = Note("bound", s)
        BY <1>12, <3>1, <3>3, AppendAt
      <4> QED
        BY <4>1, NoteIs
    <3> QED
      BY <1>12, <3>1, <3>2, <3>3, AppendAt
  <2>5. (pc \in {"select", "event"} =>
           \A i \in DOMAIN newPodBuffer, j \in DOMAIN Pipe : Pipe[j] # Note("created", Buffered(i)))'
    BY <1>1, <2>4 DEF Buffered, Note
  <2> QED
    BY <2>1, <2>3, <2>5 DEF BufferFill
<1>18. ControlFill'
  <2>1. MigrantsIn'
    BY <1>1, <1>11, SuggestionKept
  <2> QED
    BY <1>1, <1>5, <2>1, ControlMoved DEF Booting
<1> QED
  BY <1>9, <1>10, <1>14, <1>15, <1>16, <1>17, <1>18 DEF FillInv

(* In the calm what is expected works out, and nothing fails.              *)
LEMMA NothingFails ==
  ASSUME Fills, IInv', Calm'
  PROVE  ~HandleFailed
<1> SUFFICES ASSUME HandleFailed
             PROVE  FALSE
  OBVIOUS
<1>0. Len(expectations) > 1 => Len(expectations) # 1
  <2>1. Len(expectations) \in Nat
    BY DEF Fills, IInv, PlanOK, PlanTypeOK, IsPlan
  <2>2. \A k \in Nat : k > 1 => k # 1
    OBVIOUS
  <2> QED
    BY ONLY <2>1, <2>2, Zenon
<1>1. Handling /\ Expected
  BY DEF HandleFailed
<1>2. PICK r \in After(expectations[1], event.obj, clusterState) :
        IF r.ok THEN Len(expectations) > 1 /\ Do(expectations[2], event.obj, r.cs, FALSE)
        ELSE UNCHANGED <<kubernetesVars, podIdToName>>
  BY DEF HandleFailed
<1>3. r.ok
  BY <1>1, BindingEntered
<1>4. Len(expectations) > 1 /\ Do(expectations[2], event.obj, r.cs, FALSE)
  BY <1>2, <1>3
<1> QED
  BY <1>0, <1>1, <1>4, NextBound

(* Whatever the event is.                                                  *)
LEMMA HandleFills ==
  ASSUME Fills, IInv', Calm', HandleEvent
  PROVE  FillInv'
  BY IgnoreFills, UnexpectedFills, LastBindingFills, NextBindingFills, NothingFails DEF HandleEvent

-----------------------------------------------------------------------------
(* schedule.                                                               *)

(* An enumeration has every element of the set, once.                      *)
LEMMA EnumerationIs ==
  ASSUME NEW S, IsFiniteSet(S), NEW q \in SetToSeqs(S)
  PROVE  /\ q \in Seq(S) /\ Len(q) \in Nat /\ DOMAIN q = 1..Len(q) /\ \A i \in DOMAIN q : q[i] \in S
         /\ \A i, j \in DOMAIN q : q[i] = q[j] => i = j
         /\ \A s \in S : \E i \in DOMAIN q : q[i] = s
<1>1. q \in Seq(S) /\ Len(q) \in Nat /\ DOMAIN q = 1..Len(q) /\ \A i \in DOMAIN q : q[i] \in S
  BY SetToSeqsType, ElementOfSeq
<1>2. Cardinality(S) \in Nat
  BY FS_CardinalityType
<1>3. q \in [1..Cardinality(S) -> S] /\ \A i, j \in 1..Cardinality(S) : i # j => q[i] # q[j]
  BY DEF SetToSeqs
<1>4. q \in Injection(1..Cardinality(S), S)
  BY <1>3 DEF Injection, IsInjective
<1>5. Cardinality(1..Cardinality(S)) = Cardinality(S)
  BY <1>2, FS_Interval
<1>6. q \in Surjection(1..Cardinality(S), S)
  BY <1>4, <1>5, FS_Injection
<1>7. \A s \in S : \E i \in DOMAIN q : q[i] = s
  BY <1>3, <1>6 DEF Surjection
<1> QED
  BY <1>1, <1>3, <1>7

(* A listing has one object of each of some pods that wait.                *)
LEMMA ListedWait ==
  ASSUME NEW u, NEW b \in PendingLists(u)
  PROVE  /\ \A i \in DOMAIN b : Unbound(Id(b[i])) /\ Id(b[i]) \in Pod
         /\ \A i, j \in DOMAIN b : Id(b[i]) = Id(b[j]) => i = j
<1>1. PICK ps \in SetToSeqs(PendingPods) :
        /\ \A i \in DOMAIN ps : FreshObj(ps[i], u) # {}
        /\ b = [i \in DOMAIN ps |-> CHOOSE o \in FreshObj(ps[i], u) : TRUE]
  BY DEF PendingLists
<1>2. IsFiniteSet(PendingPods)
  BY PodsFinite DEF PendingPods
<1>3. (\A i \in DOMAIN ps : ps[i] \in PendingPods) /\ \A i, j \in DOMAIN ps : ps[i] = ps[j] => i = j
  BY <1>2, EnumerationIs
<1>4. \A i \in DOMAIN ps : ps[i] \in Pod /\ Unbound(ps[i])
  BY <1>3 DEF PendingPods
<1>5. \A i \in DOMAIN ps : Id(CHOOSE o \in FreshObj(ps[i], u) : TRUE) = ps[i]
  BY <1>1, <1>4, FreshObjType
<1>6. DOMAIN b = DOMAIN ps /\ \A i \in DOMAIN ps : Id(b[i]) = ps[i]
  BY <1>1, <1>5
<1> QED
  BY <1>3, <1>4, <1>6

(* What concerns neither the queue nor the buffer stays as it was.         *)
LEMMA StillCluster ==
  ASSUME Fills, IInv', pc # "event", pc' # "event",
         UNCHANGED <<api, clusterState, podIdToName, eventStream, watchq, watching>>
  PROVE  /\ IInv /\ PodsFill /\ ViewFill /\ NewsFill /\ WatchFill /\ QueueFill /\ BufferFill /\ ControlFill
         /\ PodsFill' /\ ViewFill' /\ NewsFill' /\ WatchFill' /\ Quiet /\ Onward /\ Pipe' = Pipe
         /\ \A p \in Pod : (In(p)' <=> In(p)) /\ (Bound(p)' <=> Bound(p)) /\ (Unbound(p)' <=> Unbound(p))
<1>1. /\ IInv /\ PodsFill /\ ViewFill /\ NewsFill /\ WatchFill /\ QueueFill /\ BufferFill /\ ControlFill
  BY DEF Fills, FillInv
<1>2. PodsFill' /\ ViewFill' /\ Quiet
      /\ \A p \in Pod : (In(p)' <=> In(p)) /\ (Bound(p)' <=> Bound(p)) /\ (Unbound(p)' <=> Unbound(p))
  BY <1>1, StillWorld
<1>3. NewsFill' /\ WatchFill' /\ Onward /\ Pipe' = Pipe
  BY <1>1, StillNewsAndWatch
<1> QED
  BY <1>1, <1>2, <1>3

(* A buffer of different pods that wait, before schedule() is done.        *)
LEMMA BufferWaits ==
  ASSUME \A i \in DOMAIN newPodBuffer' : LET a == api'[Id(newPodBuffer'[i])] IN a.phase = "Pending" /\ a.node = Nil,
         \A i, j \in DOMAIN newPodBuffer' : Id(newPodBuffer'[i]) = Id(newPodBuffer'[j]) => i = j,
         pc' \in {"select", "event"} => newPodBuffer' = <<>>
  PROVE  BufferFill'
<1>1. (\A i, j \in DOMAIN newPodBuffer : Buffered(i) = Buffered(j) => i = j)'
  BY DEF Buffered
<1>2. (\A i \in DOMAIN newPodBuffer : Unbound(Buffered(i)))'
  BY DEF Buffered, Unbound
<1>3. (pc \in {"select", "event"} =>
         \A i \in DOMAIN newPodBuffer, j \in DOMAIN Pipe : Pipe[j] # Note("created", Buffered(i)))'
  OBVIOUS
<1> QED
  BY <1>1, <1>2, <1>3 DEF BufferFill

(* The pods that wait are listed.                                          *)
LEMMA ListFills ==
  ASSUME Fills, IInv', ListPending
  PROVE  FillInv'
<1>1. /\ pc = "list" /\ pc' = "match" /\ newPodBuffer' \in PendingLists(InUse)
      /\ UNCHANGED <<api, clusterState, podIdToName, eventStream, watchq, watching, expectations, goingToPlace,
                     syncVars, suggestion>>
  BY DEF ListPending, kubernetesVars, connectorVars, planVars
<1>2. /\ IInv /\ PodsFill /\ QueueFill /\ ControlFill
      /\ PodsFill' /\ ViewFill' /\ NewsFill' /\ WatchFill' /\ Quiet /\ Onward
      /\ \A p \in Pod : In(p)' <=> In(p)
  BY <1>1, StillCluster
<1>3. QueueFill'
  BY <1>1, <1>2, QueueKept
<1>4. BufferFill'
  <2>1. /\ \A i \in DOMAIN newPodBuffer' : Unbound(Id(newPodBuffer'[i]))
        /\ \A i, j \in DOMAIN newPodBuffer' : Id(newPodBuffer'[i]) = Id(newPodBuffer'[j]) => i = j
    BY <1>1, ListedWait
  <2> QED
    BY <1>1, <2>1, BufferWaits DEF Unbound
<1>5. ControlFill'
  <2>1. MigrantsIn'
    BY <1>1, <1>2, SuggestionKept
  <2>2. expectations' = <<>> \/ StuckMove'
    BY <1>1, <1>2 DEF ControlFill, StuckMove
  <2> QED
    BY <1>1, <1>2, <2>1, <2>2, ControlMoved DEF Booting
<1> QED
  BY <1>2, <1>3, <1>4, <1>5 DEF FillInv

(* Nobody in the buffer is new.                                            *)
LEMMA NothingNewFills ==
  ASSUME Fills, IInv', NothingNew
  PROVE  FillInv'
<1>1. /\ pc \in {"match", "batch"} /\ pc' = "select" /\ newPodBuffer' = <<>>
      /\ UNCHANGED <<api, clusterState, podIdToName, eventStream, watchq, watching, expectations, goingToPlace,
                     syncVars, suggestion>>
  BY DEF NothingNew, Deciding, kubernetesVars, connectorVars, planVars
<1>2. /\ IInv /\ PodsFill /\ QueueFill /\ ControlFill
      /\ PodsFill' /\ ViewFill' /\ NewsFill' /\ WatchFill' /\ Quiet /\ Onward
      /\ \A p \in Pod : In(p)' <=> In(p)
  BY <1>1, StillCluster
<1>3. QueueFill'
  BY <1>1, <1>2, QueueKept
<1>4. BufferFill'
  <2>1. DOMAIN newPodBuffer' = {}
    BY <1>1
  <2> QED
    BY <1>1, <2>1, BufferWaits
<1>5. ControlFill'
  <2>1. MigrantsIn'
    BY <1>1, <1>2, SuggestionKept
  <2> QED
    BY <1>1, <1>2, <2>1, ControlMoved DEF Booting
<1> QED
  BY <1>2, <1>3, <1>4, <1>5 DEF FillInv

(* What waits for a place are different pods without a node, as they were  *)
(* buffered, and not more of them than there are.                          *)
LEMMA KeptWait ==
  ASSUME Fills, NEW order \in InOrder(NotGoing)
  PROVE  LET left == [k \in DOMAIN order |-> newPodBuffer[order[k]]]
         IN /\ left \in Seq(PodObj) /\ Len(left) \in Nat /\ DOMAIN left = 1..Len(left)
            /\ Len(left) <= Cardinality(Pod) /\ Cardinality(Pod) \in Nat
            /\ \A k \in DOMAIN left : /\ left[k] \in PodObj /\ Id(left[k]) \in Pod /\ Unbound(Id(left[k]))
                                      /\ \E i \in DOMAIN newPodBuffer : left[k] = newPodBuffer[i]
            /\ \A j, k \in DOMAIN left : Id(left[j]) = Id(left[k]) => j = k
            /\ NotGoing # {} => left # <<>>
<1> DEFINE left == [k \in DOMAIN order |-> newPodBuffer[order[k]]]
<1>1. IInv /\ BufferFill /\ newPodBuffer \in Seq(PodObj)
  BY DEF Fills, FillInv, IInv, ControlTypeOK
<1>2. IsFiniteSet(NotGoing)
  <2>1. DOMAIN newPodBuffer = 1..Len(newPodBuffer) /\ Len(newPodBuffer) \in Nat
    BY <1>1
  <2>2. IsFiniteSet(1..Len(newPodBuffer)) /\ NotGoing \subseteq 1..Len(newPodBuffer)
    BY <2>1, FS_Interval DEF NotGoing
  <2> QED
    BY <2>2, FS_Subset
<1>3. /\ Len(order) \in Nat /\ DOMAIN order = 1..Len(order) /\ \A k \in DOMAIN order : order[k] \in NotGoing
      /\ \A j, k \in DOMAIN order : order[j] = order[k] => j = k
      /\ \A i \in NotGoing : \E k \in DOMAIN order : order[k] = i
  <2>1. order \in SetToSeqs(NotGoing)
    BY DEF InOrder
  <2> QED
    BY <1>2, <2>1, EnumerationIs
<1>4. \A k \in DOMAIN order : /\ order[k] \in DOMAIN newPodBuffer /\ left[k] = newPodBuffer[order[k]]
                              /\ Id(left[k]) = Buffered(order[k]) /\ Buffered(order[k]) \notin goingToPlace
  BY <1>3 DEF NotGoing, Buffered
<1>5. left \in Seq(PodObj)
  BY <1>1, KeptType
<1>6. DOMAIN left = DOMAIN order
  OBVIOUS
<1> HIDE DEF left
<1>7. Len(left) \in Nat /\ DOMAIN left = 1..Len(left) /\ \A k \in DOMAIN left : left[k] \in PodObj
  BY <1>5, ElementOfSeq
<1>8. \A k \in DOMAIN left : /\ left[k] \in PodObj /\ Id(left[k]) \in Pod /\ Unbound(Id(left[k]))
                             /\ \E i \in DOMAIN newPodBuffer : left[k] = newPodBuffer[i]
  BY <1>1, <1>4, <1>6, <1>7, PodObjType DEF BufferFill
<1>9. ASSUME NEW j \in DOMAIN left, NEW k \in DOMAIN left, Id(left[j]) = Id(left[k])
      PROVE  j = k
  <2>1. order[j] = order[k]
    BY <1>1, <1>4, <1>6, <1>9 DEF BufferFill
  <2> QED
    BY <1>3, <1>6, <2>1
<1>10. Len(left) <= Cardinality(Pod) /\ Cardinality(Pod) \in Nat
  <2> DEFINE ids == [k \in 1..Len(left) |-> Id(left[k])]
  <2>1. ids \in [1..Len(left) -> Pod]
    BY <1>7, <1>8
  <2>2. \A j, k \in 1..Len(left) : ids[j] = ids[k] => j = k
    BY <1>7, <1>9
  <2> HIDE DEF ids
  <2>3. ids \in Injection(1..Len(left), Pod)
    BY <2>1, <2>2 DEF Injection, IsInjective
  <2>4. IsFiniteSet(Pod) /\ Cardinality(Pod) \in Nat
    BY PodsAreFinite, FS_CardinalityType
  <2>5. Cardinality(1..Len(left)) <= Cardinality(Pod)
    BY <2>3, <2>4, FS_Injection
  <2>6. Cardinality(1..Len(left)) = Len(left)
    <3>1. PICK n : n = Len(left) /\ n \in Nat
      BY <1>7
    <3>2. 1 \in Int /\ n \in Int /\ (IF 1 > n THEN 0 ELSE n - 1 + 1) = n
      BY ONLY <3>1
    <3>3. Cardinality(1..n) = IF 1 > n THEN 0 ELSE n - 1 + 1
      BY ONLY <3>2, FS_Interval
    <3> QED
      BY ONLY <3>1, <3>2, <3>3
  <2> QED
    BY <2>4, <2>5, <2>6
<1>11. NotGoing # {} => left # <<>>
  BY <1>3, <1>6
<1> QED
  BY <1>5, <1>7, <1>8, <1>9, <1>10, <1>11 DEF left

(* When no binding is planned, every bound pod is in the view,             *)
LEMMA NobodyAway ==
  ASSUME IInv, QueueFill, expectations = <<>> \/ StuckMove
  PROVE  \A p \in Pod : Bound(p) => In(p)
<1>1. ASSUME NEW p \in Pod, Bound(p), ~In(p)
      PROVE  FALSE
  <2>1. expectations # <<>> /\ expectations[1].kind = "Bind"
    BY <1>1, AwayIsDue
  <2> QED
    BY <2>1 DEF StuckMove
<1> QED
  BY <1>1

(* and the queue may become another one that plans no binding.             *)
LEMMA QueueUnplanned ==
  ASSUME IInv, QueueFill, expectations = <<>> \/ StuckMove, expectations' = <<>> \/ StuckMove',
         \A p \in Pod : (In(p)' <=> In(p)) /\ (Bound(p)' <=> Bound(p)),
         \A n : SeenAt(clusterState, n)' = SeenAt(clusterState, n)
  PROVE  QueueFill'
<1>1. \A i \in DOMAIN expectations' : expectations'[i].kind # "Bind"
  BY DEF StuckMove
<1>2. (Placing \/ StuckMove)'
  <2>1. expectations' = <<>> => Placing'
    BY DEF Placing
  <2> QED
    BY <2>1
<1>3. (\A p \in Pod : Bound(p) /\ ~In(p) => Due(p))'
  BY NobodyAway
<1>4. (\A p \in Pod : Due(p) /\ Bound(p) => \A i \in DOMAIN expectations : Planned(i) \in goingToPlace)'
  BY DEF Due, StuckMove
<1>5. (\A i \in DOMAIN expectations : i > 1 /\ expectations[i].kind = "Bind" => CreatedFirst(Pipe, Planned(i)))'
  BY <1>1
<1>6. \A n \in EdgeNode :
        SeenAt(clusterState, n)' \cup PlannedTo(n)' \subseteq SeenAt(clusterState, n) \cup PlannedTo(n)
  BY <1>1 DEF PlannedTo
<1>7. (\A n \in EdgeNode, r \in Resource :
         SumFunctionOnSet(Sizes(r), SeenAt(clusterState, n) \cup PlannedTo(n)) <= Resources[n][r])'
  BY <1>6, RoomKept
<1> QED
  BY <1>2, <1>3, <1>4, <1>5, <1>7 DEF QueueFill

(* A reordering that is stuck gives way to new pods.                       *)
LEMMA AbandonFills ==
  ASSUME Fills, IInv', AbandonReorder
  PROVE  FillInv'
<1>1. /\ pc \in {"match", "batch"} /\ pc' = "batch" /\ expectations # <<>> /\ expectations' = <<>>
      /\ UNCHANGED <<api, clusterState, podIdToName, eventStream, watchq, watching, syncVars, suggestion>>
  BY DEF AbandonReorder, Deciding, kubernetesVars, connectorVars, Flush
<1>2. /\ IInv /\ QueueFill /\ ControlFill
      /\ PodsFill' /\ ViewFill' /\ NewsFill' /\ WatchFill' /\ Quiet
      /\ \A p \in Pod : (In(p)' <=> In(p)) /\ (Bound(p)' <=> Bound(p)) /\ (Unbound(p)' <=> Unbound(p))
  BY <1>1, StillCluster
<1>3. expectations = <<>> \/ StuckMove
  BY <1>1, <1>2 DEF ControlFill
<1>4. QueueFill'
  BY <1>1, <1>2, <1>3, QueueUnplanned DEF Quiet
<1>5. BufferFill'
  <2>1. PICK order \in InOrder(NotGoing) : newPodBuffer' = [k \in DOMAIN order |-> newPodBuffer[order[k]]]
    BY DEF AbandonReorder
  <2>2. /\ \A i \in DOMAIN newPodBuffer' : Unbound(Id(newPodBuffer'[i]))
        /\ \A i, j \in DOMAIN newPodBuffer' : Id(newPodBuffer'[i]) = Id(newPodBuffer'[j]) => i = j
    BY <2>1, KeptWait
  <2> QED
    BY <1>1, <2>2, BufferWaits DEF Unbound
<1>6. ControlFill'
  <2>1. MigrantsIn'
    BY <1>1, <1>2, SuggestionKept
  <2> QED
    BY <1>1, <1>2, <2>1, ControlMoved DEF Booting
<1> QED
  BY <1>2, <1>4, <1>5, <1>6 DEF FillInv

-----------------------------------------------------------------------------
(* What cannot happen in the calm, and how the scheduler boots.            *)

(* A fault, a crash and a recovery are counted.                            *)
LEMMA NothingHappens ==
  ASSUME IInv, Filling, Calm'
  PROVE  ~Fault /\ ~ListFails /\ ~SyncListFails /\ ~Crash /\ ~RecoverHealth
<1>1. faults \in Nat /\ crashes \in Nat /\ recoveries \in Nat
  BY DEF IInv, KubernetesTypeOK, ControlTypeOK
<1>2. faults' = 0 /\ crashes' = 0 /\ recoveries' = 0
  BY DEF Calm
<1>3. ~Fault
  BY <1>1, <1>2 DEF Fault
<1>4. ~Crash
  BY <1>1, <1>2 DEF Crash
<1>5. ~RecoverHealth
  <2>1. RecoverHealth => recoveries' = recoveries + 1
    BY DEF RecoverHealth, Filling
  <2> QED
    BY <1>1, <1>2, <2>1
<1> QED
  BY <1>3, <1>4, <1>5 DEF ListFails, SyncListFails

(* No creation is awaited by the queue, and no recovery is under way.      *)
LEMMA NothingAwaited ==
  ASSUME Fills
  PROVE  ~MatchPending /\ ~RecoverStep
<1>1. QueueFill /\ ControlFill
  BY DEF Fills, FillInv
<1>2. expectations # <<>> => expectations[1].kind # "Create"
  <2>1. ASSUME expectations # <<>>, Placing
        PROVE  expectations[1].kind = "Bind"
    <3>1. expectations \in Seq(Element)
      BY DEF Fills, IInv, PlanOK, PlanTypeOK, IsPlan
    <3>2. 1 \in DOMAIN expectations
      BY <2>1, <3>1
    <3> QED
      BY <2>1, <3>2 DEF Placing
  <2> QED
    BY <1>1, <2>1 DEF QueueFill, StuckMove
<1>3. ~CanMatch
  BY <1>2 DEF CanMatch, Awaited
<1>4. pc \notin {"wipe", "place"} /\ toPlace = {}
  BY <1>1 DEF ControlFill
<1>5. ~ForgetPod /\ ~SyncList /\ ~SyncListFails /\ ~FinishRecovery
  BY <1>4 DEF ForgetPod, SyncList, SyncListFails, FinishRecovery
<1>6. ~PlacePod
  BY <1>4 DEF PlacePod
<1> QED
  BY <1>3, <1>5, <1>6 DEF MatchPending, RecoverStep

(* A tidy view is cloned without a panic, and no object of it needs to be  *)
(* detached from a node that it is not on.                                 *)
LEMMA TidyClones ==
  ASSUME NEW c, Tidy(c)
  PROVE  ~ClonePanics(c)
  BY DEF Tidy, ClonePanics

(* The event that is handled puts no pod elsewhere.                        *)
LEMMA NoSwitchPanics ==
  ASSUME Fills, Handling, NEW c, Tidy(c),
         event.type = "POD_CHANGED" =>
            c.podsMap[Id(event.obj)] # Nil /\ c.node[c.podsMap[Id(event.obj)]] \in {event.node, Nil}
  PROVE  ~SwitchPanics(c)
<1>1. pc = "event" /\ Fills
  BY DEF Handling
<1>2. /\ Handled \in PodObj /\ Id(Handled) = Id(event.obj) /\ event.type \in {"POD_CREATED", "POD_CHANGED"}
      /\ event.type = "POD_CHANGED" => event.node # Nil
  BY <1>1, EventIsNews
<1>3. c.node[Handled] # Nil => c.podsMap[Id(event.obj)] = Handled
  BY <1>2 DEF Tidy
<1>4. ASSUME event.type = "POD_CHANGED"
      PROVE  c.node[Handled] \in {event.node, Nil}
  BY <1>3, <1>4
<1> QED
  BY <1>2, <1>4 DEF SwitchPanics

(* No pod of a tidy view has entries on both sides.                        *)
LEMMA NotOnBothSides ==
  ASSUME NEW c, Tidy(c), NEW p, OnEdge(c, p), OnCloud(c, p)
  PROVE  FALSE
<1>1. PICK o \in PodObj : Id(o) = p /\ c.edgePods[o] > 0
  BY DEF OnEdge, ObjectsOf
<1>2. PICK x \in PodObj : Id(x) = p /\ c.cloudPods[x] > 0
  BY DEF OnCloud, ObjectsOf
<1>3. c.node[o] \in EdgeNode /\ c.node[x] \in CloudNode
  BY <1>1, <1>2 DEF Tidy
<1>4. o = x
  BY <1>1, <1>2, <1>3, NodesAreDistinct DEF Tidy
<1> QED
  BY <1>3, <1>4, NodesAreDistinct

(* So nothing panics.                                                      *)
LEMMA NothingPanics ==
  ASSUME Fills
  PROVE  ~Panics
<1>1. Tidy(clusterState) /\ IInv /\ FillInv
  BY DEF Fills, FillInv, ViewFill
<1>2. ~ClonePanics(clusterState)
  BY <1>1, TidyClones
<1>3. pc # "wipe"
  BY <1>1 DEF FillInv, ControlFill
<1>4. ASSUME Handling, ~Expected
      PROVE  ~IsValidPanics /\ ~SwitchPanics(clusterState)
  <2>1. pc = "event"
    BY <1>4 DEF Handling
  <2>2. LET p == Id(event.obj)
        IN /\ event.type = "POD_CHANGED" => event.node = api[p].node /\ event.node # Nil
           /\ Handled # Nil
           /\ In(p) <=> clusterState.node[Handled] # Nil
           /\ In(p) => clusterState.node[Handled] = api[p].node
    BY <2>1, EventIsNews
  <2>3. ~IsValidPanics
    BY <2>2 DEF IsValidPanics
  <2>4. event.type = "POD_CHANGED" =>
            /\ clusterState.podsMap[Id(event.obj)] # Nil
            /\ clusterState.node[clusterState.podsMap[Id(event.obj)]] \in {event.node, Nil}
    BY <2>2 DEF Handled
  <2>5. ~SwitchPanics(clusterState)
    BY <1>1, <1>4, <2>4, NoSwitchPanics
  <2> QED
    BY <2>3, <2>5
<1>5. ASSUME Handling, Expected
      PROVE  ~AfterPanics(expectations[1], clusterState)
  <2>1. expectations[1].kind = "Bind"
    BY <1>5, ExpectedIsBinding
  <2> QED
    BY <2>1 DEF AfterPanics
<1>6. ASSUME Handling, Expected, NEW r \in After(expectations[1], event.obj, clusterState)
      PROVE  ~SwitchPanics(r.cs)
  <2>1. PICK p : p = Id(event.obj)
    OBVIOUS
  <2>2. /\ Tidy(r.cs)
        /\ \E o \in PodObj : /\ Id(o) = p
                             /\ r.cs.node = [clusterState.node EXCEPT ![o] = api[p].node]
                             /\ r.cs.podsMap = [clusterState.podsMap EXCEPT ![p] = o]
    BY <1>6, <2>1, BindingEntered
  <2>3. event.node = api[p].node /\ p \in Pod
    <3>1. pc = "event" /\ event.type = "POD_CHANGED"
      BY <1>6, ExpectedIsBinding DEF Handling
    <3> QED
      BY <2>1, <3>1, EventIsNews
  <2>4. r.cs.podsMap[p] # Nil /\ r.cs.node[r.cs.podsMap[p]] = event.node
    <3>1. clusterState.node \in [PodObj -> Node \cup {Nil}] /\ clusterState.podsMap \in [Pod -> PodObj \cup {Nil}]
      BY <1>1 DEF IInv, ConnectorTypeOK, ClusterStates
    <3> QED
      BY <2>2, <2>3, <3>1, NilIsNoObject
  <2> QED
    BY <1>6, <2>1, <2>2, <2>4, NoSwitchPanics
<1>7. ~ImagePanics
  BY <1>1, NotOnBothSides DEF ImagePanics
<1> QED
  BY <1>2, <1>3, <1>4, <1>5, <1>6, <1>7 DEF Panics

(* While the scheduler boots it knows nothing, and nothing is on a node.   *)
LEMMA BootingIs ==
  ASSUME IInv, PodsFill, ControlFill, Booting
  PROVE  /\ podIdToName = {} /\ watchq = <<>> /\ eventStream = <<>> /\ Pipe = <<>>
         /\ expectations = <<>> /\ newPodBuffer = <<>> /\ suggestion = Nil /\ pc # "event"
         /\ PodsToPlace = {}
         /\ \A p \in Pod : ~Bound(p)
<1>1. /\ podIdToName = {} /\ watchq = <<>> /\ eventStream = <<>> /\ pc # "event"
      /\ expectations = <<>> /\ newPodBuffer = <<>> /\ suggestion = Nil
  BY DEF ControlFill, Booting
<1>2. \A p \in Pod : ~Bound(p) /\ ~OnNode(p)
  BY <1>1, PodStates
<1>3. PodsToPlace = {}
  BY <1>2 DEF PodsToPlace
<1>4. Pipe = <<>>
  <2>1. InHand = <<>> /\ Under(eventStream, watchq) = <<>>
    BY <1>1 DEF InHand, Under
  <2> QED
    BY <2>1 DEF Pipe
<1> QED
  BY <1>1, <1>2, <1>3, <1>4

(* The process lists the namespace, in which nothing is bound yet,         *)
LEMMA BootFills ==
  ASSUME Fills, IInv', Boot
  PROVE  FillInv'
<1>1. /\ pc = "boot" /\ pc' = "bootplace" /\ toPlace' = PodsToPlace
      /\ UNCHANGED <<api, clusterState, podIdToName, eventStream, watchq, watching, expectations, goingToPlace,
                     toForget, newPodBuffer, suggestion>>
  BY DEF Boot, kubernetesVars, connectorVars, planVars
<1>2. IInv /\ PodsFill /\ ControlFill /\ Booting
  BY <1>1 DEF Fills, FillInv, Booting
<1>3. PodsToPlace = {}
  BY <1>2, BootingIs
<1>4. ControlFill'
  BY <1>1, <1>2, <1>3 DEF ControlFill, MigrantsIn, Booting
<1> QED
  BY <1>1, <1>4, ControlOnly

(* The watch is opened: each pod that is there is sent as created.         *)
LEMMA OpenedTells ==
  ASSUME IInv, IInv', PodsFill, Booting, ControlFill, OpenWatch, UNCHANGED <<podIdToName, eventStream>>, pc' = "select"
  PROVE  /\ Len(Pipe') = Len(watchq') /\ Pipe' \in Seq(Notes)
         /\ \A i \in DOMAIN watchq' : watchq'[i].type = "Added" /\ watchq'[i].node = Nil
         /\ \A i \in DOMAIN Pipe' : /\ i \in DOMAIN watchq' /\ Pipe'[i] = Note("created", watchq'[i].pod)
                                    /\ Exists(watchq'[i].pod)
         /\ \A i, j \in DOMAIN Pipe' : Pipe'[i].pod = Pipe'[j].pod => i = j
         /\ \A p \in Pod : Exists(p) => \E i \in DOMAIN watchq' : Says(watchq'[i]) = Note("created", p)
<1>1. PICK order \in SetToSeqs({p \in Pod : Exists(p)}) :
        watchq' = [i \in 1..Len(order) |-> Event("Added", order[i], api[order[i]])]
  BY DEF OpenWatch
<1>2. /\ Len(order) \in Nat /\ DOMAIN order = 1..Len(order)
      /\ \A i \in DOMAIN order : order[i] \in Pod /\ Exists(order[i])
      /\ \A i, j \in DOMAIN order : order[i] = order[j] => i = j
      /\ \A p \in Pod : Exists(p) => \E i \in DOMAIN order : order[i] = p
  <2>1. PICK there : there = {p \in Pod : Exists(p)}
    OBVIOUS
  <2>2. IsFiniteSet(there) /\ order \in SetToSeqs(there)
    BY <1>1, <2>1, PodsAreFinite, FS_Subset
  <2>3. /\ Len(order) \in Nat /\ DOMAIN order = 1..Len(order) /\ \A i \in DOMAIN order : order[i] \in there
        /\ \A i, j \in DOMAIN order : order[i] = order[j] => i = j
        /\ \A p \in there : \E i \in DOMAIN order : order[i] = p
    BY <2>2, EnumerationIs
  <2> QED
    BY <2>1, <2>3
<1>3. eventStream' = <<>> /\ \A p \in Pod : ~Bound(p)
  BY BootingIs
<1>4. watchq' \in Seq(WatchEvent) /\ DOMAIN watchq' = DOMAIN order
  BY <1>1, <1>2 DEF IInv, KubernetesTypeOK
<1>5. \A i \in DOMAIN watchq' : /\ watchq'[i].type = "Added" /\ watchq'[i].pod = order[i] /\ watchq'[i].node = Nil
                                /\ Says(watchq'[i]) = Note("created", order[i])
  BY <1>1, <1>2, <1>3, <1>4 DEF Event, Says, Bound
<1>6. Pipe' \in Seq(Notes) /\ Len(Pipe') = Len(watchq') /\ \A i \in DOMAIN watchq' : Pipe'[i] = Says(watchq'[i])
  <2>1. Pipe' = <<>> \o Under(eventStream', watchq')
    BY DEF Pipe, InHand, Under, Said, Says
  <2>2. <<>> \in Seq(SchedulingEvent)
    OBVIOUS
  <2>3. Len(<<>>) = 0
    OBVIOUS
  <2>4. /\ Under(<<>>, watchq') \in Seq(Notes)
        /\ Len(Under(<<>>, watchq')) = Len(<<>>) + Len(watchq')
        /\ \A i \in 1..Len(watchq') : Under(<<>>, watchq')[Len(<<>>) + i] = Says(watchq'[i])
    BY <1>4, <2>2, UnderIs
  <2>5. Len(watchq') \in Nat /\ DOMAIN watchq' = 1..Len(watchq')
    BY <1>4
  <2>6. \A i \in 1..Len(watchq') : 0 + i = i
    OBVIOUS
  <2>7. Len(Under(<<>>, watchq')) = Len(watchq')
    BY <2>3, <2>4, <2>5
  <2>8. Pipe' = Under(<<>>, watchq')
    BY <1>3, <2>1, <2>4, Prepend
  <2> QED
    BY <2>3, <2>4, <2>5, <2>6, <2>7, <2>8
<1>7. DOMAIN Pipe' = DOMAIN watchq'
  BY <1>4, <1>6
<1>8. ASSUME NEW i \in DOMAIN Pipe', NEW j \in DOMAIN Pipe', Pipe'[i].pod = Pipe'[j].pod
      PROVE  i = j
  <2>1. order[i] = order[j]
    BY <1>5, <1>6, <1>7, <1>8, NoteIs
  <2> QED
    BY <1>2, <1>4, <1>7, <2>1
<1> QED
  BY <1>2, <1>4, <1>5, <1>6, <1>7, <1>8

(* and starts to watch it.                                                 *)
LEMMA StartFills ==
  ASSUME Fills, IInv', StartWatching
  PROVE  FillInv'
<1>1. /\ pc = "bootplace" /\ pc' = "select" /\ OpenWatch
      /\ UNCHANGED <<api, clusterState, podIdToName, eventStream, expectations, goingToPlace, syncVars,
                     newPodBuffer, suggestion>>
      /\ watching'
  BY DEF StartWatching, OpenWatch, kubernetesVars, connectorVars, planVars
<1>2. IInv /\ PodsFill /\ ViewFill /\ QueueFill /\ ControlFill /\ Booting
  BY <1>1 DEF Fills, FillInv, Booting
<1>3. /\ podIdToName' = {} /\ eventStream' = <<>> /\ expectations' = <<>> /\ newPodBuffer' = <<>> /\ suggestion' = Nil
      /\ \A p \in Pod : ~Bound(p)
  BY <1>1, <1>2, BootingIs
<1>4. PodsFill' /\ ViewFill'
      /\ \A p \in Pod : (In(p)' <=> In(p)) /\ (Bound(p)' <=> Bound(p)) /\ (Exists(p)' <=> Exists(p))
  BY <1>1, <1>2, StillWorld
<1>5. /\ Pipe' \in Seq(Notes)
      /\ \A i \in DOMAIN watchq' : watchq'[i].type = "Added" /\ watchq'[i].node = Nil
      /\ \A i \in DOMAIN Pipe' : /\ i \in DOMAIN watchq' /\ Pipe'[i] = Note("created", watchq'[i].pod)
                                 /\ Exists(watchq'[i].pod)
      /\ \A i, j \in DOMAIN Pipe' : Pipe'[i].pod = Pipe'[j].pod => i = j
      /\ \A p \in Pod : Exists(p) => \E i \in DOMAIN watchq' : Says(watchq'[i]) = Note("created", p)
  BY <1>1, <1>2, OpenedTells
<1>6. NewsFill'
  <2>1. Orderly(Pipe')
    <3> SUFFICES ASSUME NEW i \in DOMAIN Pipe', NEW j \in DOMAIN Pipe', i < j, Pipe'[i].pod = Pipe'[j].pod
                 PROVE  FALSE
      BY DEF Orderly
    <3>1. i = j
      BY <1>5
    <3>2. DOMAIN Pipe' \subseteq Nat
      BY <1>5
    <3> QED
      BY <3>1, <3>2
  <2>2. \A i \in DOMAIN Pipe' : Pipe'[i].what = "created" /\ Pipe'[i].pod \in Pod /\ Exists(Pipe'[i].pod)
    BY <1>5, NoteIs
  <2>3. (\A i \in DOMAIN Pipe : IsNews(Pipe[i]))'
    <3> SUFFICES ASSUME NEW i \in DOMAIN Pipe'
                 PROVE  IsNews(Pipe[i])'
      OBVIOUS
    <3>1. PICK x : x = Pipe'[i]
      OBVIOUS
    <3>2. x.what = "created" /\ Exists(x.pod)' /\ x.pod \in Pod
      BY <1>4, <2>2, <3>1
    <3>3. ~In(x.pod)'
      BY <1>2, <1>3, <1>4, <3>2, SeenIsThere
    <3> QED
      BY <3>1, <3>2, <3>3 DEF IsNews
  <2>4. \A p \in Pod : ~Bound(p)'
    BY <1>3, <1>4
  <2> QED
    BY <2>1, <2>3, <2>4 DEF NewsFill, Orderly
<1>7. WatchFill'
  <2>1. (\A i \in DOMAIN watchq : SoundWatch(watchq[i]))'
    BY <1>3, <1>5 DEF SoundWatch
  <2>2. (\A p \in Pod \ podIdToName :
           Exists(p) /\ watching => \E i \in DOMAIN watchq : Says(watchq[i]) = Note("created", p))'
    BY <1>4, <1>5 DEF Says, Note
  <2> QED
    BY <1>1, <1>3, <2>1, <2>2 DEF WatchFill
<1>8. QueueFill'
  <2>1. expectations = <<>> /\ expectations' = <<>>
    BY <1>2, <1>3, BootingIs
  <2>2. \A p \in Pod : (In(p)' <=> In(p)) /\ (Bound(p)' <=> Bound(p))
    BY ONLY <1>4
  <2>3. \A n : SeenAt(clusterState, n)' = SeenAt(clusterState, n)
    BY <1>1 DEF SeenAt, Seen
  <2> QED
    BY <1>2, <2>1, <2>2, <2>3, QueueUnplanned
<1>9. BufferFill'
  BY <1>3, BufferWaits
<1>10. ControlFill'
  BY <1>1, <1>2, <1>3 DEF ControlFill, MigrantsIn, Booting, syncVars
<1> QED
  BY <1>4, <1>6, <1>7, <1>8, <1>9, <1>10 DEF FillInv

-----------------------------------------------------------------------------
(* A batch is placed.                                                      *)

(* No pod is entered twice, so the algorithms do decide.                   *)
LEMMA NoConflict ==
  ASSUME IInv, ViewFill
  PROVE  ~Conflict(clusterState)
<1> SUFFICES ASSUME NEW p \in Pod, NEW o \in ObjectsOf(p), clusterState.edgePods[o] > 0,
                    NEW x \in ObjectsOf(p), clusterState.cloudPods[x] > 0
             PROVE  FALSE
  BY DEF Conflict, OnEdge, OnCloud
<1>1. o \in PodObj /\ Id(o) = p /\ x \in PodObj /\ Id(x) = p /\ Tidy(clusterState)
  BY DEF ObjectsOf, ViewFill
<1>2. clusterState.node[o] \in EdgeNode /\ clusterState.node[x] \in CloudNode
  BY <1>1 DEF Tidy
<1>3. clusterState.podsMap[p] = o /\ clusterState.podsMap[p] = x
  BY <1>1, <1>2, NodesAreDistinct DEF Tidy
<1> QED
  BY <1>2, <1>3, NodesAreDistinct

(* The edge pods of a batch fit their nodes, with what is there already.   *)
LEMMA BatchFits ==
  ASSUME IInv, ViewFill, NEW left \in Seq(PodObj),
         \A j, k \in DOMAIN left : Id(left[j]) = Id(left[k]) => j = k,
         \A k \in DOMAIN left : ~In(Id(left[k])),
         NEW I \in SUBSET DOMAIN left, NEW f \in EdgeMappings(RemainingOf(clusterState), left, I),
         NEW n \in EdgeNode, NEW r \in Resource
  PROVE  SumFunctionOnSet(Sizes(r), SeenAt(clusterState, n) \cup {Id(left[k]) : k \in {j \in DOMAIN f : f[j] = n}})
           <= Resources[n][r]
<1>0. PICK K, here, there : /\ K = {k \in DOMAIN f : f[k] = n} /\ here = SeenAt(clusterState, n)
                            /\ there = {Id(left[k]) : k \in K}
  OBVIOUS
<1>1. clusterState.nodeUsed[n][r] = SumFunctionOnSet(Sizes(r), here)
  BY <1>0 DEF ViewFill, Tidy
<1>2. here \in SUBSET Pod /\ K \in SUBSET DOMAIN left
  BY <1>0, EdgeMappingsType DEF SeenAt
<1>3. \A k \in DOMAIN left : left[k] \in PodObj /\ Id(left[k]) \in Pod
  BY ElementOfSeq, PodObjType
<1>4. there \in SUBSET Pod /\ there \cap here = {}
  BY <1>0, <1>2, <1>3 DEF SeenAt, In
<1>5. IsFiniteSet(K) /\ IsFiniteSet(here) /\ IsFiniteSet(there) /\ \A x \in Pod : Sizes(r)[x] \in Int
  <2>1. IsFiniteSet(DOMAIN left)
    BY FS_Interval
  <2> QED
    BY <1>2, <1>4, <2>1, FS_Subset, PodsFinite, SizesType
<1>6. SumFunctionOnSet(Sizes(r), here \cup there) = SumFunctionOnSet(Sizes(r), here) + SumFunctionOnSet(Sizes(r), there)
  BY <1>2, <1>4, <1>5, SumUnion
<1>7. SumFunctionOnSet(Sizes(r), there) = Need(left, K, r)
  <2>1. PICK size : size = [i \in K |-> ResourcesRequired[Dep(left[i])][r]]
    OBVIOUS
  <2>2. PICK id : id = [i \in K |-> Id(left[i])]
    OBVIOUS
  <2>3. \A k \in K : size[k] \in Int /\ Sizes(r)[id[k]] = size[k]
    BY <1>2, <1>3, <1>5, <2>1, <2>2 DEF Sizes, Dep, Id
  <2>4. \A j, k \in K : id[j] = id[k] => j = k
    BY <1>2, <2>2
  <2>5. there = {id[k] : k \in K}
    BY <1>0, <2>2
  <2>6. SumFunctionOnSet(Sizes(r), {id[k] : k \in K}) = SumFunctionOnSet(size, K)
    BY <1>5, <2>3, <2>4, SumImage
  <2> QED
    BY <2>1, <2>5, <2>6 DEF Need
<1>8. /\ SumFunctionOnSet(Sizes(r), here) \in Nat /\ SumFunctionOnSet(Sizes(r), there) \in Nat
      /\ Resources[n][r] \in Nat
  BY <1>2, <1>4, SizeSumType, ResourcesAreVectors
<1>9. Need(left, K, r) <= Resources[n][r] - SumFunctionOnSet(Sizes(r), here) \/ K = {}
  <2>1. CASE f = <<>>
    BY <1>0, <2>1
  <2>2. CASE f \in Assignments(RemainingOf(clusterState), left, I)
    <3>1. Need(left, K, r) <= RemainingOf(clusterState)[n][r]
      BY <1>0, <2>2 DEF Assignments, Respects
    <3> QED
      BY <1>1, <3>1 DEF RemainingOf, Remaining
  <2> QED
    BY <2>1, <2>2 DEF EdgeMappings
<1>10. CASE K = {}
  <2>1. here \cup there = here
    BY <1>0, <1>10
  <2>2. clusterState.nodeUsed[n][r] <= Resources[n][r]
    BY DEF IInv, NeverOverbooked, WithinResources
  <2> QED
    BY <1>0, <1>1, <2>1, <2>2
<1>11. CASE Need(left, K, r) <= Resources[n][r] - SumFunctionOnSet(Sizes(r), here)
  <2>1. SumFunctionOnSet(Sizes(r), here \cup there) <= Resources[n][r]
    BY <1>6, <1>7, <1>8, <1>11
  <2> QED
    BY <1>0, <2>1
<1> QED
  BY <1>9, <1>10, <1>11

(* A plan that binds different pods, which wait, where there is room.      *)
GoesTo(plan, n) == {Id(plan[i].obj) : i \in {j \in DOMAIN plan : plan[j].node = n}}

FreshPlan(plan) ==
  /\ plan \in Seq(Element) /\ plan # <<>> /\ 1 \in DOMAIN plan
  /\ \A i \in DOMAIN plan : /\ plan[i].kind = "Bind" /\ plan[i].tp = "PLACING"
                            /\ plan[i].obj \in PodObj /\ plan[i].node \in Node
                            /\ Unbound(Id(plan[i].obj))
  /\ \A i, j \in DOMAIN plan : Id(plan[i].obj) = Id(plan[j].obj) => i = j
  /\ \A n \in EdgeNode, r \in Resource :
       SumFunctionOnSet(Sizes(r), SeenAt(clusterState, n) \cup GoesTo(plan, n)) <= Resources[n][r]

(* What a batch is made into is such a plan, of its pods.                  *)
LEMMA BatchIsFresh ==
  ASSUME IInv, PodsFill, ViewFill, NEW left \in Seq(PodObj), left # <<>>,
         \A j, k \in DOMAIN left : Id(left[j]) = Id(left[k]) => j = k,
         \A k \in DOMAIN left : Unbound(Id(left[k])),
         NEW I \in SUBSET DOMAIN left, NEW f \in EdgeMappings(RemainingOf(clusterState), left, I),
         NEW q \in SetToSeqs(1..Len(left))
  PROVE  LET plan == BatchPlan(left, q, f)
         IN /\ FreshPlan(plan)
            /\ \A i \in DOMAIN plan : \E k \in DOMAIN left : plan[i].obj = left[k]
<1> DEFINE Target(i) == IF q[i] \in DOMAIN f THEN f[q[i]] ELSE CloudHead
<1>0. PICK plan : plan = BatchPlan(left, q, f)
  OBVIOUS
<1>1. Len(left) \in Nat /\ DOMAIN left = 1..Len(left) /\ 1 \in DOMAIN left
  OBVIOUS
<1>2. /\ Len(q) \in Nat /\ DOMAIN q = 1..Len(q) /\ \A i \in DOMAIN q : q[i] \in DOMAIN left
      /\ \A i, j \in DOMAIN q : q[i] = q[j] => i = j
      /\ \E i \in DOMAIN q : q[i] = 1
  <2>1. PICK S : S = 1..Len(left)
    OBVIOUS
  <2>2. IsFiniteSet(S) /\ q \in SetToSeqs(S) /\ S = DOMAIN left /\ 1 \in S
    BY <1>1, <2>1, FS_Interval
  <2>3. /\ Len(q) \in Nat /\ DOMAIN q = 1..Len(q) /\ \A i \in DOMAIN q : q[i] \in S
        /\ \A i, j \in DOMAIN q : q[i] = q[j] => i = j
        /\ \A s \in S : \E i \in DOMAIN q : q[i] = s
    BY <2>2, EnumerationIs
  <2> QED
    BY <2>2, <2>3
<1>3. \A x \in DOMAIN f : f[x] \in EdgeNode
  BY EdgeMappingsType
<1>4. GoodPlan(plan)
  BY <1>0, <1>3, BatchPlanGood
<1>5. DOMAIN plan = DOMAIN q /\ \A i \in DOMAIN q : plan[i] = BindElement(left[q[i]], Target(i), "PLACING")
  BY <1>0 DEF BatchPlan
<1>6. \A i \in DOMAIN q : Target(i) \in Node
  BY <1>3, CloudHeadIsCloud DEF Node
<1>7. ASSUME NEW i \in DOMAIN plan
      PROVE  /\ plan[i].kind = "Bind" /\ plan[i].tp = "PLACING" /\ plan[i].obj = left[q[i]] /\ plan[i].node = Target(i)
             /\ i \in DOMAIN q /\ q[i] \in DOMAIN left /\ plan[i].obj \in PodObj /\ plan[i].node \in Node
             /\ Unbound(Id(plan[i].obj))
  <2>1. q[i] \in DOMAIN left
    BY <1>2, <1>5
  <2>2. plan[i] = BindElement(left[q[i]], Target(i), "PLACING")
    BY <1>5
  <2>3. plan[i].kind = "Bind" /\ plan[i].tp = "PLACING" /\ plan[i].obj = left[q[i]] /\ plan[i].node = Target(i)
    BY <2>2 DEF BindElement
  <2>4. left[q[i]] \in PodObj
    BY <1>1, <2>1, ElementOfSeq
  <2> QED
    BY <1>5, <1>6, <2>1, <2>3, <2>4
<1>8. plan \in Seq(Element) /\ 1 \in DOMAIN plan /\ plan # <<>>
  <2>1. plan \in Seq(Element)
    BY <1>4 DEF GoodPlan, IsPlan
  <2>2. 1 \in DOMAIN plan
    BY <1>2, <1>5
  <2> QED
    BY <2>1, <2>2
<1>9. ASSUME NEW i \in DOMAIN plan, NEW j \in DOMAIN plan, Id(plan[i].obj) = Id(plan[j].obj)
      PROVE  i = j
  <2>1. q[i] = q[j]
    BY <1>7, <1>9
  <2> QED
    BY <1>2, <1>7, <2>1
<1>10. ASSUME NEW n \in EdgeNode, NEW r \in Resource
       PROVE  SumFunctionOnSet(Sizes(r), SeenAt(clusterState, n) \cup GoesTo(plan, n)) <= Resources[n][r]
  <2>0. PICK mapped, here : /\ mapped = {Id(left[k]) : k \in {j \in DOMAIN f : f[j] = n}}
                            /\ here = SeenAt(clusterState, n)
    OBVIOUS
  <2>1. \A k \in DOMAIN left : ~In(Id(left[k])) /\ Id(left[k]) \in Pod
    <3> TAKE k \in DOMAIN left
    <3>1. PICK p : p = Id(left[k])
      OBVIOUS
    <3>2. p \in Pod /\ Unbound(p)
      BY <3>1, ElementOfSeq, PodObjType
    <3>3. ~Bound(p)
      BY <3>2, PodStates
    <3> QED
      BY <3>1, <3>2, <3>3, SeenIsThere
  <2>2. SumFunctionOnSet(Sizes(r), here \cup mapped) <= Resources[n][r]
    BY <2>0, <2>1, BatchFits
  <2>3. GoesTo(plan, n) \subseteq mapped
    <3> SUFFICES ASSUME NEW i \in DOMAIN plan, plan[i].node = n
                 PROVE  Id(plan[i].obj) \in mapped
      BY DEF GoesTo
    <3>1. CASE q[i] \in DOMAIN f
      BY <1>7, <2>0, <3>1
    <3>2. CASE q[i] \notin DOMAIN f
      <4>1. n = CloudHead
        BY <1>7, <3>2
      <4> QED
        BY <4>1, CloudHeadIsCloud, NodesAreDistinct
    <3> QED
      BY <3>1, <3>2
  <2>4. mapped \subseteq Pod /\ here \subseteq Pod
    BY <2>0, <2>1, EdgeMappingsType DEF SeenAt
  <2>5. PICK S, T : S = here \cup GoesTo(plan, n) /\ T = here \cup mapped
    OBVIOUS
  <2>6. T \in SUBSET Pod /\ S \in SUBSET T
    BY <2>3, <2>4, <2>5
  <2>7. /\ SumFunctionOnSet(Sizes(r), S) <= SumFunctionOnSet(Sizes(r), T)
        /\ SumFunctionOnSet(Sizes(r), S) \in Nat /\ SumFunctionOnSet(Sizes(r), T) \in Nat
    BY <2>6, SizesOrdered
  <2>8. SumFunctionOnSet(Sizes(r), T) <= Resources[n][r] /\ Resources[n][r] \in Nat
    BY <2>2, <2>5, ResourcesAreVectors
  <2>9. SumFunctionOnSet(Sizes(r), S) <= Resources[n][r]
    BY ONLY <2>7, <2>8
  <2> QED
    BY <2>0, <2>5, <2>9
<1> HIDE DEF Target
<1>11. \A i \in DOMAIN plan : \E k \in DOMAIN left : plan[i].obj = left[k]
  BY <1>7
<1>12. FreshPlan(plan)
  BY <1>7, <1>8, <1>9, <1>10 DEF FreshPlan
<1> QED
  BY <1>0, <1>11, <1>12

(* What deciding about the buffer does in the calm: all of it is planned.  *)
LEMMA BatchPlanned ==
  ASSUME Fills, PlaceBatch
  PROVE  /\ pc \in {"match", "batch"} /\ pc' = "select" /\ expectations = <<>> /\ newPodBuffer' = <<>>
         /\ UNCHANGED <<clusterState, podIdToName, eventStream, syncVars, suggestion>>
         /\ \E ok \in BOOLEAN :
              /\ FreshPlan(expectations') /\ Deploy(Id(expectations'[1].obj), expectations'[1].node, ok)
              /\ ok => \A i \in DOMAIN expectations' : Id(expectations'[i].obj) \in goingToPlace'
<1>1. PICK order \in InOrder(NotGoing) :
       LET left  == [k \in DOMAIN order |-> newPodBuffer[order[k]]]
           n     == IF Len(left) < BatchSize THEN Len(left) ELSE BatchSize
           batch == SubSeq(left, 1, n)
           going == goingToPlace \cup {Id(batch[i]) : i \in DOMAIN batch}
       IN /\ newPodBuffer' = SubSeq(left, n + 1, Len(left))
          /\ IF Conflict(clusterState)
             THEN UNCHANGED <<kubernetesVars, podIdToName, planVars>>
             ELSE \E I \in EdgeSubsets(clusterState, batch) :
                  \E f \in EdgeMappings(RemainingOf(clusterState), batch, I) :
                  \E q \in SetToSeqs(1..n) :
                    /\ PlanOrder(q, I)
                    /\ SchedulePlan(BatchPlan(batch, q, f), going, expectedReorderDeployments)
  BY DEF PlaceBatch
<1> DEFINE left  == [k \in DOMAIN order |-> newPodBuffer[order[k]]]
           n     == IF Len(left) < BatchSize THEN Len(left) ELSE BatchSize
           batch == SubSeq(left, 1, n)
           going == goingToPlace \cup {Id(batch[i]) : i \in DOMAIN batch}
<1>2. /\ newPodBuffer' = SubSeq(left, n + 1, Len(left))
      /\ ~Conflict(clusterState) =>
            \E I \in EdgeSubsets(clusterState, batch) :
            \E f \in EdgeMappings(RemainingOf(clusterState), batch, I) :
            \E q \in SetToSeqs(1..n) :
              SchedulePlan(BatchPlan(batch, q, f), going, expectedReorderDeployments)
  BY <1>1
<1>3. /\ pc \in {"match", "batch"} /\ pc' = "select" /\ expectations = <<>> /\ NotGoing # {}
      /\ UNCHANGED <<clusterState, eventStream, syncVars, suggestion>>
  BY DEF PlaceBatch, Deciding
<1>4. /\ left \in Seq(PodObj) /\ Len(left) \in Nat /\ left # <<>>
      /\ Len(left) <= Cardinality(Pod) /\ Cardinality(Pod) \in Nat
      /\ \A k \in DOMAIN left : Unbound(Id(left[k]))
      /\ \A j, k \in DOMAIN left : Id(left[j]) = Id(left[k]) => j = k
  BY <1>3, KeptWait
<1> HIDE DEF left
<1>5. Len(left) <= BatchSize /\ BatchSize \in Nat
  BY <1>4, SchedulerBounds DEF Fills, Filling
<1>6. n = Len(left) /\ batch = left /\ SubSeq(left, n + 1, Len(left)) = <<>>
  <2>1. n = Len(left)
    BY <1>4, <1>5
  <2>2. SubSeq(left, 1, Len(left)) = left
    BY <1>4
  <2>3. SubSeq(left, Len(left) + 1, Len(left)) = <<>>
    BY <1>4
  <2> HIDE DEF n
  <2> QED
    BY <2>1, <2>2, <2>3
<1>7. going = goingToPlace \cup {Id(left[i]) : i \in DOMAIN left}
  BY <1>6
<1> HIDE DEF n, batch, going
<1>8. ~Conflict(clusterState)
  BY NoConflict DEF Fills, FillInv
<1>9. /\ newPodBuffer' = <<>>
      /\ \E I \in EdgeSubsets(clusterState, left) :
         \E f \in EdgeMappings(RemainingOf(clusterState), left, I) :
         \E q \in SetToSeqs(1..Len(left)) :
            SchedulePlan(BatchPlan(left, q, f), going, expectedReorderDeployments)
  BY <1>2, <1>6, <1>8
<1>10. PICK I \in EdgeSubsets(clusterState, left) :
         \E f \in EdgeMappings(RemainingOf(clusterState), left, I) :
         \E q \in SetToSeqs(1..Len(left)) :
            SchedulePlan(BatchPlan(left, q, f), going, expectedReorderDeployments)
  BY <1>9
<1>11. PICK f \in EdgeMappings(RemainingOf(clusterState), left, I), q \in SetToSeqs(1..Len(left)) :
         SchedulePlan(BatchPlan(left, q, f), going, expectedReorderDeployments)
  BY <1>10
<1>12. PICK plan : plan = BatchPlan(left, q, f)
  OBVIOUS
<1>13. FreshPlan(plan) /\ \A i \in DOMAIN plan : \E k \in DOMAIN left : plan[i].obj = left[k]
  <2>1. I \in SUBSET DOMAIN left
    BY DEF EdgeSubsets
  <2>2. IInv /\ PodsFill /\ ViewFill
    BY DEF Fills, FillInv
  <2> QED
    BY <1>4, <1>12, <2>1, <2>2, BatchIsFresh
<1>14. /\ plan # <<>> /\ plan \in Seq(Element) /\ plan[1].kind = "Bind"
  BY <1>13 DEF FreshPlan
<1>15. PICK ok \in BOOLEAN : /\ Do(plan[1], Nil, clusterState, ok)
                             /\ expectations' = (IF ok THEN expectations ELSE <<>>) \o plan
                             /\ goingToPlace' = IF ok THEN going ELSE {}
  BY <1>11, <1>12, <1>14 DEF SchedulePlan
<1>16. expectations' = plan
  <2>1. <<>> \o plan = plan
    BY <1>14
  <2> QED
    BY <1>3, <1>15, <2>1
<1>17. Deploy(Id(plan[1].obj), plan[1].node, ok)
  BY <1>14, <1>15 DEF Do
<1>18. ok => \A i \in DOMAIN plan : Id(plan[i].obj) \in goingToPlace'
  BY <1>7, <1>13, <1>15
<1>19. UNCHANGED podIdToName
  BY <1>17 DEF Deploy
<1> QED
  BY <1>3, <1>9, <1>13, <1>16, <1>17, <1>18, <1>19

(* No binding is told when none is planned.                                *)
LEMMA NoBindingTold ==
  ASSUME IInv, NewsFill, QueueFill, expectations = <<>> \/ StuckMove
  PROVE  \A p : CreatedFirst(Pipe, p)
<1>1. Pipe \in Seq(Notes)
  BY PipeIs
<1>2. ASSUME NEW k \in DOMAIN Pipe, Pipe[k].what = "bound"
      PROVE  FALSE
  <2>1. Pipe[k] \in Notes /\ IsNews(Pipe[k])
    BY <1>1 DEF NewsFill
  <2>2. PICK p : p = Pipe[k].pod
    OBVIOUS
  <2>3. p \in Pod /\ Bound(p) /\ ~In(p)
    BY <1>2, <2>1, <2>2, NoteIs DEF IsNews
  <2> QED
    BY <2>3, NobodyAway
<1> QED
  BY <1>2 DEF CreatedFirst

(* The queue takes up such a plan, whose first binding is made or not.     *)
LEMMA PlanQueued ==
  ASSUME IInv, PodsFill, ViewFill, NewsFill, QueueFill, expectations = <<>>, FreshPlan(expectations'),
         UNCHANGED clusterState, NEW p, p = Id(expectations'[1].obj),
         \/ UNCHANGED api /\ Pipe' = Pipe
         \/ /\ Binds(p, expectations'[1].node) /\ Pipe' = Append(Pipe, Note("bound", p))
            /\ \A i \in DOMAIN expectations' : Id(expectations'[i].obj) \in goingToPlace'
  PROVE  QueueFill'
<1>1. /\ 1 \in DOMAIN expectations' /\ expectations' # <<>>
      /\ \A i \in DOMAIN expectations' :
           /\ expectations'[i].kind = "Bind" /\ expectations'[i].tp = "PLACING"
           /\ Id(expectations'[i].obj) \in Pod /\ Unbound(Id(expectations'[i].obj))
      /\ \A i, j \in DOMAIN expectations' : Id(expectations'[i].obj) = Id(expectations'[j].obj) => i = j
      /\ \A n \in EdgeNode, r \in Resource :
           SumFunctionOnSet(Sizes(r), SeenAt(clusterState, n) \cup GoesTo(expectations', n)) <= Resources[n][r]
      /\ expectations' \in Seq(Element)
  BY PodObjType DEF FreshPlan
<1>2. p \in Pod /\ ~Bound(p) /\ ~In(p)
  <2>1. p \in Pod /\ Unbound(p)
    BY <1>1
  <2>2. ~Bound(p)
    BY <2>1, PodStates
  <2> QED
    BY <2>1, <2>2, SeenIsThere
<1>3. /\ \A q \in Pod : q # p => api'[q] = api[q]
      /\ \/ UNCHANGED api
         \/ api'[p].node = expectations'[1].node /\ \A i \in DOMAIN expectations' : Id(expectations'[i].obj) \in goingToPlace'
  <2>1. CASE UNCHANGED api
    BY <2>1
  <2>2. CASE /\ Binds(p, expectations'[1].node)
             /\ \A i \in DOMAIN expectations' : Id(expectations'[i].obj) \in goingToPlace'
    BY <1>2, <2>2, BindsMoves
  <2> QED
    BY <2>1, <2>2
<1>4. ~(clusterState'.podsMap[p] # Nil /\ clusterState'.node[clusterState'.podsMap[p]] # Nil)
  BY <1>2 DEF In, Seen
<1>5. Placing'
  <2>1. ASSUME NEW i \in DOMAIN expectations'
        PROVE  IF i = 1 /\ Bound(Planned(1))' THEN api'[Planned(1)'].node = expectations'[1].node /\ ~In(Planned(1))'
               ELSE Unbound(Planned(i))'
    <3>1. PICK q : q = Id(expectations'[i].obj)
      OBVIOUS
    <3>2. q \in Pod /\ Unbound(q) /\ (q = p <=> i = 1)
      BY <1>1, <3>1
    <3>3. CASE i # 1
      <4>1. api'[q].phase = "Pending" /\ api'[q].node = Nil
        BY <1>3, <3>2, <3>3 DEF Unbound
      <4> QED
        BY <3>1, <3>3, <4>1 DEF Unbound, Planned
    <3>4. CASE i = 1 /\ api'[p].node # Nil
      <4>1. api'[p].node = expectations'[1].node
        BY <1>2, <1>3, <3>4 DEF Bound
      <4> QED
        BY <1>4, <3>4, <4>1 DEF In, Seen, Planned, Bound
    <3>5. CASE i = 1 /\ api'[p].node = Nil
      <4>1. api'[p].phase = "Pending"
        <5>1. Unbound(p)
          BY <3>2, <3>5
        <5>2. CASE UNCHANGED api
          BY <5>1, <5>2 DEF Unbound
        <5>3. CASE Binds(p, expectations'[1].node)
          BY <1>2, <5>3, BindsMoves
        <5> QED
          BY <5>2, <5>3
      <4> QED
        BY <3>5, <4>1 DEF Unbound, Bound, Planned
    <3> QED
      BY <3>3, <3>4, <3>5
  <2>2. (\A i, j \in DOMAIN expectations : Planned(i) = Planned(j) => i = j)'
    BY <1>1 DEF Planned
  <2> QED
    BY <1>1, <2>1, <2>2 DEF Placing
<1>6. (\A q \in Pod : Bound(q) /\ ~In(q) => Due(q))'
  <2>1. ASSUME NEW q \in Pod, Bound(q)', ~In(q)'
        PROVE  q = p
    <3>1. ~In(q)
      BY <2>1 DEF In, Seen
    <3>2. ~Bound(q)
      BY <3>1, NobodyAway
    <3> QED
      BY <1>3, <2>1, <3>2 DEF Bound
  <2> QED
    BY <1>1, <2>1 DEF Due, Planned
<1>7. (\A q \in Pod : Due(q) /\ Bound(q) => \A i \in DOMAIN expectations : Planned(i) \in goingToPlace)'
  <2>1. ASSUME NEW q \in Pod, q = Id(expectations'[1].obj), api'[q].node # Nil
        PROVE  \A i \in DOMAIN expectations' : Id(expectations'[i].obj) \in goingToPlace'
    BY <1>2, <1>3, <2>1 DEF Bound
  <2> QED
    BY <2>1 DEF Due, Bound, Planned
<1>8. (\A i \in DOMAIN expectations : i > 1 /\ expectations[i].kind = "Bind" => CreatedFirst(Pipe, Planned(i)))'
  <2>1. \A q : CreatedFirst(Pipe, q)
    BY NoBindingTold
  <2>2. \A q : CreatedFirst(Pipe', q)
    <3>1. CASE Pipe' = Pipe
      BY <2>1, <3>1
    <3>2. CASE Pipe' = Append(Pipe, Note("bound", p))
      <4>1. Pipe \in Seq(Notes) /\ Note("bound", p) \in Notes
        BY <1>2, PipeIs, NotesType
      <4>2. \A q : Note("bound", p) # Note("created", q)
        BY NoteIs
      <4>3. \A q : CreatedFirst(Append(Pipe, Note("bound", p)), q)
        BY <2>1, <4>1, <4>2, CreatedFirstAppend
      <4> QED
        BY <3>2, <4>3
    <3> QED
      BY <3>1, <3>2
  <2> QED
    BY <2>2 DEF CreatedFirst, Planned, Note
<1>9. (\A n \in EdgeNode, r \in Resource :
         SumFunctionOnSet(Sizes(r), SeenAt(clusterState, n) \cup PlannedTo(n)) <= Resources[n][r])'
  <2>1. \A n : PlannedTo(n)' = GoesTo(expectations', n)
    BY <1>1 DEF PlannedTo, GoesTo, Planned
  <2>2. \A n : SeenAt(clusterState, n)' = SeenAt(clusterState, n)
    BY DEF SeenAt, Seen
  <2>3. \A r : Sizes(r)' = Sizes(r)
    BY DEF Sizes
  <2> QED
    BY <1>1, <2>1, <2>2, <2>3
<1> QED
  BY <1>5, <1>6, <1>7, <1>8, <1>9 DEF QueueFill

(* A batch is planned, and its first binding made.                         *)
LEMMA PlaceFills ==
  ASSUME Fills, IInv', Calm', PlaceBatch
  PROVE  FillInv'
<1>0. PICK p, n : p = Id(expectations'[1].obj) /\ n = expectations'[1].node
  OBVIOUS
<1>1. /\ IInv /\ Calm /\ PodsFill /\ ViewFill /\ NewsFill /\ WatchFill /\ QueueFill /\ ControlFill
      /\ pc \in {"match", "batch"} /\ pc' = "select" /\ expectations = <<>> /\ newPodBuffer' = <<>>
      /\ UNCHANGED <<clusterState, podIdToName, eventStream, syncVars, suggestion>>
      /\ FreshPlan(expectations')
  BY BatchPlanned DEF Fills, FillInv
<1>2. PICK ok \in BOOLEAN :
        /\ Deploy(p, n, ok)
        /\ ok => \A i \in DOMAIN expectations' : Id(expectations'[i].obj) \in goingToPlace'
  BY <1>0, BatchPlanned
<1>3. p \in Pod /\ Unbound(p) /\ n \in Node
  BY <1>0, <1>1, PodObjType DEF FreshPlan
<1>4. BufferFill'
  <2>1. DOMAIN newPodBuffer' = {}
    BY <1>1
  <2> QED
    BY <1>1, <2>1, BufferWaits
<1>5. ~Bound(p) /\ ~In(p)
  <2>1. ~Bound(p)
    BY <1>1, <1>3, PodStates
  <2> QED
    BY <1>1, <1>3, <2>1, SeenIsThere
<1>6. \A q \in Pod : In(q)' <=> In(q)
  BY <1>1 DEF In, Seen
<1>7. ASSUME UNCHANGED watching
      PROVE  ControlFill'
  <2>1. MigrantsIn'
    BY <1>1, <1>6, SuggestionKept
  <2> QED
    BY <1>1, <1>7, <2>1, ControlMoved DEF Booting
<1>8. CASE p \notin podIdToName
  <2>1. UNCHANGED kubernetesVars
    BY <1>2, <1>8 DEF Deploy
  <2>2. UNCHANGED <<api, watchq, watching>>
    BY <2>1 DEF kubernetesVars
  <2>3. PodsFill' /\ ViewFill' /\ NewsFill' /\ WatchFill' /\ Pipe' = Pipe
    BY <1>1, <2>2, StillCluster
  <2>4. QueueFill'
    BY <1>0, <1>1, <2>2, <2>3, PlanQueued
  <2> QED
    BY <1>4, <1>7, <2>2, <2>3, <2>4 DEF FillInv
<1>9. CASE p \in podIdToName
  <2>1. /\ ok /\ Binds(p, n) /\ UNCHANGED <<podIdToName, watching>>
        /\ watchq' = IF watching THEN Append(watchq, Event("Modified", p, api'[p])) ELSE watchq
    BY <1>1, <1>2, <1>3, <1>9, BindingMade
  <2>2. watching
    BY <1>1 DEF ControlFill, Booting
  <2>3. PICK e \in WatchEvent : e = Event("Modified", p, api'[p]) /\ Says(e) = Note("bound", p) /\ SoundWatch(e)'
    <3>1. api'[p] = [phase |-> "Pending", node |-> n]
      BY <1>1, <1>3, <2>1 DEF Binds, IInv, KubernetesTypeOK
    <3> QED
      BY <1>3, <3>1, BindingSays
  <2>4. watchq' = Append(watchq, e)
    BY <2>1, <2>2, <2>3
  <2>5. Pipe' = Append(Pipe, Note("bound", p)) /\ Note("bound", p) \in Notes
    BY <1>1, <2>3, <2>4, PipeIdle
  <2>6. /\ Grows /\ Exists(p)' /\ Bound(p)'
        /\ \A q \in Pod : q # p => api'[q] = api[q] /\ (Bound(q)' <=> Bound(q)) /\ (Unbound(q)' <=> Unbound(q))
    BY <1>1, <1>3, <2>1, BindsMoves
  <2>7. PodsFill'
    BY <1>1, <1>3, <1>9, <2>1, PodsFillStep
  <2>8. ViewFill'
    BY <1>1, <2>6, ViewSame
  <2>9. NewsFill'
    <3>1. IsNews(Note("bound", p))'
      BY <1>3, <1>5, <1>6, <2>6, NoteIs DEF IsNews
    <3>2. \A q \in Pod : (In(q)' <=> In(q)) /\ (Bound(q)' => Bound(q) \/ Note("bound", p) = Note("bound", q))
      BY <1>6, <2>6
    <3>3. \A i \in DOMAIN Pipe : Pipe[i].pod = p => Rank[Pipe[i].what] < Rank["bound"]
      <4> SUFFICES ASSUME NEW i \in DOMAIN Pipe, Pipe[i].pod = p
                   PROVE  Rank[Pipe[i].what] < Rank["bound"]
        OBVIOUS
      <4>1. Pipe[i] \in Notes /\ IsNews(Pipe[i])
        BY <1>1, PipeIs DEF NewsFill
      <4>2. Pipe[i].what = "created"
        BY <1>5, <4>1 DEF IsNews
      <4> QED
        BY <4>2, RankIs
    <3>4. \A i \in DOMAIN Pipe : Pipe[i].pod = Note("bound", p).pod => Rank[Pipe[i].what] < Rank[Note("bound", p).what]
      BY <3>3, NoteIs
    <3> QED
      BY <1>1, <2>5, <2>6, <3>1, <3>2, <3>4, NewsSent
  <2>10. WatchFill'
    <3>1. \A q \in Pod \ podIdToName : Exists(q)' => Exists(q)
      BY <1>9, <2>6 DEF Exists
    <3>2. watchq' \in Seq(WatchEvent)
      BY DEF IInv, KubernetesTypeOK
    <3> QED
      BY <1>1, <2>1, <2>3, <2>4, <2>6, <3>1, <3>2, WatchKept
  <2>11. QueueFill'
    BY <1>0, <1>1, <1>2, <2>1, <2>5, PlanQueued
  <2> QED
    BY <1>4, <1>7, <2>1, <2>7, <2>8, <2>9, <2>10, <2>11 DEF FillInv
<1> QED
  BY <1>8, <1>9

-----------------------------------------------------------------------------
(* A suggestion is checked.                                                *)

(* A plan that binds nothing before it has deleted a pod that is known.    *)
DeletesFirst(plan) ==
    /\ plan \in Seq(Element) /\ \A i \in DOMAIN plan : plan[i].kind # "Bind"
    /\ plan # <<>> => plan[1].kind = "Delete" /\ Id(plan[1].obj) \in podIdToName

(* One such plan after another is one.                                     *)
LEMMA DeletesFirstConcat ==
  ASSUME NEW a, NEW b, DeletesFirst(a), DeletesFirst(b)
  PROVE  DeletesFirst(a \o b)
<1>1. a \in Seq(Element) /\ b \in Seq(Element)
  BY DEF DeletesFirst
<1>2. /\ a \o b \in Seq(Element) /\ Len(a \o b) = Len(a) + Len(b)
      /\ \A i \in 1..Len(a) : (a \o b)[i] = a[i]
      /\ \A i \in 1..Len(b) : (a \o b)[Len(a) + i] = b[i]
  BY <1>1, ConcatAt
<1>3. Len(a) \in Nat /\ Len(b) \in Nat /\ DOMAIN a = 1..Len(a) /\ DOMAIN b = 1..Len(b)
  BY <1>1
<1>4. PICK c : c = a \o b
  OBVIOUS
<1>5. c \in Seq(Element) /\ DOMAIN c = 1..(Len(a) + Len(b))
  BY <1>2, <1>4
<1>6. \A i \in 1..Len(a) : c[i] = a[i]
  BY <1>2, <1>4
<1>7. \A i \in 1..(Len(a) + Len(b)) : i \notin 1..Len(a) => i - Len(a) \in 1..Len(b) /\ c[i] = b[i - Len(a)]
  <2> SUFFICES ASSUME NEW i \in 1..(Len(a) + Len(b)), i \notin 1..Len(a)
               PROVE  i - Len(a) \in 1..Len(b) /\ c[i] = b[i - Len(a)]
    OBVIOUS
  <2>1. i - Len(a) \in 1..Len(b) /\ Len(a) + (i - Len(a)) = i
    BY <1>3
  <2> QED
    BY <1>2, <1>4, <2>1
<1>8. \A i \in DOMAIN c : c[i].kind # "Bind"
  BY <1>3, <1>5, <1>6, <1>7 DEF DeletesFirst
<1>9. ASSUME c # <<>>
      PROVE  c[1].kind = "Delete" /\ Id(c[1].obj) \in podIdToName
  <2>1. 1 \in 1..(Len(a) + Len(b))
    BY <1>3, <1>5, <1>9
  <2>2. CASE Len(a) > 0
    <3>1. a # <<>> /\ c[1] = a[1]
      BY <1>3, <1>6, <2>2
    <3> QED
      BY <3>1 DEF DeletesFirst
  <2>3. CASE Len(a) = 0
    <3>1. b # <<>> /\ c[1] = b[1]
      BY <1>3, <1>7, <2>1, <2>3
    <3> QED
      BY <3>1 DEF DeletesFirst
  <2> QED
    BY <1>3, <2>2, <2>3
<1> QED
  BY <1>4, <1>5, <1>8, <1>9 DEF DeletesFirst

(* The migrations that are left move pods, and delete them first.          *)
LEMMA MigrationsDelete ==
  ASSUME IInv, ViewFill, ControlFill, suggestion # Nil, NEW moved \in CheckedMigrations
  PROVE  DeletesFirst(MigrationsPlan(moved))
<1> DEFINE V == {p \in Seq(Element) : DeletesFirst(p)}
<1>1. clusterState \in ClusterStates /\ suggestion \in Suggestion
  BY DEF IInv, ConnectorTypeOK, ControlTypeOK
<1>2. moved \in Seq(Move) /\ \A i \in DOMAIN moved : \E m \in Surviving : moved[i].obj = clusterState.podsMap[m.pod]
  BY <1>1, CheckedMigrationsType
<1>3. <<>> \in V
  BY DEF DeletesFirst
<1>4. ASSUME NEW i \in DOMAIN moved
      PROVE  DeletesFirst(MigrationElements(moved[i]))
  <2>1. PICK m \in Surviving : moved[i].obj = clusterState.podsMap[m.pod]
    BY <1>2
  <2>2. m \in suggestion.migrations /\ clusterState.podsMap[m.pod] # Nil
    BY <2>1 DEF Surviving
  <2>3. m.pod \in Pod /\ In(m.pod)
    BY <1>1, <2>2 DEF ControlFill, MigrantsIn, Suggestion, Migration
  <2>4. IsMove(moved[i])
    BY <2>1, <2>3 DEF In, Seen, IsMove
  <2>5. Id(moved[i].obj) \in podIdToName
    BY <2>1, <2>2, <2>3 DEF ViewFill, Tidy
  <2>6. PICK e : e = MigrationElements(moved[i]) /\ e = MoveElements(moved[i].obj, moved[i].node)
    BY <2>4 DEF MigrationElements
  <2>7. moved[i] \in Move
    BY <1>2, ElementOfSeq
  <2>8. e \in Seq(Element)
    BY <2>6, <2>7, MigrationElementsGood DEF Reordering, GoodPlan, IsPlan
  <2>9. /\ DOMAIN e = 1..3 /\ e[1].kind = "Delete" /\ e[2].kind = "Create" /\ e[3].kind = "MigrateBind"
        /\ e[1].obj = moved[i].obj
    BY <2>6 DEF MoveElements
  <2> QED
    BY <2>5, <2>6, <2>8, <2>9 DEF DeletesFirst
<1>5. \A i \in DOMAIN moved, v \in V : v \o MigrationElements(moved[i]) \in V
  <2> SUFFICES ASSUME NEW i \in DOMAIN moved, NEW v \in V
               PROVE  v \o MigrationElements(moved[i]) \in V
    OBVIOUS
  <2>1. PICK w : w = v \o MigrationElements(moved[i]) /\ DeletesFirst(w)
    BY <1>4, DeletesFirstConcat
  <2> QED
    BY <2>1 DEF DeletesFirst
<1> HIDE DEF V
<1>6. MigrationsPlan(moved) \in V
  BY <1>2, <1>3, <1>5, MigrationsPlanIn
<1> QED
  BY <1>6 DEF V

MovesKnown(ms) == \A i \in DOMAIN ms : Id(ms[i].obj) \in podIdToName

(* The pods that are taken from the cloud are known.                       *)
LEMMA PulledMoves ==
  ASSUME IInv, ViewFill, suggestion # Nil,
         NEW objs, objs = [p \in StillOnCloud |-> clusterState.podsMap[p]],
         NEW f, DOMAIN f \subseteq StillOnCloud, \A x \in DOMAIN f : f[x] \in EdgeNode, NEW q \in SetToSeqs(DOMAIN f)
  PROVE  LET ms == [i \in DOMAIN q |-> [obj |-> objs[q[i]], node |-> f[q[i]]]]
         IN ms \in Seq(Move) /\ MovesKnown(ms)
<1>0. PICK ms : ms = [i \in DOMAIN q |-> [obj |-> objs[q[i]], node |-> f[q[i]]]]
  OBVIOUS
<1>1. clusterState \in ClusterStates /\ suggestion \in Suggestion
  BY DEF IInv, ConnectorTypeOK, ControlTypeOK
<1>2. /\ StillOnCloud \subseteq Pod
      /\ \A p \in StillOnCloud : clusterState.podsMap[p] \in PodObj /\ clusterState.podsMap[p] # Nil
  BY <1>1, StillOnCloudType DEF StillOnCloud
<1>3. Len(q) \in Nat /\ DOMAIN q = 1..Len(q) /\ \A i \in DOMAIN q : q[i] \in DOMAIN f
  <2>1. IsFiniteSet(DOMAIN f)
    BY <1>2, PodsAreFinite, FS_Subset
  <2> QED
    BY <2>1, EnumerationIs
<1>4. \A i \in DOMAIN q : /\ ms[i] = [obj |-> clusterState.podsMap[q[i]], node |-> f[q[i]]]
                          /\ q[i] \in StillOnCloud /\ q[i] \in Pod
  BY <1>0, <1>2, <1>3
<1>5. ASSUME NEW i \in DOMAIN q
      PROVE  ms[i] \in Move /\ Id(ms[i].obj) \in podIdToName
  <2>1. PICK p, o, n : p = q[i] /\ o = clusterState.podsMap[p] /\ n = f[p]
    OBVIOUS
  <2>2. p \in Pod /\ o \in PodObj /\ o # Nil /\ n \in Node /\ ms[i] = [obj |-> o, node |-> n]
    BY <1>2, <1>3, <1>4, <2>1 DEF Node
  <2>3. Id(o) = p /\ p \in podIdToName
    BY <2>1, <2>2 DEF ViewFill, Tidy
  <2>4. ms[i] \in Move /\ ms[i].obj = o
    BY <2>2 DEF Move
  <2> QED
    BY <2>3, <2>4
<1>6. ms \in Seq(Move) /\ DOMAIN ms = DOMAIN q
  BY <1>0, <1>3, <1>5
<1> QED
  BY <1>0, <1>5, <1>6 DEF MovesKnown

(* A plan of moves binds nothing before it has deleted.                    *)
LEMMA MovesBindNothing ==
  ASSUME NEW ms \in Seq(Move), MovesKnown(ms)
  PROVE  DeletesFirst(MovesPlan(ms))
<1>0. PICK plan : plan = MovesPlan(ms)
  OBVIOUS
<1>1. /\ plan \in Seq(Element) /\ \A i \in DOMAIN plan : plan[i].tp = "REORDERING" /\ WellFormed(plan[i])
      /\ plan # <<>> => plan[1].kind = "Delete"
  BY <1>0, MovesPlanGood DEF GoodPlan, IsPlan
<1>2. DOMAIN plan = 1..(3 * Len(ms)) /\ Len(ms) \in Nat
  BY <1>0 DEF MovesPlan
<1>3. ASSUME NEW i \in DOMAIN plan
      PROVE  plan[i].kind # "Bind"
  <2>0. i \in 1..(3 * Len(ms))
    BY ONLY <1>2, i \in DOMAIN plan
  <2>1. PICK k \in 1..Len(ms), j \in 1..3 :
          ms[k] \in Move /\ plan[i] = MoveElements(ms[k].obj, ms[k].node)[j]
    BY <1>0, <2>0, MovesPlanAt
  <2>2. ms[k].obj \in PodObj /\ ms[k].node \in Node
    BY ONLY <2>1 DEF Move
  <2>3. plan[i].kind \in {"Delete", "Create", "MigrateBind"}
    <3>1. PICK o \in PodObj, n \in Node : o = ms[k].obj /\ n = ms[k].node
      BY ONLY <2>2
    <3>2. /\ j = 1 => MoveElements(o, n)[j].kind = "Delete"
          /\ j = 2 => MoveElements(o, n)[j].kind = "Create"
          /\ j = 3 => MoveElements(o, n)[j].kind = "MigrateBind"
      BY ONLY j \in 1..3, o \in PodObj, n \in Node, MoveElementsType
    <3>3. plan[i] = MoveElements(o, n)[j]
      BY ONLY <2>1, <3>1
    <3> QED
      BY ONLY <3>2, <3>3, j \in 1..3
  <2> QED
    BY <2>3
<1>4. ASSUME plan # <<>>
      PROVE  Id(plan[1].obj) \in podIdToName
  <2>1. 1 \in DOMAIN plan /\ 1 \in 1..(3 * Len(ms)) /\ 1 \in DOMAIN ms
    BY <1>1, <1>2, <1>4
  <2>2. plan[1] = MoveElements(ms[1].obj, ms[1].node)[1]
    BY <1>0, <2>1 DEF MovesPlan
  <2>3. plan[1].obj = ms[1].obj
    BY <2>2 DEF MoveElements
  <2> QED
    BY <2>1, <2>3 DEF MovesKnown
<1> QED
  BY <1>0, <1>1, <1>3, <1>4 DEF DeletesFirst

(* So what a suggestion is made into binds nothing before it has deleted.  *)
LEMMA SuggestedMoves ==
  ASSUME Fills, CheckSuggestion
  PROVE  \E plan : \E going, expected :
           /\ SchedulePlan(plan, going, expected)
           /\ <<>> \o plan = plan /\ DeletesFirst(plan)
<1> DEFINE objs == [p \in StillOnCloud |-> clusterState.podsMap[p]]
           Expects(moved) == [d \in Deployment |->
                                 Cardinality({i \in DOMAIN moved : IsMove(moved[i]) /\ Dep(moved[i].obj) = d})]
           ToEdge(f, q) == [i \in DOMAIN q |-> [obj |-> objs[q[i]], node |-> f[q[i]]]]
           ToQueue(moved, f, q) == MigrationsPlan(moved) \o MovesPlan(ToEdge(f, q))
<1>1. PICK moved \in CheckedMigrations :
        \E f \in EdgeMappings(RemainingAfter(moved), objs, StillOnCloud) :
        \E q \in SetToSeqs(DOMAIN f) : SchedulePlan(ToQueue(moved, f, q), StillOnCloud, Expects(moved))
  BY DEF CheckSuggestion
<1>2. PICK f \in EdgeMappings(RemainingAfter(moved), objs, StillOnCloud) :
        \E q \in SetToSeqs(DOMAIN f) : SchedulePlan(ToQueue(moved, f, q), StillOnCloud, Expects(moved))
  BY <1>1
<1>3. PICK q \in SetToSeqs(DOMAIN f) : SchedulePlan(ToQueue(moved, f, q), StillOnCloud, Expects(moved))
  BY <1>2
<1>4. IInv /\ ViewFill /\ ControlFill /\ suggestion # Nil
  BY DEF Fills, FillInv, CheckSuggestion
<1>5. DeletesFirst(MigrationsPlan(moved))
  BY <1>4, MigrationsDelete
<1>6. ToEdge(f, q) \in Seq(Move) /\ MovesKnown(ToEdge(f, q))
  BY <1>4, EdgeMappingsType, PulledMoves
<1> HIDE DEF ToEdge, objs, Expects
<1>7. DeletesFirst(ToQueue(moved, f, q))
  BY <1>5, <1>6, MovesBindNothing, DeletesFirstConcat
<1> HIDE DEF ToQueue
<1>8. <<>> \o ToQueue(moved, f, q) = ToQueue(moved, f, q)
  BY <1>7 DEF DeletesFirst
<1> QED
  BY <1>3, <1>7, <1>8

(* In the calm no pod is deleted: at most, its deletion is refused.        *)
LEMMA NothingDeleted ==
  ASSUME IInv, PodsFill, Calm, Calm', NEW p \in podIdToName, NEW ok \in BOOLEAN
  PROVE  ~DeletePod(p, ok)
<1> SUFFICES ASSUME DeletePod(p, ok)
             PROVE  FALSE
  OBVIOUS
<1>1. p \in Pod /\ faults = 0 /\ faults' = 0 /\ api'[p].phase # "Gone"
  BY DEF IInv, ConnectorTypeOK, Calm
<1>2. Exists(p)
  BY <1>1 DEF PodsFill, Exists
<1>3. Delete(p, ok)
  BY DEF DeletePod
<1>4. ~Fault
  BY <1>1 DEF Fault
<1>5. ~Change("Deleted", p, [phase |-> "Gone", node |-> Nil])
  BY <1>1 DEF Change, IInv, KubernetesTypeOK
<1> QED
  BY <1>2, <1>3, <1>4, <1>5 DEF Delete, Served

(* A suggestion is checked, and planned unless nothing of it is left.      *)
LEMMA CheckFills ==
  ASSUME Fills, IInv', Calm', CheckSuggestion
  PROVE  FillInv'
<1>1. /\ pc = "select" /\ pc' = "select" /\ expectations = <<>> /\ suggestion' = Nil
      /\ UNCHANGED <<clusterState, eventStream, syncVars, newPodBuffer>>
      /\ IInv /\ Calm /\ PodsFill
  BY DEF CheckSuggestion, Busy, Fills, FillInv
<1>2. PICK plan, going, expected :
        SchedulePlan(plan, going, expected) /\ <<>> \o plan = plan /\ DeletesFirst(plan)
  BY SuggestedMoves
<1>3. UNCHANGED <<kubernetesVars, podIdToName>> /\ (expectations' = <<>> \/ StuckMove')
  <2>1. CASE plan = <<>>
    BY <1>1, <1>2, <2>1 DEF SchedulePlan
  <2>2. CASE plan # <<>>
    <3>1. PICK ok \in BOOLEAN : /\ Do(plan[1], Nil, clusterState, ok)
                                /\ expectations' = (IF ok THEN expectations ELSE <<>>) \o plan
      BY <1>2, <2>2 DEF SchedulePlan
    <3>2. expectations' = plan
      BY <1>1, <1>2, <3>1
    <3>3. StuckMove'
      BY <1>2, <2>2, <3>2 DEF StuckMove, DeletesFirst
    <3>4. plan[1].kind = "Delete" /\ ~DeletePod(Id(plan[1].obj), ok)
      BY <1>1, <1>2, <2>2, NothingDeleted DEF DeletesFirst
    <3>5. UNCHANGED <<kubernetesVars, podIdToName>>
      BY <3>1, <3>4 DEF Do
    <3> QED
      BY <3>3, <3>5
  <2> QED
    BY <2>1, <2>2
<1>4. UNCHANGED <<api, watchq, watching>>
  BY <1>3 DEF kubernetesVars
<1>5. /\ QueueFill /\ BufferFill /\ ControlFill
      /\ PodsFill' /\ ViewFill' /\ NewsFill' /\ WatchFill' /\ Quiet /\ Pipe' = Pipe
      /\ \A p \in Pod : (In(p)' <=> In(p)) /\ (Bound(p)' <=> Bound(p)) /\ (Unbound(p)' <=> Unbound(p))
  BY <1>1, <1>3, <1>4, StillCluster
<1>6. QueueFill'
  BY <1>1, <1>3, <1>5, QueueUnplanned DEF Quiet
<1>7. BufferFill'
  <2>1. (\A i, j \in DOMAIN newPodBuffer : Buffered(i) = Buffered(j) => i = j)'
    BY <1>1, <1>5 DEF BufferFill, Buffered
  <2>2. (\A i \in DOMAIN newPodBuffer : Unbound(Buffered(i)))'
    BY <1>1, <1>4, <1>5 DEF BufferFill, Buffered, Unbound
  <2>3. (pc \in {"select", "event"} =>
           \A i \in DOMAIN newPodBuffer, j \in DOMAIN Pipe : Pipe[j] # Note("created", Buffered(i)))'
    BY <1>1, <1>5 DEF BufferFill, Buffered, Note
  <2> QED
    BY <2>1, <2>2, <2>3 DEF BufferFill
<1>8. ControlFill'
  <2>1. MigrantsIn'
    BY <1>1 DEF MigrantsIn
  <2> QED
    BY <1>1, <1>4, <1>5, <2>1, ControlMoved DEF Booting
<1> QED
  BY <1>5, <1>6, <1>7, <1>8 DEF FillInv

-----------------------------------------------------------------------------
(* The calm does not come back: a failure and a deletion stay.             *)

Lasting ==
  /\ disruptions' \in {disruptions, disruptions + 1}
  /\ faults' \in {faults, faults + 1}
  /\ \A p \in Pod : api[p].phase = "Gone" => api'[p].phase = "Gone"

(* A pod that is gone is not changed.                                      *)
LEMMA GoneIsGone ==
  ASSUME api \in [Pod -> ApiPod], NEW p \in Pod, api[p].phase # "Gone", NEW type, NEW a, Change(type, p, a)
  PROVE  \A q \in Pod : api[q].phase = "Gone" => api'[q].phase = "Gone"
  BY DEF Change

(* What the cluster does by itself is not undone,                          *)
LEMMA WorldLasts ==
  ASSUME IInv, ClusterChange
  PROVE  Lasting
<1>1. api \in [Pod -> ApiPod]
  BY DEF IInv, KubernetesTypeOK
<1>2. ASSUME NEW p \in Pod, CreatePod(p) \/ StartPod(p)
      PROVE  Lasting
  <2>1. api[p].phase # "Gone" /\ UNCHANGED <<disruptions, faults>> /\ \E type, a : Change(type, p, a)
    BY <1>2 DEF CreatePod, StartPod
  <2> QED
    BY <1>1, <2>1, GoneIsGone DEF Lasting
<1>3. ASSUME NEW p \in Pod, FinishPod(p) \/ DisruptPod(p) \/ BindForeign(p) \/ UpdatePod(p)
      PROVE  Lasting
  <2>1. Disruption /\ api[p].phase # "Gone" /\ \E type, a : Change(type, p, a)
    BY <1>3 DEF FinishPod, DisruptPod, BindForeign, UpdatePod, Exists, Unbound
  <2>2. disruptions' = disruptions + 1 /\ UNCHANGED faults
    BY <2>1 DEF Disruption
  <2> QED
    BY <1>1, <2>1, <2>2, GoneIsGone DEF Lasting
<1> QED
  BY <1>2, <1>3 DEF ClusterChange

(* nor is a call that failed or did nothing,                               *)
LEMMA StillLasts ==
  ASSUME UNCHANGED <<api, disruptions>>, UNCHANGED faults \/ Fault
  PROVE  Lasting
  BY DEF Lasting, Fault

(* A call is made, whatever comes of it.                                   *)
LEMMA CallLasts ==
  ASSUME IInv, NEW p, NEW n, NEW ok, Deploy(p, n, ok) \/ DeletePod(p, ok)
  PROVE  Lasting
<1>1. api \in [Pod -> ApiPod] /\ podIdToName \subseteq Pod
  BY DEF IInv, KubernetesTypeOK, ConnectorTypeOK
<1>2. CASE UNCHANGED kubernetesVars
  BY <1>2, StillLasts DEF kubernetesVars
<1>3. CASE p \in podIdToName /\ Bind(p, n, ok)
  <2>1. /\ p \in Pod /\ UNCHANGED disruptions
        /\ \/ UNCHANGED api /\ (UNCHANGED faults \/ Fault)
           \/ Unbound(p) /\ (UNCHANGED faults \/ Fault) /\ Change("Modified", p, [phase |-> "Pending", node |-> n])
    BY <1>1, <1>3 DEF Bind, Served
  <2>2. Unbound(p) => api[p].phase # "Gone"
    BY DEF Unbound
  <2> QED
    BY <1>1, <2>1, <2>2, StillLasts, GoneIsGone DEF Lasting, Fault
<1>4. CASE p \in podIdToName /\ Delete(p, ok)
  <2>1. /\ p \in Pod /\ UNCHANGED disruptions
        /\ \/ UNCHANGED api /\ (UNCHANGED faults \/ Fault)
           \/ Exists(p) /\ (UNCHANGED faults \/ Fault) /\ Change("Deleted", p, [phase |-> "Gone", node |-> Nil])
    BY <1>1, <1>4 DEF Delete, Served
  <2>2. Exists(p) => api[p].phase # "Gone"
    BY DEF Exists
  <2> QED
    BY <1>1, <2>1, <2>2, StillLasts, GoneIsGone DEF Lasting, Fault
<1> QED
  BY <1>2, <1>3, <1>4 DEF Deploy, DeletePod

(* nor the call an expectation makes,                                      *)
LEMMA DoLasts ==
  ASSUME IInv, NEW e, NEW o, NEW c, NEW ok, Do(e, o, c, ok)
  PROVE  Lasting
<1>1. CASE UNCHANGED kubernetesVars
  BY <1>1, StillLasts DEF kubernetesVars
<1>2. CASE \E p, n : Deploy(p, n, ok) \/ DeletePod(p, ok)
  BY <1>2, CallLasts
<1> QED
  BY <1>1, <1>2 DEF Do

(* nor that of a new plan.                                                 *)
LEMMA PlanLasts ==
  ASSUME IInv, NEW plan, NEW going, NEW expected, SchedulePlan(plan, going, expected)
  PROVE  Lasting
<1>1. CASE UNCHANGED kubernetesVars
  BY <1>1, StillLasts DEF kubernetesVars
<1>2. CASE \E ok \in BOOLEAN : Do(plan[1], Nil, clusterState, ok)
  BY <1>2, DoLasts
<1> QED
  BY <1>1, <1>2 DEF SchedulePlan

(* So it is with an event that is handled,                                 *)
LEMMA HandlingLasts ==
  ASSUME IInv, HandleEvent
  PROVE  Lasting
<1>1. CASE UNCHANGED kubernetesVars
  BY <1>1, StillLasts DEF kubernetesVars
<1>2. CASE \E e, o, c, ok : Do(e, o, c, ok)
  BY <1>2, DoLasts
<1> QED
  BY <1>1, <1>2 DEF HandleEvent, IgnoreEvent, HandleExpected, HandleUnexpected, HandleFailed

(* and with a batch or a suggestion.                                       *)
LEMMA SchedulingLasts ==
  ASSUME IInv, ScheduleStep \/ CheckSuggestion
  PROVE  Lasting
<1>1. ASSUME PlaceBatch
      PROVE  Lasting
  <2>1. \/ UNCHANGED kubernetesVars
        \/ \E plan, going : SchedulePlan(plan, going, expectedReorderDeployments)
    BY <1>1, PlaceBatchPlans
  <2>2. CASE UNCHANGED kubernetesVars
    BY <2>2, StillLasts DEF kubernetesVars
  <2> QED
    BY <2>1, <2>2, PlanLasts
<1>2. ASSUME CheckSuggestion
      PROVE  Lasting
  <2>1. \E plan, going, expected : SchedulePlan(plan, going, expected)
    BY <1>2, CheckSuggestionPlans
  <2> QED
    BY <2>1, PlanLasts
<1>3. ASSUME MatchPending
      PROVE  Lasting
  <2>1. \E e, o, c, ok : Do(e, o, c, ok)
    BY <1>3 DEF MatchPending
  <2> QED
    BY <2>1, DoLasts
<1>4. ASSUME ListPending \/ ListFails \/ NothingNew \/ AbandonReorder
      PROVE  Lasting
  BY <1>4, StillLasts DEF ListPending, ListFails, NothingNew, AbandonReorder, kubernetesVars
<1> QED
  BY <1>1, <1>2, <1>3, <1>4 DEF ScheduleStep

(* The other steps of the scheduler call nobody, but for a listing.        *)
LEMMA OthersLast ==
  ASSUME Watch \/ ReceiveEvent \/ ScheduleTick \/ MakeSuggestion \/ DropSuggestion \/ CheckHealth
           \/ RecoverHealth \/ RecoverStep \/ Panic \/ Crash \/ Boot \/ StartWatching
  PROVE  Lasting
<1>1. CASE Watch
  BY <1>1, StillLasts DEF Watch, Translate, TranslateForeign
<1>2. CASE ReceiveEvent \/ ScheduleTick \/ MakeSuggestion \/ DropSuggestion \/ CheckHealth \/ RecoverHealth \/ Boot
  BY <1>2, StillLasts DEF ReceiveEvent, ScheduleTick, MakeSuggestion, DropSuggestion, CheckHealth, RecoverHealth,
                          Boot, kubernetesVars
<1>3. CASE RecoverStep
  BY <1>3, StillLasts DEF RecoverStep, ForgetPod, SyncList, SyncListFails, PlacePod, FinishRecovery, kubernetesVars
<1>4. CASE Panic \/ Crash
  BY <1>4, StillLasts DEF Panic, Crash, ProcessDies
<1>5. CASE StartWatching
  BY <1>5, StillLasts DEF StartWatching, OpenWatch
<1> QED
  BY <1>1, <1>2, <1>3, <1>4, <1>5

(* Crashes and recoveries are only counted up.                             *)
LEMMA IncidentsLast ==
  ASSUME Next
  PROVE  crashes' \in {crashes, crashes + 1} /\ recoveries' \in {recoveries, recoveries + 1}
<1>1. CASE UNCHANGED incidents
  BY <1>1 DEF incidents
<1>2. CASE RecoverHealth
  BY <1>2 DEF RecoverHealth
<1>3. CASE Crash
  BY <1>3 DEF Crash
<1>4. ASSUME World \/ Watch
      PROVE  UNCHANGED incidents
  BY <1>4 DEF World, Watch, schedulerVars
<1>5. ASSUME ReceiveEvent \/ HandleEvent
      PROVE  UNCHANGED incidents
  BY <1>5 DEF ReceiveEvent, HandleEvent, IgnoreEvent, HandleExpected, HandleUnexpected, HandleFailed
<1>6. ASSUME ScheduleTick \/ ScheduleStep
      PROVE  UNCHANGED incidents
  BY <1>6 DEF ScheduleTick, ScheduleStep, ListPending, ListFails, MatchPending, NothingNew, AbandonReorder, PlaceBatch
<1>7. ASSUME MakeSuggestion \/ DropSuggestion \/ CheckSuggestion \/ CheckHealth
      PROVE  UNCHANGED incidents
  BY <1>7 DEF MakeSuggestion, DropSuggestion, CheckSuggestion, CheckHealth
<1>8. ASSUME RecoverStep \/ Boot \/ StartWatching \/ Panic
      PROVE  UNCHANGED incidents
  BY <1>8 DEF RecoverStep, ForgetPod, SyncList, SyncListFails, PlacePod, FinishRecovery, Boot, StartWatching, Panic
<1> QED
  BY <1>1, <1>2, <1>3, <1>4, <1>5, <1>6, <1>7, <1>8 DEF Next

(* When it is calm after a step, it was calm before.                       *)
LEMMA CalmLasts ==
  ASSUME IInv, Next, Calm'
  PROVE  Calm
<1>1. Lasting
  <2>1. World => ClusterChange
    BY DEF World
  <2> QED
    BY <2>1, WorldLasts, HandlingLasts, SchedulingLasts, OthersLast DEF Next
<1>2. crashes' \in {crashes, crashes + 1} /\ recoveries' \in {recoveries, recoveries + 1}
  BY IncidentsLast
<1>3. disruptions \in Nat /\ faults \in Nat /\ crashes \in Nat /\ recoveries \in Nat
  BY DEF IInv, KubernetesTypeOK, ControlTypeOK
<1>4. /\ disruptions' = 0 /\ faults' = 0 /\ crashes' = 0 /\ recoveries' = 0
      /\ \A p \in Pod : api'[p].phase # "Gone"
  BY DEF Calm
<1>5. disruptions = 0 /\ faults = 0
  BY <1>1, <1>3, <1>4 DEF Lasting
<1>6. crashes = 0 /\ recoveries = 0
  BY <1>2, <1>3, <1>4
<1>7. \A p \in Pod : api[p].phase # "Gone"
  BY <1>1, <1>4 DEF Lasting
<1> QED
  BY <1>5, <1>6, <1>7 DEF Calm

-----------------------------------------------------------------------------
(* The filling.                                                            *)

(* Before the scheduler boots it has no view, and nothing is on a node.    *)
LEMMA InitFills ==
  ASSUME Init, Filling
  PROVE  FillInv
<1>1. /\ api = InitialPods /\ watchq = <<>> /\ watching = FALSE
      /\ clusterState = NewClusterState /\ podIdToName = {} /\ eventStream = <<>>
      /\ newPodBuffer = <<>> /\ expectations = <<>> /\ goingToPlace = {} /\ suggestion = Nil /\ pc = "boot"
      /\ toForget = {} /\ toPlace = {}
  BY DEF Init, KubernetesInit, ConnectorInit
<1>2. \A p \in Pod : api[p].phase \in {"Absent", "Pending"} /\ ~Bound(p)
  BY <1>1 DEF Filling, Bound
<1>3. PodsFill
  BY <1>1, <1>2 DEF PodsFill, Bound
<1>4. Tidy(clusterState) /\ \A p \in Pod : ~Seen(clusterState, p)
  BY <1>1, NewTidy
<1>5. ViewFill
  BY <1>1, <1>4 DEF ViewFill, NewClusterState
<1>6. Pipe = <<>>
  BY <1>1 DEF Pipe, InHand, Under
<1>7. NewsFill
  BY <1>2, <1>6 DEF NewsFill, Orderly
<1>8. WatchFill
  BY <1>1 DEF WatchFill
<1>9. QueueFill
  <2>1. \A n \in EdgeNode : SeenAt(clusterState, n) \cup PlannedTo(n) = {}
    BY <1>1, <1>4 DEF SeenAt, PlannedTo
  <2>2. \A n \in EdgeNode, r \in Resource :
          SumFunctionOnSet(Sizes(r), SeenAt(clusterState, n) \cup PlannedTo(n)) <= Resources[n][r]
    <3> SUFFICES ASSUME NEW n \in EdgeNode, NEW r \in Resource
                 PROVE  SumFunctionOnSet(Sizes(r), SeenAt(clusterState, n) \cup PlannedTo(n)) <= Resources[n][r]
      OBVIOUS
    <3>1. SumFunctionOnSet(Sizes(r), {}) = 0
      BY SumEmpty
    <3>2. Resources[n][r] \in Nat
      BY ResourcesAreVectors
    <3> QED
      BY <2>1, <3>1, <3>2
  <2>3. Placing
    BY <1>1 DEF Placing
  <2> QED
    BY <1>1, <1>2, <2>2, <2>3 DEF QueueFill, Due
<1>10. BufferFill
  BY <1>1 DEF BufferFill
<1>11. ControlFill
  BY <1>1 DEF ControlFill, MigrantsIn, Booting
<1> QED
  BY <1>3, <1>5, <1>7, <1>8, <1>9, <1>10, <1>11 DEF FillInv

(* A step at which nothing of it changes.                                  *)
LEMMA StutterFills ==
  ASSUME FillInv, UNCHANGED vars
  PROVE  FillInv'
<1>1. UNCHANGED <<api, clusterState, podIdToName, eventStream, watchq, watching, expectations, goingToPlace,
                  newPodBuffer, suggestion, pc, event, toForget, toPlace>>
  BY DEF vars, kubernetesVars, connectorVars, planVars, syncVars
<1>2. PodsFill' /\ ViewFill'
  BY <1>1 DEF FillInv, PodsFill, ViewFill, Tidy, Bound, SeenAt, Seen
<1>3. Pipe' = Pipe
  BY <1>1, PipeStays
<1>4. NewsFill'
  BY <1>1, <1>3 DEF FillInv, NewsFill, Orderly, IsNews, Exists, Bound, In, Seen, Note
<1>5. WatchFill'
  BY <1>1 DEF FillInv, WatchFill, SoundWatch, Sound, Exists, Says, Note
<1>6. QueueFill'
  <2>1. Placing' = Placing /\ StuckMove' = StuckMove
    BY <1>1 DEF Placing, StuckMove, Planned, Bound, Unbound, In, Seen
  <2>2. /\ \A p \in Pod : Bound(p)' = Bound(p) /\ In(p)' = In(p) /\ Due(p)' = Due(p)
        /\ \A i \in DOMAIN expectations : Planned(i)' = Planned(i)
    BY <1>1 DEF Due, Planned, Bound, In, Seen
  <2>3. \A p : CreatedFirst(Pipe, p)' = CreatedFirst(Pipe, p)
    BY <1>3 DEF CreatedFirst, Note
  <2>4. \A n : (SeenAt(clusterState, n) \cup PlannedTo(n))' = SeenAt(clusterState, n) \cup PlannedTo(n)
    BY <1>1 DEF SeenAt, Seen, PlannedTo, Planned
  <2>5. \A i \in DOMAIN expectations : CreatedFirst(Pipe, Planned(i))' = CreatedFirst(Pipe, Planned(i))
    BY <1>1, <1>3 DEF CreatedFirst, Note, Planned
  <2> QED
    BY <1>1, <2>1, <2>2, <2>4, <2>5 DEF FillInv, QueueFill, Sizes
<1>7. BufferFill'
  BY <1>1, <1>3 DEF FillInv, BufferFill, Buffered, Unbound, Bound, Note
<1>8. ControlFill'
  BY <1>1 DEF FillInv, ControlFill, Booting, StuckMove, MigrantsIn, In, Seen
<1> QED
  BY <1>2, <1>4, <1>5, <1>6, <1>7, <1>8 DEF FillInv

(* Every step, while it stays calm, keeps FillInv.                         *)
LEMMA NextFills ==
  ASSUME Filling, IInv, CalmInv, IInv', [Next]_vars
  PROVE  CalmInv'
<1> SUFFICES ASSUME Calm'
             PROVE  FillInv'
  BY DEF CalmInv
<1>1. CASE UNCHANGED vars
  <2>1. UNCHANGED <<api, disruptions, faults, recoveries, crashes>>
    BY <1>1 DEF vars, kubernetesVars, incidents
  <2>2. Calm
    BY <2>1 DEF Calm
  <2> QED
    BY <1>1, <2>2, StutterFills DEF CalmInv
<1>2. CASE Next
  <2>1. Calm
    BY <1>2, CalmLasts
  <2>2. Fills
    BY <2>1 DEF Fills, CalmInv
  <2>3. CASE World \/ Watch
    BY <2>2, <2>3, WorldFills, WatchFills
  <2>4. CASE ReceiveEvent \/ HandleEvent
    BY <2>2, <2>4, ReceiveFills, HandleFills
  <2>5. CASE ScheduleTick \/ ScheduleStep
    <3>1. ~ListFails /\ ~MatchPending
      BY <2>2, NothingHappens, NothingAwaited
    <3> QED
      BY <2>2, <2>5, <3>1, TickFills, ListFills, NothingNewFills, AbandonFills, PlaceFills DEF ScheduleStep
  <2>6. CASE MakeSuggestion \/ DropSuggestion \/ CheckSuggestion
    BY <2>2, <2>6, SuggestFills, DropFills, CheckFills
  <2>7. CASE CheckHealth \/ RecoverHealth \/ RecoverStep
    <3>1. ~RecoverHealth /\ ~RecoverStep
      BY <2>2, NothingHappens, NothingAwaited
    <3> QED
      BY <2>2, <2>7, <3>1, DropFills
  <2>8. CASE Panic \/ Crash \/ Boot \/ StartWatching
    <3>1. ~Panic /\ ~Crash
      BY <2>2, NothingHappens, NothingPanics DEF Panic
    <3> QED
      BY <2>2, <2>8, <3>1, BootFills, StartFills
  <2> QED
    BY <1>2, <2>3, <2>4, <2>5, <2>6, <2>7, <2>8 DEF Next
<1> QED
  BY <1>1, <1>2

(* While a namespace in which nothing is bound fills up, and nothing has   *)
(* failed or been deleted, the cluster, the news of it, the view, the      *)
(* queue and the buffer hang together as FillInv says.                     *)
THEOREM FillsCalmly == Filling => (Spec => []CalmInv)
<1> SUFFICES ASSUME Filling
             PROVE  Spec => []CalmInv
  OBVIOUS
<1>1. Init => CalmInv
  BY InitFills DEF CalmInv
<1>2. IInv /\ CalmInv /\ IInv' /\ [Next]_vars => CalmInv'
  BY NextFills
<1>3. Spec => []IInv
  BY Invariant
<1> QED
  BY <1>1, <1>2, <1>3, PTL DEF Spec

-----------------------------------------------------------------------------
(* What FillInv is for: the invariants about the view and the cluster.     *)

(* What is on an edge node is entered there or planned to go there, and    *)
(* for both together there is room.                                        *)
LEMMA FilledFits ==
  ASSUME IInv, FillInv
  PROVE  NoOvercommit
<1>1. PodsFill /\ ViewFill /\ QueueFill
  BY DEF FillInv
<1>2. ASSUME NEW n \in EdgeNode, NEW r \in Resource
      PROVE  SumFunctionOnSet(Sizes(r), BoundTo(n)) <= Resources[n][r]
  <2>1. PICK all : all = SeenAt(clusterState, n) \cup PlannedTo(n)
    OBVIOUS
  <2>2. all \in SUBSET Pod
    BY <2>1, PlacesArePods
  <2>3. ASSUME NEW p \in BoundTo(n)
        PROVE  p \in all
    <3>1. p \in Pod /\ Bound(p) /\ api[p].node = n
      BY <1>1, PodStates DEF BoundTo
    <3>2. CASE In(p)
      <4>1. clusterState.node[clusterState.podsMap[p]] = n /\ Seen(clusterState, p)
        BY <1>1, <3>1, <3>2, SeenIsThere DEF In
      <4> QED
        BY <2>1, <3>1, <4>1 DEF SeenAt
    <3>3. CASE ~In(p)
      <4>1. 1 \in DOMAIN expectations /\ expectations[1].kind = "Bind" /\ Planned(1) = p /\ expectations[1].node = n
        BY <1>1, <3>1, <3>3, AwayIsDue
      <4> QED
        BY <2>1, <4>1, PlannedIs
    <3> QED
      BY <3>2, <3>3
  <2>4. PICK there : there = BoundTo(n) /\ there \in SUBSET all
    BY <2>3
  <2>5. SumFunctionOnSet(Sizes(r), there) <= SumFunctionOnSet(Sizes(r), all)
        /\ SumFunctionOnSet(Sizes(r), there) \in Nat /\ SumFunctionOnSet(Sizes(r), all) \in Nat
    BY <2>2, <2>4, SizesOrdered
  <2>6. SumFunctionOnSet(Sizes(r), all) <= Resources[n][r] /\ Resources[n][r] \in Nat
    BY <1>1, <2>1, ResourcesAreVectors DEF QueueFill
  <2> QED
    BY ONLY <2>4, <2>5, <2>6
<1> QED
  BY <1>2 DEF NoOvercommit

(* Only the object that a tidy view keeps for a pod is entered.            *)
LEMMA OneEntry ==
  ASSUME IInv, ViewFill, NEW p \in Pod
  PROVE  Entries(p) <= 1
<1> DEFINE c == clusterState
           entered == [o \in ObjectsOf(p) |-> c.edgePods[o] + c.cloudPods[o]]
<1>1. \A o \in ObjectsOf(p) : o \in PodObj /\ Id(o) = p
  BY DEF ObjectsOf
<1>2. EdgeNode \cap CloudNode = {} /\ Nil \notin EdgeNode /\ Nil \notin CloudNode
  BY NodesAreDistinct
<1>3. \A o \in ObjectsOf(p) : /\ entered[o] \in {0, 1}
                              /\ entered[o] = 1 => o = c.podsMap[p]
  <2> TAKE o \in ObjectsOf(p)
  <2>1. /\ c.edgePods[o] = IF c.node[o] \in EdgeNode THEN 1 ELSE 0
        /\ c.cloudPods[o] = IF c.node[o] \in CloudNode THEN 1 ELSE 0
        /\ c.node[o] # Nil => c.podsMap[p] = o
    BY <1>1 DEF ViewFill, Tidy
  <2>2. entered[o] = c.edgePods[o] + c.cloudPods[o]
    OBVIOUS
  <2> HIDE DEF entered, c
  <2>3. CASE c.node[o] \in EdgeNode
    BY <1>2, <2>1, <2>2, <2>3
  <2>4. CASE c.node[o] \in CloudNode
    BY <1>2, <2>1, <2>2, <2>4
  <2>5. CASE c.node[o] \notin EdgeNode /\ c.node[o] \notin CloudNode
    BY <1>2, <2>1, <2>2, <2>5
  <2> QED
    BY <2>3, <2>4, <2>5
<1>4. PICK all : all = ObjectsOf(p) /\ IsFiniteSet(all)
  <2>1. ObjectsOf(p) \in SUBSET PodObj
    BY DEF ObjectsOf
  <2> QED
    BY <2>1, ObjectsFinite
<1>5. PICK f : f = entered
  OBVIOUS
<1>6. Entries(p) = SumFunctionOnSet(f, all)
  BY <1>4, <1>5 DEF Entries
<1>7. \A o \in all : f[o] \in {0, 1} /\ (f[o] = 1 => o = c.podsMap[p])
  BY <1>3, <1>4, <1>5
<1> HIDE DEF entered, c
<1>8. CASE \E o \in all : f[o] = 1
  <2>1. PICK o \in all : f[o] = 1
    BY <1>8
  <2>2. \A x \in all \ {o} : f[x] = 0
    BY <1>7, <2>1
  <2>3. SumFunctionOnSet(f, all) = f[o] + SumFunctionOnSet(f, all \ {o})
    BY <1>4, <1>7, SumRemove
  <2>4. PICK rest : rest = all \ {o} /\ IsFiniteSet(rest) /\ \A x \in rest : f[x] = 0
    BY <1>4, <2>2, FS_Subset
  <2>5. SumFunctionOnSet(f, rest) = 0
    BY <2>4, SumZero
  <2> QED
    BY <1>6, <2>1, <2>3, <2>4, <2>5
<1>9. CASE ~\E o \in all : f[o] = 1
  <2>1. \A x \in all : f[x] = 0
    BY <1>7, <1>9
  <2>2. SumFunctionOnSet(f, all) = 0
    BY <1>4, <2>1, SumZero
  <2> QED
    BY <1>6, <2>2
<1> QED
  BY <1>8, <1>9

(* A node is charged for the objects entered there.                        *)
LEMMA ChargedForEntries ==
  ASSUME IInv, ViewFill, NEW n \in EdgeNode, NEW r \in Resource
  PROVE  LET charges == [o \in PodObj |-> clusterState.edgePods[o] * ResourcesRequired[Dep(o)][r]]
         IN clusterState.nodeUsed[n][r] = SumFunctionOnSet(charges, {o \in PodObj : clusterState.node[o] = n})
<1> DEFINE c == clusterState
           charges == [o \in PodObj |-> c.edgePods[o] * ResourcesRequired[Dep(o)][r]]
           there == {o \in PodObj : c.node[o] = n}
           h == [p \in Pod |-> c.podsMap[p]]
           image == {h[p] : p \in SeenAt(c, n)}
<1>1. Nil \notin EdgeNode
  BY NodesAreDistinct
<1>2. \A p \in SeenAt(c, n) : h[p] \in PodObj /\ Id(h[p]) = p /\ c.node[h[p]] = n
  <2> TAKE p \in SeenAt(c, n)
  <2>1. p \in Pod /\ c.podsMap[p] # Nil /\ c.node[c.podsMap[p]] = n
    BY DEF SeenAt, Seen
  <2>2. c.podsMap[p] \in PodObj
    BY <2>1 DEF IInv, ConnectorTypeOK, ClusterStates
  <2>3. Id(c.podsMap[p]) = p
    BY <2>1 DEF ViewFill, Tidy
  <2> QED
    BY <2>1, <2>2, <2>3
<1>3. \A o \in there : Id(o) \in SeenAt(c, n) /\ h[Id(o)] = o
  <2> TAKE o \in there
  <2>1. o \in PodObj /\ c.node[o] = n /\ c.node[o] # Nil /\ Id(o) \in Pod
    BY <1>1, PodObjType
  <2>2. c.podsMap[Id(o)] = o
    BY <2>1 DEF ViewFill, Tidy
  <2>3. o # Nil
    BY <2>1, NilIsNoObject
  <2> QED
    BY <2>1, <2>2, <2>3 DEF SeenAt, Seen
<1>4. image = there
  <2> HIDE DEF h
  <2>1. \A p \in SeenAt(c, n) : h[p] \in there
    BY <1>2
  <2>2. \A o \in there : o \in image
    BY <1>3
  <2> HIDE DEF there
  <2> QED
    BY <2>1, <2>2
<1>5. \A p \in SeenAt(c, n) : Sizes(r)[p] \in Int /\ charges[h[p]] = Sizes(r)[p]
  <2> TAKE p \in SeenAt(c, n)
  <2>1. p \in Pod /\ h[p] \in PodObj /\ Id(h[p]) = p /\ c.node[h[p]] \in EdgeNode
    BY <1>2 DEF SeenAt
  <2>2. c.edgePods[h[p]] = 1
    BY <2>1 DEF ViewFill, Tidy
  <2>3. Dep(h[p]) = DeploymentOf[p]
    BY <2>1 DEF Dep, Id
  <2>4. Sizes(r)[p] = ResourcesRequired[DeploymentOf[p]][r] /\ Sizes(r)[p] \in Nat
    BY <2>1, SizesType
  <2>5. charges[h[p]] = c.edgePods[h[p]] * ResourcesRequired[Dep(h[p])][r]
    BY <2>1
  <2> HIDE DEF charges, h
  <2> QED
    BY <2>2, <2>3, <2>4, <2>5
<1>6. \A p, q \in SeenAt(c, n) : h[p] = h[q] => p = q
  BY <1>2
<1>7. PICK S : S = SeenAt(c, n) /\ IsFiniteSet(S)
  <2>1. SeenAt(c, n) \in SUBSET Pod
    BY DEF SeenAt
  <2> QED
    BY <2>1, PodsFinite
<1>8. PICK f : f = Sizes(r)
  OBVIOUS
<1>9. SumFunctionOnSet(charges, {h[p] : p \in S}) = SumFunctionOnSet(f, S)
  <2>1. (\A p \in S : f[p] \in Int /\ charges[h[p]] = f[p]) /\ (\A p, q \in S : h[p] = h[q] => p = q)
    BY <1>5, <1>6, <1>7, <1>8
  <2> HIDE DEF charges, h, there, image, c
  <2> QED
    BY ONLY <1>7, <2>1, SumImage
<1>10. c.nodeUsed[n][r] = SumFunctionOnSet(f, S)
  BY <1>7, <1>8 DEF ViewFill, Tidy
<1>11. SumFunctionOnSet(charges, there) = c.nodeUsed[n][r]
  <2> HIDE DEF charges, h, there, c
  <2> QED
    BY <1>4, <1>7, <1>9, <1>10
<1> QED
  BY <1>11

(* So the books of the view are right.                                     *)
LEMMA FilledAccounting ==
  ASSUME IInv, FillInv
  PROVE  Accounting
<1>1. ViewFill
  BY DEF FillInv
<1> QED
  BY <1>1, OneEntry, ChargedForEntries DEF Accounting

(* A note that is under way is about an event that is.                     *)
LEMMA ToldInFlight ==
  ASSUME IInv, pc = "select", NEW i \in DOMAIN Pipe
  PROVE  InFlight(Pipe[i].pod)
<1>1. eventStream \in Seq(SchedulingEvent) /\ watchq \in Seq(WatchEvent) /\ Pipe = UnderWay
  BY PipeIs DEF IInv, ConnectorTypeOK, KubernetesTypeOK
<1>2. /\ Len(Pipe) = Len(eventStream) + Len(watchq) /\ Pipe \in Seq(Notes)
      /\ \A k \in 1..Len(eventStream) : Pipe[k] = Said(eventStream[k])
      /\ \A k \in 1..Len(watchq) : Pipe[Len(eventStream) + k] = Says(watchq[k])
  BY <1>1, UnderIs DEF UnderWay
<1>3. Len(eventStream) \in Nat /\ Len(watchq) \in Nat /\ i \in 1..(Len(eventStream) + Len(watchq))
      /\ DOMAIN eventStream = 1..Len(eventStream) /\ DOMAIN watchq = 1..Len(watchq)
  BY <1>1, <1>2
<1>4. CASE i \in 1..Len(eventStream)
  <2>1. Pipe[i].pod = Id(eventStream[i].obj)
    BY <1>2, <1>4, NoteIs DEF Said
  <2> QED
    BY <1>3, <1>4, <2>1 DEF InFlight
<1>5. CASE i \notin 1..Len(eventStream)
  <2>1. PICK k \in 1..Len(watchq) : i = Len(eventStream) + k
    <3>1. i - Len(eventStream) \in 1..Len(watchq) /\ i = Len(eventStream) + (i - Len(eventStream))
      BY <1>3, <1>5
    <3> QED
      BY <3>1
  <2>2. Pipe[i].pod = watchq[k].pod
    <3>1. Pipe[i] = Says(watchq[k])
      BY ONLY <1>2, <2>1
    <3>2. Says(watchq[k]).pod = watchq[k].pod
      BY NoteIs DEF Says
    <3> QED
      BY ONLY <3>1, <3>2
  <2> QED
    BY <1>3, <2>1, <2>2 DEF InFlight
<1> QED
  BY <1>4, <1>5

(* A pod on a node is in the view or the news of its binding is under way. *)
LEMMA FilledKeeps ==
  ASSUME IInv, FillInv
  PROVE  NoLostPod
<1>1. PodsFill /\ ViewFill /\ NewsFill
  BY DEF FillInv
<1>2. ASSUME pc = "select", NEW p \in Pod, OnNode(p), ~In(p)
      PROVE  InFlight(p)
  <2>1. PICK i \in DOMAIN Pipe : Pipe[i] = Note("bound", p)
    BY <1>1, <1>2, PodStates DEF NewsFill
  <2>2. Pipe[i].pod = p
    BY <2>1, NoteIs
  <2> QED
    BY <1>2, <2>2, ToldInFlight
<1>3. ASSUME NEW p \in Pod, In(p)
      PROVE  InView(p)
  <2>1. Bound(p) /\ p \in podIdToName /\ clusterState.node[clusterState.podsMap[p]] = api[p].node
    BY <1>1, <1>3, SeenIsThere
  <2>2. PICK o : o = clusterState.podsMap[p] /\ o \in PodObj /\ Id(o) = p
    BY <1>1, <2>1, KnownPod
  <2>3. clusterState.node[o] \in Node
    BY <1>1, <2>1, <2>2, PodStates
  <2>4. clusterState.edgePods[o] = 1 \/ clusterState.cloudPods[o] = 1
    BY <1>1, <2>2, <2>3 DEF ViewFill, Tidy, Node
  <2>5. Entered(o) /\ o \in ObjectsOf(p)
    BY <2>2, <2>4 DEF Entered, ObjectsOf
  <2> QED
    BY <2>1, <2>2, <2>5 DEF InView
<1> QED
  BY <1>2, <1>3 DEF NoLostPod

(* What is entered is on its node.                                         *)
LEMMA FilledIsThere ==
  ASSUME FillInv
  PROVE  NoGhost
<1>1. ASSUME NEW o \in PodObj, Entered(o)
      PROVE  api[Id(o)].node = clusterState.node[o]
  <2>1. /\ clusterState.edgePods[o] = IF clusterState.node[o] \in EdgeNode THEN 1 ELSE 0
        /\ clusterState.cloudPods[o] = IF clusterState.node[o] \in CloudNode THEN 1 ELSE 0
        /\ clusterState.node[o] # Nil => clusterState.node[o] = api[Id(o)].node
    BY DEF FillInv, ViewFill, Tidy
  <2>2. clusterState.node[o] \in EdgeNode \cup CloudNode
    BY <1>1, <2>1 DEF Entered
  <2> QED
    BY <2>1, <2>2, NodesAreDistinct
<1> QED
  BY <1>1 DEF NoGhost

(* Only the first of the plan may have been bound.                         *)
LEMMA FilledUnbound ==
  ASSUME FillInv
  PROVE  PlannedIsUnbound
  BY DEF FillInv, QueueFill, Placing, StuckMove, Planned, PlannedIsUnbound

-----------------------------------------------------------------------------
(* The theorems: each of these holds as long as everything is calm.        *)

(* No edge node really holds more than it has room for, although the view  *)
(* that the bindings were decided on was always behind.                    *)
THEOREM NeverOvercommitted == Filling => (Spec => [](Calm => NoOvercommit))
<1> SUFFICES ASSUME Filling
             PROVE  Spec => [](Calm => NoOvercommit)
  OBVIOUS
<1>1. IInv /\ CalmInv => (Calm => NoOvercommit)
  BY FilledFits DEF CalmInv
<1>2. Spec => []IInv
  BY Invariant
<1>3. Spec => []CalmInv
  BY FillsCalmly
<1> QED
  BY <1>1, <1>2, <1>3, PTL

(* Every pod is entered at most once, and every node is charged with what  *)
(* the pods entered there require.                                         *)
THEOREM BooksAreRight == Filling => (Spec => [](Calm => Accounting))
<1> SUFFICES ASSUME Filling
             PROVE  Spec => [](Calm => Accounting)
  OBVIOUS
<1>1. IInv /\ CalmInv => (Calm => Accounting)
  BY FilledAccounting DEF CalmInv
<1>2. Spec => []IInv
  BY Invariant
<1>3. Spec => []CalmInv
  BY FillsCalmly
<1> QED
  BY <1>1, <1>2, <1>3, PTL

(* No pod is forgotten between two handlers,                               *)
THEOREM NoneIsLost == Filling => (Spec => [](Calm => NoLostPod))
<1> SUFFICES ASSUME Filling
             PROVE  Spec => [](Calm => NoLostPod)
  OBVIOUS
<1>1. IInv /\ CalmInv => (Calm => NoLostPod)
  BY FilledKeeps DEF CalmInv
<1>2. Spec => []IInv
  BY Invariant
<1>3. Spec => []CalmInv
  BY FillsCalmly
<1> QED
  BY <1>1, <1>2, <1>3, PTL

(* and none is entered where it is not.                                    *)
THEOREM NoneIsInvented == Filling => (Spec => [](Calm => NoGhost))
<1> SUFFICES ASSUME Filling
             PROVE  Spec => [](Calm => NoGhost)
  OBVIOUS
<1>1. CalmInv => (Calm => NoGhost)
  BY FilledIsThere DEF CalmInv
<1>2. Spec => []CalmInv
  BY FillsCalmly
<1> QED
  BY <1>1, <1>2, PTL

(* A pod whose turn to be bound is still to come has not been bound.       *)
THEOREM NextIsUnbound == Filling => (Spec => [](Calm => PlannedIsUnbound))
<1> SUFFICES ASSUME Filling
             PROVE  Spec => [](Calm => PlannedIsUnbound)
  OBVIOUS
<1>1. CalmInv => (Calm => PlannedIsUnbound)
  BY FilledUnbound DEF CalmInv
<1>2. Spec => []CalmInv
  BY FillsCalmly
<1> QED
  BY <1>1, <1>2, PTL
=============================================================================
