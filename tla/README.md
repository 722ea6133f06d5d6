# KubeDSM (ecmus) in TLA+

KubeDSM is a custom Kubernetes scheduler for a cluster of a few small *edge* nodes and a large
*cloud*. It binds pending pods of its namespace, prefers the edge, and pulls pods from the cloud to
the edge by deleting them and binding the replacements. Everything difficult about it comes from one
fact: it keeps its own picture of the cluster, acts on it through calls that take effect elsewhere,
and learns what happened from a watch stream that may say it later, in another order, or never.

This directory holds a model of that program, the runs that check it with TLC, and theorems about it
that tlapm proves for every cluster, workload and bound.

## The system and its inventory

| Component | Source | State | Operations |
|---|---|---|---|
| Cluster state | `internal/model/cluster.go`, `basic.go` | `Edge.Pods`, `Cloud.Pods`, `NodeResourcesUsed`, `PodsMap`, `NumberOfRunningPods`, `Node` and `Status` of the pod objects | `DeployEdge`, `DeployCloud`, `RemovePod`, `Clone`, the start-up builders |
| Connector | `internal/connector/kubernetes.go` | `podIdToName`, the event channel; writes the cluster state | watch goroutine, `Deploy`, `DeletePod`, `GetPendingPods`, `SyncPods`, `FindNodes`, `FindDeployments` |
| Scheduler | `internal/scheduler/*.go` | `newPodBuffer`, `expectations`, `goingToPlace`, `expectedReorderDeployments`, `healthCheckSample` | the `select` of `Run`: `handleEvent`, `schedule`, `checkSuggestion`, `checkHealth`; `recoverHealth`, `schedulePlan`, the closures of `expectation.go` |
| Placement algorithms | `alg/*.go`, `internal/utils` | none | `MakeDecisionForNewPods`, `MapPodToEdge`, `FitInEdge`, `SuggestReorder`, `CalcMigrations`, `EvalFreePods`, the score, `Permutations` |
| Simulator, testing tools | `sim/sim.go`, `alg/testing_tool.go`, `internal/model/testing_tool` | a `ClusterState`, the frames of a scenario | `Start`, `deletePods`, `kubeDefaultSchedulePods`, `TestingApplyDecision`, `TestingApplySuggestion`, the builder |
| Process | `main.go` | none | start, panic, restart |
| Web page | `internal/gui/server.go` | two channels | asks the scheduler for a clone |
| API server and controllers | outside the repository | the pods, the watch | binding, deletion, listing, what others do |
| Constant connector, statistics, logging, configuration | see `PROJECT.json` | not modelled: a stub, counters, formatting | |

How they interact. The scheduler goroutine selects between an event, two tickers, a request of the
web page and two channels of the suggestion goroutine. It shares **one `ClusterState` without a
lock** with the connector's watch goroutine, which reads `PodsMap`, registers unknown pods in it and
offers translated events on an unbuffered channel. Calls to the API server are synchronous; what
they cause comes back as events. A *plan* is a queue of *expectations*: each waits for an event
(`isValid`), then updates the cluster state (`after`), then makes the call of the next element (`do`).
A move is three elements: `Delete` the pod, await the `Create`d replacement, `MigrateBind` it.

What is hard: events that arrive between a call and its expectation; listings that overtake the
watch; several `Pod` objects of one id alive at once; a plan dropped half-way with a call in flight;
failed calls and lost replies; a health check that resets the view, rightly or not; a process that
dies of a nil dereference or of the data race and starts again; and the resources of the small edge
nodes, which must never be promised twice. `PROJECT.json` lists each hazard with its line.

What makes each component correct: the *cluster state* charges a node with exactly what it entered
there, never beyond its size (`Accounting`, `NeverOverbooked`); the *scheduler's queue* is of one
kind and made of whole moves (`OneKindOfPlan`, `MovesAreWhole`, `DeletesToMove`), plans only pods
that are still unbound (`PlannedIsUnbound`) and always ends (`PlansEnd`); *scheduler, connector and
API server together* lose no pod, invent none, never overcommit an edge node (`NoLostPod`, `NoGhost`,
`NoOvercommit`), and bind what is pending (`PendingIsBound`); seen from the cluster, they bind pods
in the order of one plan and move them in whole moves (`ImplementsProtocol`). The *algorithms* find the
best mapping (`TheTableIsOptimal`, `MappingsAreCovered`, `EveryOrderOnce`), and what they decide and
suggest is among the outcomes the scheduler is modelled with (`DecisionsAreCovered`,
`SuggestionsAreCovered`); a decision that is applied loses no pod and overfills no node
(`NoPodIsForgotten`, `NeverPanics`).

## The modules

| Module | Models | Notes |
|---|---|---|
| `ClusterState` | `internal/model` | a record and one operator per method; no variables, for two goroutines share it |
| `Kubernetes` (external) | API server, watch, ReplicaSets, kubelets, other users | from how `kubernetes.go` uses them |
| `KubeConnector` | `internal/connector/kubernetes.go` | extends both; variables `clusterState`, `podIdToName`, `eventStream` |
| `Placement` | `alg`, by its outcomes | the sets a decision, a mapping or a suggestion is one of; no scores |
| `Scheduler` | `internal/scheduler` | extends the connector and `Placement`; `Init`, `Next`, `Spec` of the whole |
| `PlanProtocol` | abstract | what the queue promises to the cluster; `Scheduler` implements it |
| `EdgeAlg` | `alg`, `internal/utils`, function by function | extends `Placement`, whose sets cover its results |
| `Simulator` | `sim`, the testing tools | extends `EdgeAlg`; a state machine of frames |
| `SchedulerProperties`, `SimulatorProperties` | | every property, the refinement mapping, the fairness, the statements that are refuted |
| `MCPlacing`, `MCHealing`, `MCReordering`, `MCAdversity`, `MCLiveness`, `MCMigrating`, `MCSimulating`, `MCScenario` | | small instances, one per surrounding |
| `Filling` | what holds between cluster, watch, view and queue while a namespace fills up | the inductive invariant `FillInv`; no behaviour of its own |
| `ClusterStateProofs`, `SchedulerProofs` | | the theorems about the queue and the view, from the bottom up |
| `ProtocolProofs` | | `Scheduler` implements `PlanProtocol` |
| `SumProofs`, `NewsProofs`, `FillingProofs` | | sums and folds over sets; events on their way; the invariants that `Filling` is for |
| `EdgeAlgProofs`, `SimulatorProofs` | | what the algorithms return, and what becomes of it in the simulator |

How state and steps correspond to the code:

* **Pod objects.** The code identifies pods by id but holds pointers, and a listing or an unknown
  event allocates a new object for an id that is already known. `PodObj == Pod \X (1..MaxCopies)` is
  such a pointer; a fresh one is the first copy that nothing in the program points to (`InUse`,
  `FreshObj`). `Edge.Pods` and `Cloud.Pods` are bags of objects: their order only breaks ties.
  `Edge.UsedResources` is always the sum of `NodeResourcesUsed` and is not kept twice.
* **Steps.** A handler is cut where it calls the API server for a *listing*, and where the code
  iterates through `SyncPods`; `pc` says where it is. A handler that makes at most one call is one
  step together with that call. `schedule()` is `list`, `match`, `batch`; `recoverHealth` is `wipe`,
  `place`; a start is `boot`, `bootplace`. Between any two of these steps the cluster and the watch
  goroutine move.
* **Plan elements** are records `[kind, tp, obj, dep, node]`; `IsValid`, `Do` and `After` are the
  three closures of `expectation.go`, by kind.
* **`handleEvent`** is `ReceiveEvent` and then one of `IgnoreEvent` (unknown pod or nothing new),
  `HandleExpected`, `HandleUnexpected`, `HandleFailed` (`onOccurred` returned an error: the plan is
  flushed and the code *falls through* to the switch), or `Panic`. On line 190 the code reschedules
  before it syncs the status (194-210); the model syncs first, for nothing reads the status in between.
* **`alg`** appears twice. `Placement` has what its outcomes have in common: `EdgeSubsets` (a batch's
  edge part is a subset that fits the free edge resources as a whole and cannot be extended, since the
  score grows with every pod on the edge), `EdgeMappings` (as many as possible on nodes with room for
  all of them together), `CloudToEdge`, `MigrationsOf` (any number up to `MaximumMigrations`, with room once all of
  them have left). `Scheduler` chooses from these sets. `EdgeAlg`
  has the functions themselves, with the table of `FitInEdge`, the quality of service, the greedy loops and
  the permutations, each as the set of results that differ by the order of equal elements only. A
  fragmentation is an exact multiple of 1/`Unit`, a quality of service is rounded to 1/10000. That the
  results of `EdgeAlg` are in the sets of `Placement` is checked (run `simulating`) and proved.
* **`checkSuggestion`** takes up any number of migrations, on one image of the cluster state. `CheckedMigrations` has
  the results: in any order, each of the surviving ones stays where it is if there is room once it
  and the earlier ones have been taken out, and goes to the first cloud node if not.
* **The simulator** reads a frame (new and deleted pods), decides, and applies two suggestions; or it
  places the new pods first-fit. The tools panic where the scheduler would log: `stage = "panic"`.
  A scenario is a sequence of sets of frames, `Script`, out of which each frame is chosen; frames that
  delete a pod that is not there, at which `deletePods` panics, are not among them.
* **Failures.** An API call can be refused, lost, or served with its reply lost (`Served`).
  `Disruption` covers what others do: pods finish, are deleted, are updated, or are bound to a node
  the scheduler never read. `Panic` is taken where the code would dereference nil: an awaited or an
  unexpected event without a node, `RemovePodEdge` at an object without an edge node, `Clone` of an
  entry without a node, `checkSuggestion` for a migrating pod with entries on both sides.
  `Crash` stands for the unsynchronised access to `PodsMap` and for an eviction.

Abstractions to keep in mind: resources are small integers (the code uses floats); hashes of names do
not collide; nodes and deployments are read once; the watch is not closed by the server; the namespace
holds only pods with a known `app` label; pod names are not reused; `NumberOfRunningPods`, which
drifts upwards without a bound, is kept up to `MaxRunning`, and that value stands for every greater one: `OneLess` goes
one lower from it or leaves it. Every count the code can have is covered, for its test is for at most 1 and `MaxRunning`
is at least 2 (`OneIsCounted`).

## The runs

| Run | Instance | Shows | Distinct states |
|---|---|---|---|
| `placing` | 3 pods of two sizes, edge nodes of two sizes, cpu and memory, one cloud node; no failures | `NoOvercommit`, `Accounting`, `NoLostPod`, `NoGhost`, `PlannedIsUnbound`, `CalmInv`; that the instance is in the setting of `FillingProofs` | 442 thousand |
| `healing` | 2 pods, an edge node for one; a crash, a reset, a fault | `NoOvercommit`, `NoLostPod`, `ImplementsProtocol` | 806 thousand |
| `reordering` | 2 pods on the cloud, a replica count raised to 3, an edge node for 2 | `OneKindOfPlan`, `MovesAreWhole`, `NoGhost`, `NeverOverbooked`, `DeletesToMove`, `ImplementsProtocol` | 291 thousand |
| `adversity` | a pod on the edge, one on the cloud, an edge node for three; up to two migrations at once, a disruption of any kind, a reset | `TypeOK`, `MovesAreWhole`, `DeletesToMove` | 1.1 million |
| `liveness` | 1 pod, two cloud nodes; a crash, a fault, unlimited health checks; `FairSpec` | `PlansEnd`, `PendingIsBound` | 149 thousand |
| `simulating` | 5 pods of three sizes, two edge nodes, both algorithms; three frames: 3 or 4 new pods, up to 2 more and up to 2 deletions, 2 more and a deletion; two suggestions after each | `NeverPanics`, `NoPodIsForgotten`, `EveryOrderOnce`, `TheTableIsOptimal`, `MappingsAreCovered`, `DecisionsAreCovered`, `SuggestionsAreCovered` | 2 thousand, each with every batch of up to three pods and every clone with up to two pods waiting |

Bounds, and why they are enough. Two or three pods suffice for every conflict the code can have over
one node: one pod in flight and one being planned, or one being moved, its replacement, and a new
one (`reordering` has five ids because a move consumes one). `MaxWatch` = 2 or 3 lets
the watch lag behind a whole move. `MaxCopies` is so large that in no reachable
state of a passing run an event, a listing or a placement lacks a fresh object. Failures are limited to one of
each kind and run, which is what the state space allows. The health check is limited
by `MaxRecoveries` in the safety runs and unlimited in `liveness`. In `simulating` the edge cannot hold all
the pods, a mapping can fit as a whole and not node by node, suggestions pull one or two pods, and with
some statuses up to two migrations come with them, of pods that may each move and not both among others; the interesting part of a state is what the algorithms
make of it, and the invariants ask that for every batch. The order of the nodes is a constant, for their two sizes differ. `placing`, `healing` and
`reordering` use the symmetry of pods that start alike; no run with fairness uses symmetry. Deadlock
is checked in every run but those of the simulator, which ends.

Not every property holds in every surrounding, and the table above is meant as read: `NoOvercommit`
holds while a cluster fills up and heals, but not when a reordering is interrupted (next section);
`Accounting` is checked without failures, for after some of them a pod has two entries;
`NoGhost` is not claimed under disruptions. `BatchSize` is as large as the buffer of each instance,
because it matters: with `BatchSize` = 2 in `placing`, TLC refutes `PlannedIsUnbound` and `Accounting`. A
listing puts a pod in the buffer and the batch takes two others; the pod's own creation event then appends
it a second time, and the next batch holds it twice, for neither copy is in `goingToPlace` yet. When the event of
its first binding comes, the call for the second is refused, and the switch below enters the pod again. A larger buffer than
`batch_size` is all it takes, so this is what the code does under load.

Fairness (`Fairness` in `SchedulerProperties`). A handler that has begun goes on, and the watch
goroutine goes on: weak fairness. Go's `select` chooses at random among ready cases and the tickers
keep firing, so receiving an event, a tick, the health check and taking up a suggestion
are strongly fair. ReplicaSets and kubelets act in the end: weak fairness. Nothing is assumed about
faults, crashes, disruptions, or the making of a suggestion.

## What the code does not keep

Six statements of the repository are refuted, each by its own run:

* `keeps_one_running`: *"should not delete this pod because this is the only one running"*
  (`expectation.go:41`). `RemovePod` does not lower `NumberOfRunningPods`, so when a reordering moves
  two pods, the second deletion is still counted against both and leaves none running.
* `overcommit`: *"not enough resources for pod %d to be deployed on %d"* (`cluster.go:137`) is
  the refusal that should keep nodes within their size. A reordering that is dropped for a new pod
  forgets its binding in flight (`scheduler.go:346`), and the room is given away again. The new pod need
  not even be new: `expectedReorderDeployments` leaves out the pods pulled from the cloud, so a listing
  that overtakes the deletion event takes their own replacement for one.
* `forgets_everything`: *"forget everything it knows about pods"* (`connector.go:21-23`). A pod that was
  entered twice (the fall-through of `handleEvent`) keeps an entry and its resources through `SyncPods`.
* `keeps_watching`: *"pod's node (%s) is not registered, ignoring the event"* (`kubernetes.go:456`),
  and then the goroutine returns.
* `migrates_elsewhere`: *"it will migrate pods between edge nodes"* (`README.md:13`).
  `checkSuggestion` (line 475) compares the target with the node in the clone and skips every
  migration whose nodes differ.
* `scenario`: `TestComprehensiveScenario` (`alg/cluster_test.go:126`) expects the pod D on the first node, with
  an A and a B offloaded for it. `EvalFreePods` (`in_edge.go:333`) looks at `NumberOfRunningPods`, which
  the builder and `DeployEdge` do not keep, so it frees nothing, and D goes to the cloud. The first two
  stages come out as the test expects.

## The abstract specification

`PlanProtocol` has three variables: the step that is due, how many events the plan still waits for, and
where each pod is bound. A step places a pod, or is one of the three stages of a move; it is begun, advanced,
followed by the next, or the whole plan is dropped, and only the step that begins binds or
releases a pod. It knows of no events, buffers, listings, views, resources, crashes or health checks. The mapping
(`Protocol` in `SchedulerProperties`) reads the step off the head of the queue, takes a move's target from
the binding at its end, and takes the bindings from the API server, not from the scheduler's view. So
`ImplementsProtocol` says that whatever happens in the view, what the cluster sees is one plan at a time: no pod
is bound between the deletion of a pod and the binding of its replacement, a replacement goes to the
node its move began with, and a plan that was dropped, with a call in flight or by a crash, binds nothing
later. It is checked with reorderings (`reordering`) and with a crash, a reset and a fault (`healing`), and
proved for every instance (next section).

## What is proved

tlapm checks these for every finite set of pods, every set of nodes, resources and deployments, every
batch size and every bound, from the named assumptions of the modules: finite `Pod`, labelled pods, natural
resource vectors, distinct nodes, a first cloud node, launch states the API server can have, at least one object for each pod and one
pod in a batch, `MaxRunning` at least 2, every other bound any natural number (`MaximumMigrations` too: a suggestion may
migrate any number of pods); and, for the algorithms, those under *The algorithms*.

| Theorem | States |
|---|---|
| `Invariant` | `Spec => []IInv` |
| `Typing`, `QueueIsOfOneKind`, `MovesStayWhole`, `ViewIsNeverOverbooked` | `TypeOK`, `OneKindOfPlan`, `MovesAreWhole`, `NeverOverbooked` are invariants |
| `DeletionsAreMoves` | `Spec => DeletesToMove`, an action property |
| `Refinement` | `Spec => ImplementsProtocol`: the scheduler implements `PlanProtocol` |
| `FillsCalmly` | `Filling => (Spec => []CalmInv)`: the inductive invariant of a namespace that fills up |
| `NeverOvercommitted`, `BooksAreRight`, `NoneIsLost`, `NoneIsInvented`, `NextIsUnbound` | `Filling => (Spec => [](Calm => P))` for `P` = `NoOvercommit`, `Accounting`, `NoLostPod`, `NoGhost`, `PlannedIsUnbound` |
| `EveryOrderIsEmittedOnce`, `FitInEdgeIsOptimal`, `MappingsAreBest` | what `Permutations`, the table and `MapPodToEdge` compute, for every input |
| `SimulationIsTidy` | `Spec => []SimulationInv`: the inductive invariant of the simulator |
| `TheSimulatorNeverPanics`, `TheOrdersAreEmittedOnce`, `TheTableIsAlwaysOptimal`, `TheMappingsAreAlwaysCovered`, `TheDecisionsAreAlwaysCovered` | `NeverPanics`, `EveryOrderOnce`, `TheTableIsOptimal`, `MappingsAreCovered`, `DecisionsAreCovered` are invariants of the simulator |
| `TheSimulatorForgetsNoPod` | `Spec => NoPodIsForgotten`, an action property |
| `TheSuggestionsAreAlwaysCovered`, `TheSuggestionsAreAlwaysSound` | `SuggestionsAreCovered` is an invariant of the simulator, with any number of migrations; the same of the pods that stay, for any statuses |

### The queue and the view

`IInv` is the conjunction of the types, `PlanOK` (the queue is well formed, of one kind,
made of whole moves) and `NeverOverbooked`. None of its parts is inductive alone. That `After` and `Do`
are applied to elements with the fields they use needs the queue to be well formed; that popping
an awaited `Create` leaves a `MigrateBind` in front, and never an empty queue, needs whole moves; that
a suggestion's plan consists of whole moves needs the types of what the suggestion and the cluster
state hold; and that a plan appended to the queue leaves it of one kind needs that the queue is
empty then. `ClusterStateProofs` shows that each method keeps the record's type and `WithinResources`;
`SchedulerProofs` does the same for the calls, the watch and the listings,
shows that prefixes, tails and the three ways a plan is built (`BatchPlan`, `MovesPlan`, `MigrationsPlan`, whose
moves and single bindings come in any order) give good plans, has one lemma per group of actions and combines them.
`DeletionsAreMoves` looks at every action that can make an existing pod disappear: the cluster's own
actions count as disruptions, and `Do` deletes a pod only for the head of the queue that results.

Why these: they are what the rest of the code silently relies on. `schedule()` would corrupt the
buffer it ranges over if an awaited creation could be the last expectation (`MovesAreWhole`), and
`MakeDecisionForNewPods` returns no decision at all, dropping the batch, once a node is overbooked
(`NeverOverbooked`).

### The refinement

`ProtocolProofs` maps every action to a step of `PlanProtocol` or to a stutter. What makes that work is that
in a queue of whole moves (`PlanOK`) the head determines `Step`: a deletion is followed by the creation and the
binding it needs, so the target of the move can be read off its end at each of its stages, and popping an element
leaves the head of the stage that follows. The lemma `DoCalls` says what the call of an element does
to the API server: it binds one pod, deletes one, or, when it is refused or lost, does nothing, which the protocol
allows as a dropped plan. `StartsAfresh` covers the plans that are made when the queue is empty, and everything else
leaves the queue and the bindings as they are, or drops the queue. The only assumption on top of
those of the model is `NilIsNoStep`, that the value for "no step" is not itself a step; TLC evaluates it.

### While a namespace fills up

Five invariants relate the scheduler's view to the cluster, and they do not hold always: the runs
`overcommit` and `forgets_everything`, and the remarks on `BatchSize` above, show how each of them fails. They are
proved in a setting (`Filling`) and as long as it is quiet (`Calm`):

* one cloud node (with several, `DeployCloud` draws one at random, and the view has a pod on another
  node than it is on), a batch for every pod, resets of the view that are counted (so that `Calm` can tell), and
  no pod bound at launch;
* no failed call, crash, reset of the view or disruption so far, and no pod deleted so far.

The health check and its samples, listings that overtake events, suggestions, plans of moves whose deletion was refused
because the pod was the only one running, and any delay of the watch are all in it. So are any number of pods,
deployments, nodes and resources. The first move ends the calm.
`placing` evaluates `Filling` for its instance and checks `CalmInv` there.

`FillInv` is what had to be added to make the five inductive; each part is needed by the next:

* `PodsFill`: the states pods go through; a bound pod has a name that the connector knows.
* `ViewFill`: the view is `Tidy`: one object for each known pod, entered at most once, at the node the object
  says, and charged for there, as a sum over pods; and an object that has a node has the right one.
* `NewsFill`: the events under way, read as one sequence of notes from the handler to the watch
  (`Pipe`), are true and new: each pod's creation, binding and start come once and in this order, and
  a pod that is bound and not in the view has its binding on the pipe.
* `WatchFill`: an unknown pod's creation is still on the watch.
* `QueueFill`: the queue holds bindings of different pods, of which only the first may have been made, or a stuck
  move; for the pods in the view at a node and those planned to go there together there is room.
  This is why edge nodes are not overcommitted although the view is always behind: whoever is bound
  and not seen yet is the first of the plan, and the plan was made to fit with him. It needs `CreatedFirst`: were a
  planned pod's creation still behind somebody's binding, the call would be refused and the plan dropped.
* `BufferFill`, `ControlFill`: a buffered pod waits or is being bound by the plan (`goingToPlace`), and its creation is not still
  to be handled; what each `pc` allows.

Every action has a lemma that keeps these parts (`WorldFills` ... `CheckFills`), and those that cannot happen
in the calm have one that says why (`NothingHappens`, `NothingAwaited`, `NothingFails`, `NothingPanics`: in
the calm the process never panics). `CalmLasts` says that the calm, once over, does not come back, so that
`CalmInv` is inductive together with `IInv`. The theorems about sums are proved from the
definition of `SumFunctionOnSet` in `SumProofs`: that an element can be split off, in whatever order the sum was taken,
and that sums agree along a renaming of their elements, which turns the charges of objects into the sizes of pods.

### The algorithms

The functions of `EdgeAlg` compute by recursion, through the folds of the community modules and the function
`helper`. Induction over data as a library theorem is not to be had, so `SumProofs` and `EdgeAlgProofs` do what
an induction does by the least counterexample: a fold over a finite set is the value at the whole set of
a function on its subsets (`Solves`), such functions exist and agree, and if some subset lacked the property to be
shown, a minimal one would (`SeqInduction` and `SeqFold` for sequences, `StateInduction` for the calls on a cluster).

* **Permutations.** `LevelGood` says of `helper(n)` that it emits every order of the first n elements, with the rest as it
  is, each once, and leaves the n elements as they were if n is even, rotated by one place if n is odd (`EvenRound`,
  `OddRound`). This is why each element is last exactly once in the rounds of a level (`EachIsLast`).
* **The table.** After some of the nodes, each cell of a row has the best total of the ways to cut that many pods into parts
  for these nodes (`NextRowIsBest`): a best way, cut off at the start of its last part, is a
  way for the nodes before, so it cannot be better than the cell there (`PartsWorth`, `CellIsBest`).
* **The mapping.** Any assignment with room is a cut of *some* order of the pods, the one sorted by
  node (`CanBeSorted`, `AssignmentIsCut`), and every order is tried. So what all the orders give is as good as the best
  assignment: an optimum over all assignments, of a search whose every single step is restricted to cuts.
* **The decision.** A pod more on the edge scores strictly more (`MorePodsScoreMore`). A decision that must not migrate has
  the masks that fit the edge as outcomes, and the best of them is therefore one that no other contains (`BestMask`).
* **The suggestion.** A pod that the greedy loop once passed over does not fit what is left later either, for less is left
  (`TurnIsGreedy`), so what it takes cannot be extended (`SuggestedAreMost`). Then all masks fit, nothing has to be freed
  (`OutcomesThatFit`), and the decision sends all of it to the edge (`SuggestedDecision`).

`SimulationInv` ties these to the simulator: each pod has one object and at most one entry (`Tidy`), nodes are charged with the sizes
of the pods on them, no node beyond its resources, and the new pods are nowhere yet. Without the books, room on a node in
the view would say nothing about the pods that were mapped together; without `OneEntry`, `RemovePod` could
leave an entry behind and the next `DeployEdge` would be refused, which panics. `FeasibleMoves` is the heart of
`NeverPanics`: migrations are mapped onto what the nodes have once all the migrating pods have left, and they are applied in this order.

The assumptions on the constants: nodes have some of each resource, for the fragmentation divides by their volume
(`NodesHaveResources`); `Unit` is a common denominator; the builder has a cloud node (`CloudIsThere`); and the rounding of the
quality of service to 1/10000 keeps it strictly growing with the pods on the edge (`QualityGrows`), as it
is in the program's `float64`. TLC evaluates all of them. The theorems about suggestions have no other, in particular none on `MaximumMigrations`.
`MigrationsAre` shows that the migrations of a suggestion are one of the choices of `Placement`: what their pods need is a sum
over objects there and over pods here. `TheSuggestionsAreAlwaysSound` says it of the pods that stay: the moves
have room beside them, and no deployment has all its running pods *migrated* (that pulling them
from the cloud can do so is what `keeps_one_running` shows).

### What is only model-checked

Liveness (`PlansEnd`, `PendingIsBound`), which is out of reach for tlapm, and the five invariants of a namespace that fills up
where failures, resets and moves intervene (`healing`: `NoOvercommit`, `NoLostPod`; `reordering`: `NoGhost`): there the view
lags behind deletions and lost replies as well, and an invariant would have to say how each of them heals.

## Not modelled

The offloading branch of `checkSuggestion` (the suggested pods always fit the clone, so nothing is ever
freed for them, which `SuggestionsAreCovered` shows); `GetMaximumScore`, which nothing calls; rounding of
floats beyond what ties show; the constant connector, a stub whose calls do nothing; statistics, logging, the
configuration file, `Display` and the YAML methods; the web server, whose request takes a clone and answers with
its text (the panic of that clone is modelled); the report of the simulator; `FindNodes`' subtraction of a reserve.

## The plan

Done in this order: the cluster state, the environment, the connector, the scheduler; the surroundings;
the theorems of the queue and of the view; the algorithms and the simulator; the abstract protocol; the
refinement; the invariants of a namespace that fills up; what the algorithms compute, and the simulator. Open:

1. `Calm` without its last clause: moves. The view then lags behind deletions, too, and `NoGhost` has the
   deletion on the pipe as its second case.
2. The protocol's own invariant: a move is never due with fewer events left than it waits for.
